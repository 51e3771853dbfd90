-------------------------- MODULE GlobalCIDR_proofs --------------------------
(***************************************************************************)
(* Facts about the CIDR arithmetic: blocks are nested or disjoint, so that *)
(* the two tests of the code (does one block contain the other's network   *)
(* address?) decide whether two blocks share an address.                   *)
(***************************************************************************)
EXTENDS GlobalCIDR, WellFoundedInduction, TLAPS

\* Euclidean division, in the form the lemmas below use it.
LEMMA Division ==
    ASSUME NEW n \in Nat, NEW s \in Nat \ {0}
    PROVE  /\ n \div s \in Nat
           /\ n = s * (n \div s) + (n % s)
           /\ 0 <= n % s /\ n % s < s
  BY SMT

LEMMA MultipleOrder ==
    ASSUME NEW s \in Nat \ {0}, NEW k \in Nat, NEW m \in Nat, s * k < s * m
    PROVE  s * k + s <= s * m
  <1>1. k < m
    <2>1. SUFFICES ASSUME m <= k PROVE FALSE
      OBVIOUS
    <2>2. PICK d \in Nat : k = m + d
      BY <2>1
    <2>3. s * k = s * m + s * d /\ s * d >= 0
      BY <2>2
    <2> QED BY <2>3
  <1>2. PICK d \in Nat : m = k + 1 + d
    BY <1>1
  <1>3. s * m = s * k + s + s * d /\ s * d >= 0
    BY <1>2
  <1> QED BY <1>3

\* Masking rounds an address down to a multiple of the block size.
LEMMA MaskedBounds ==
    ASSUME NEW ip \in Nat, NEW s \in Nat \ {0}
    PROVE  /\ Masked(ip, s) \in Nat
           /\ Masked(ip, s) = s * (ip \div s)
           /\ Masked(ip, s) <= ip /\ ip < Masked(ip, s) + s
  BY Division DEF Masked

\* The multiples of s are those with remainder zero.
LEMMA Multiples ==
    ASSUME NEW s \in Nat \ {0}, NEW k \in Nat
    PROVE  (s * k) % s = 0 /\ (s * k) \div s = k
  <1> DEFINE n == s * k
  <1>1. n \in Nat
    OBVIOUS
  <1>2. n \div s \in Nat /\ n = s * (n \div s) + (n % s) /\ 0 <= n % s /\ n % s < s
    BY <1>1, Division
  <1> DEFINE q == n \div s
  <1>3. ~ (s * q < s * k)
    BY <1>2, MultipleOrder
  <1>4. n % s = 0
    BY <1>2, <1>3
  <1>5. s * q = s * k
    BY <1>2, <1>4
  <1>6. q = k
    <2>1. CASE q < k
      <3>1. PICK d \in Nat : k = q + 1 + d
        BY <2>1, <1>2
      <3>2. s * k = s * q + s + s * d /\ s * d >= 0
        BY <3>1, <1>2
      <3> QED BY <3>2, <1>5, <1>2
    <2>2. CASE k < q
      <3>1. PICK d \in Nat : q = k + 1 + d
        BY <2>2, <1>2
      <3>2. s * q = s * k + s + s * d /\ s * d >= 0
        BY <3>1, <1>2
      <3> QED BY <3>2, <1>5, <1>2
    <2> QED BY <2>1, <2>2, <1>2
  <1> QED BY <1>4, <1>6

LEMMA BlockFacts ==
    ASSUME NEW b \in Block
    PROVE  /\ b.ip \in Nat /\ b.size \in Nat \ {0} /\ b.size \in Sizes
           /\ b.ip \in Addr /\ b = [ip |-> b.ip, size |-> b.size]
           /\ b.ip = b.size * (b.ip \div b.size) /\ b.ip \div b.size \in Nat
           /\ LastIP(b) \in Nat /\ b.ip <= LastIP(b)
  <1>1. b \in [ip : Addr, size : Sizes] /\ b.ip % b.size = 0
    BY DEF Block
  <1>2. b.ip \in Addr /\ b.size \in Sizes /\ b = [ip |-> b.ip, size |-> b.size]
    BY <1>1
  <1>3. b.size \in Nat \ {0}
    BY <1>2, SizesAssumption
  <1>4. b.ip \in Nat
    BY <1>2, SizesAssumption DEF Addr
  <1>5. b.ip = b.size * (b.ip \div b.size) + (b.ip % b.size) /\ b.ip \div b.size \in Nat
    BY <1>3, <1>4, Division
  <1>6. b.ip = b.size * (b.ip \div b.size) /\ b.ip \div b.size \in Nat
    <2> DEFINE p == b.size * (b.ip \div b.size)
    <2>1. p \in Nat
      BY <1>3, <1>5
    <2> HIDE DEF p
    <2>2. b.ip = p + (b.ip % b.size)
      BY <1>5 DEF p
    <2>3. b.ip = p
      BY <2>1, <2>2, <1>1
    <2> QED BY <2>3, <1>5 DEF p
  <1>7. LastIP(b) \in Nat /\ b.ip <= LastIP(b)
    BY <1>3, <1>4 DEF LastIP
  <1> QED BY <1>2, <1>3, <1>4, <1>6, <1>7

\* net.IPNet.Contains is membership in the interval of the block's addresses.
LEMMA ContainsIsInterval ==
    ASSUME NEW b \in Block, NEW ip \in Nat
    PROVE  Contains(b, ip) <=> b.ip <= ip /\ ip <= LastIP(b)
  <1> DEFINE s == b.size
             q == ip \div s
             k == b.ip \div s
  <1>1. s \in Nat \ {0} /\ b.ip \in Nat /\ k \in Nat /\ b.ip = s * k
    BY BlockFacts
  <1>2. q \in Nat /\ Masked(ip, s) = s * q /\ s * q <= ip /\ ip < s * q + s
    <2>1. /\ Masked(ip, s) \in Nat /\ Masked(ip, s) = s * q
          /\ Masked(ip, s) <= ip /\ ip < Masked(ip, s) + s
      BY <1>1, MaskedBounds
    <2>2. q \in Nat
      BY <1>1, Division
    <2> QED BY <2>1, <2>2
  <1>3. s * q < s * k => s * q + s <= s * k
    BY <1>1, <1>2, MultipleOrder
  <1>4. s * k < s * q => s * k + s <= s * q
    BY <1>1, <1>2, MultipleOrder
  <1>5. s * q \in Nat /\ s * k \in Nat
    BY <1>1, <1>2
  <1> HIDE DEF s, q, k
  <1>6. s * q = s * k <=> s * k <= ip /\ ip < s * k + s
    BY <1>1, <1>2, <1>3, <1>4, <1>5
  <1>7. Contains(b, ip) <=> s * q = s * k
    BY <1>1, <1>2 DEF Contains, s
  <1>8. LastIP(b) = s * k + s - 1
    BY <1>1 DEF LastIP, s
  <1> QED BY <1>1, <1>6, <1>7, <1>8, <1>5

LEMMA DisjointIsApart ==
    ASSUME NEW a \in Block, NEW b \in Block
    PROVE  Disjoint(a, b) <=> LastIP(a) < b.ip \/ LastIP(b) < a.ip
  <1>1. /\ a.ip \in Nat /\ b.ip \in Nat /\ LastIP(a) \in Nat /\ LastIP(b) \in Nat
        /\ a.ip <= LastIP(a) /\ b.ip <= LastIP(b)
    BY BlockFacts
  <1>2. ASSUME LastIP(a) < b.ip \/ LastIP(b) < a.ip
        PROVE  Disjoint(a, b)
    BY <1>1, <1>2 DEF Disjoint, Addresses
  <1>3. ASSUME ~ (LastIP(a) < b.ip \/ LastIP(b) < a.ip)
        PROVE  ~ Disjoint(a, b)
    <2>1. CASE a.ip <= b.ip
      <3>1. b.ip \in Addresses(a) /\ b.ip \in Addresses(b)
        BY <1>1, <1>3, <2>1 DEF Addresses
      <3> QED BY <3>1 DEF Disjoint
    <2>2. CASE b.ip <= a.ip
      <3>1. a.ip \in Addresses(a) /\ a.ip \in Addresses(b)
        BY <1>1, <1>3, <2>2 DEF Addresses
      <3> QED BY <3>1 DEF Disjoint
    <2> QED BY <1>1, <2>1, <2>2
  <1> QED BY <1>2, <1>3

\* The smaller of two blocks that share an address lies inside the larger.
LEMMA NestedOrApart ==
    ASSUME NEW a \in Block, NEW b \in Block, a.size <= b.size
    PROVE  \/ LastIP(a) < b.ip \/ LastIP(b) < a.ip
           \/ b.ip <= a.ip /\ LastIP(a) <= LastIP(b)
  <1> DEFINE s == a.size
             t == b.size
             r == t \div s
             k == a.ip \div s
             m == b.ip \div t
  <1>1. /\ s \in Nat \ {0} /\ t \in Nat \ {0} /\ k \in Nat /\ m \in Nat
        /\ a.ip = s * k /\ b.ip = t * m
        /\ s \in Sizes /\ t \in Sizes
    BY BlockFacts
  <1>2. t % s = 0
    BY <1>1, SizesAssumption
  <1>3. r \in Nat /\ t = s * r
    <2>1. r \in Nat /\ t = s * r + (t % s)
      BY <1>1, Division
    <2>2. s * r \in Nat
      BY <1>1, <2>1
    <2> HIDE DEF r
    <2> QED BY <1>2, <2>1, <2>2
  <1>4. LastIP(a) = a.ip + s - 1 /\ LastIP(b) = b.ip + t - 1
    BY DEF LastIP
  <1> HIDE DEF s, t, r, k, m
  <1>5. b.ip = s * (r * m) /\ b.ip + t = s * (r * m + r) /\ r * m \in Nat /\ r * m + r \in Nat
    BY <1>1, <1>3
  <1>6. s * k < s * (r * m + r) => s * k + s <= s * (r * m + r)
    BY <1>1, <1>5, MultipleOrder
  <1>7. s * k < s * (r * m) => s * k + s <= s * (r * m)
    BY <1>1, <1>5, MultipleOrder
  <1>8. a.ip \in Nat /\ b.ip \in Nat /\ s \in Nat /\ t \in Nat
    BY <1>1, BlockFacts
  <1> QED BY <1>1, <1>4, <1>5, <1>6, <1>7, <1>8

\* isOverlappingCIDR and allocateByCidr test two containments of network
\* addresses; this decides whether the blocks share any address at all.
THEOREM OverlappingIsSharing ==
    ASSUME NEW a \in Block, NEW b \in Block
    PROVE  Overlapping(a, b) <=> ~ Disjoint(a, b)
  <1>1. /\ a.ip \in Nat /\ b.ip \in Nat /\ LastIP(a) \in Nat /\ LastIP(b) \in Nat
        /\ a.ip <= LastIP(a) /\ b.ip <= LastIP(b)
        /\ a.size \in Nat /\ b.size \in Nat
    BY BlockFacts
  <1>2. Contains(a, b.ip) <=> a.ip <= b.ip /\ b.ip <= LastIP(a)
    BY <1>1, ContainsIsInterval
  <1>3. Contains(b, a.ip) <=> b.ip <= a.ip /\ a.ip <= LastIP(b)
    BY <1>1, ContainsIsInterval
  <1>4. Disjoint(a, b) <=> LastIP(a) < b.ip \/ LastIP(b) < a.ip
    BY DisjointIsApart
  <1> QED BY <1>1, <1>2, <1>3, <1>4 DEF Overlapping

\* Masking an address yields the block of that size that contains it.
LEMMA NetworkFacts ==
    ASSUME NEW ip \in Addr, NEW s \in Sizes
    PROVE  /\ Network(ip, s) \in Block
           /\ Network(ip, s).size = s
           /\ Network(ip, s).ip <= ip /\ ip <= LastIP(Network(ip, s))
           /\ Network(ip, s).ip = ip <=> ip % s = 0
  <1> DEFINE n == Masked(ip, s)
  <1>1. ip \in Nat /\ s \in Nat \ {0}
    BY SizesAssumption DEF Addr
  <1>2. n \in Nat /\ n = s * (ip \div s) /\ n <= ip /\ ip < n + s /\ ip \div s \in Nat
    BY <1>1, MaskedBounds, Division
  <1>3. n % s = 0
    BY <1>1, <1>2, Multiples
  <1>4. n \in Addr
    <2> HIDE DEF n
    <2> QED BY <1>1, <1>2, SizesAssumption DEF Addr
  <1>5. n = ip <=> ip % s = 0
    <2>1. n = ip - (ip % s) /\ ip % s \in Nat
      BY <1>1, Division DEF Masked
    <2> HIDE DEF n
    <2> QED BY <2>1, <1>1
  <1> HIDE DEF n
  <1>6. Network(ip, s) = [ip |-> n, size |-> s]
    BY DEF Network, n
  <1>7. Network(ip, s) \in Block
    BY <1>3, <1>4, <1>6 DEF Block
  <1>8. ip <= LastIP(Network(ip, s))
    BY <1>1, <1>2, <1>6 DEF LastIP
  <1> QED BY <1>2, <1>5, <1>6, <1>7, <1>8

\* No block reaches beyond the address space.
LEMMA BlockInSpace ==
    ASSUME NEW b \in Block
    PROVE  LastIP(b) < AddressSpace
  <1> DEFINE w == [ip |-> 0, size |-> AddressSpace]
  <1>1. AddressSpace \in Nat \ {0} /\ AddressSpace \in Sizes
    BY SizesAssumption
  <1>2. w \in Block
    <2>1. 0 % AddressSpace = 0
      BY <1>1
    <2> QED BY <1>1, <2>1 DEF Block, Addr
  <1>3. w.ip = 0 /\ w.size = AddressSpace /\ LastIP(w) = AddressSpace - 1
    BY <1>1 DEF LastIP
  <1>4. /\ b.size \in Nat /\ b.size <= w.size /\ b.ip \in Nat /\ b.ip < AddressSpace
        /\ LastIP(b) \in Nat
    BY BlockFacts, SizesAssumption DEF Addr
  <1> HIDE DEF w
  <1>5. \/ LastIP(b) < w.ip \/ LastIP(w) < b.ip
        \/ w.ip <= b.ip /\ LastIP(b) <= LastIP(w)
    BY <1>2, <1>4, NestedOrApart
  <1> QED BY <1>1, <1>3, <1>4, <1>5

-----------------------------------------------------------------------------
\* Which block an allocation returns, and when there is one.

LEMMA Least ==
    ASSUME NEW T, T \subseteq Nat, T # {}
    PROVE  \E x \in T : \A y \in T : x <= y
  <1>1. \E x \in T : \A y \in T : <<y, x>> \notin OpToRel(<, Nat)
    BY NatLessThanWellFounded, WFMin
  <1>2. PICK x \in T : \A y \in T : <<y, x>> \notin OpToRel(<, Nat)
    BY <1>1
  <1>3. ASSUME NEW y \in T PROVE x <= y
    <2>1. x \in Nat /\ y \in Nat
      OBVIOUS
    <2>2. y < x => <<y, x>> \in OpToRel(<, Nat)
      BY <2>1 DEF OpToRel
    <2>3. ~ (y < x)
      BY <1>2, <2>2, Zenon
    <2> QED BY <2>1, <2>3
  <1> QED BY <1>3

LEMMA RoundsUp ==
    ASSUME NEW n \in Nat, n <= AddressSpace
    PROVE  /\ IsRoundUp(n, RoundUp(n))
           /\ \A s : IsRoundUp(n, s) => s = RoundUp(n)
  <1> DEFINE T == {s \in Sizes : n <= s}
  <1>1. T \subseteq Nat /\ AddressSpace \in T /\ Sizes \subseteq Nat
    <2>1. 1 .. AddressSpace \subseteq Nat /\ AddressSpace \in Sizes
      BY SizesAssumption
    <2>2. Sizes \subseteq Nat
      BY <2>1, SizesAssumption
    <2> QED BY <2>1, <2>2
  <1>2. PICK s \in T : \A t \in T : s <= t
    BY <1>1, Least
  <1>3. IsRoundUp(n, s)
    BY <1>2 DEF IsRoundUp
  <1>4. IsRoundUp(n, RoundUp(n))
    BY <1>3 DEF RoundUp, IsRoundUp
  <1>5. ASSUME NEW t, IsRoundUp(n, t) PROVE t = RoundUp(n)
    <2>1. t <= RoundUp(n) /\ RoundUp(n) <= t /\ t \in Sizes /\ RoundUp(n) \in Sizes
      BY <1>4, <1>5 DEF IsRoundUp
    <2>2. t \in Nat /\ RoundUp(n) \in Nat
      BY <1>1, <2>1
    <2> QED BY <2>1, <2>2
  <1> QED BY <1>4, <1>5

\* There is one lowest free block, unless no block is free.
LEMMA FirstFreeIsOne ==
    ASSUME NEW range, NEW allocated, NEW size,
           FreeBlocks(range, allocated, size) # {}
    PROVE  \E b \in FreeBlocks(range, allocated, size) :
              FirstFree(range, allocated, size) = {b}
  <1> DEFINE free == FreeBlocks(range, allocated, size)
             T == {b.ip : b \in free}
  <1>1. \A b \in free : b \in Block /\ b.size = size
    BY DEF FreeBlocks
  <1>2. T \subseteq Nat /\ T # {}
    BY <1>1, BlockFacts
  <1> HIDE DEF free
  <1>3. PICK b \in free : \A d \in free : b.ip <= d.ip
    <2>1. PICK x \in T : \A y \in T : x <= y
      BY <1>2, Least
    <2>2. PICK b \in free : x = b.ip
      OBVIOUS
    <2> QED BY <2>1, <2>2
  <1>4. ASSUME NEW c \in free, \A d \in free : c.ip <= d.ip
        PROVE  c = b
    <2>1. c.ip <= b.ip /\ b.ip <= c.ip
      BY <1>3, <1>4
    <2>2. /\ c.ip \in Nat /\ b.ip \in Nat
          /\ c = [ip |-> c.ip, size |-> c.size] /\ b = [ip |-> b.ip, size |-> b.size]
          /\ c.size = b.size
      BY <1>1, BlockFacts
    <2> QED BY <2>1, <2>2
  <1>5. FirstFree(range, allocated, size) = {c \in free : \A d \in free : c.ip <= d.ip}
    BY DEF FirstFree, free
  <1> QED BY <1>3, <1>4, <1>5 DEF free

\* AllocateGlobalCIDR, for a cluster of any positive number of addresses, decides
\* between one block and none: it returns the lowest free block of the next size,
\* and fails exactly when no block of that size is free (globalnet.go:126-183).
THEOREM AllocationDecided ==
    ASSUME NEW range, NEW allocated, NEW n \in Nat \ {0}, n <= AddressSpace
    PROVE  LET free == FreeBlocks(range, allocated, RoundUp(n))
           IN  /\ AllocateGlobalCIDR(range, allocated, n) =
                      FirstFree(range, allocated, RoundUp(n))
               /\ free = {} => AllocateGlobalCIDR(range, allocated, n) = {}
               /\ free # {} =>
                     \E b \in free : AllocateGlobalCIDR(range, allocated, n) = {b}
  <1>1. {s \in Sizes : 0 < n /\ IsRoundUp(n, s)} = {RoundUp(n)}
    BY RoundsUp DEF IsRoundUp
  <1>2. AllocateGlobalCIDR(range, allocated, n) = FirstFree(range, allocated, RoundUp(n))
    BY <1>1 DEF AllocateGlobalCIDR
  <1>3. FreeBlocks(range, allocated, RoundUp(n)) = {} =>
            FirstFree(range, allocated, RoundUp(n)) = {}
    BY DEF FirstFree
  <1> QED BY <1>2, <1>3, FirstFreeIsOne

\* A size is its own rounding: a cluster with the default size of the ConfigMap,
\* which has been rounded up before, asks for blocks of exactly that size.
LEMMA SizeIsRounded ==
    ASSUME NEW s \in Sizes
    PROVE  s \in Nat \ {0} /\ s <= AddressSpace /\ RoundUp(s) = s
  <1>1. s \in Nat \ {0} /\ s <= AddressSpace
    BY SizesAssumption
  <1>2. IsRoundUp(s, s)
    BY <1>1 DEF IsRoundUp
  <1> QED BY <1>1, <1>2, RoundsUp

LEMMA BelowModulus ==
    ASSUME NEW n \in Nat, NEW m \in Nat \ {0}
    PROVE  /\ n % m \in 0 .. m - 1
           /\ n < m => n % m = n
           /\ m % m = 0
  BY SMT

\* A size that GetValidClusterSize accepts, and that its callers do not take for
\* an error, is the smallest block size that holds the clusters asked for, in
\* spite of the two truncations to 32 bits, and at most half of the range
\* (globalnet.go:185-224).
THEOREM ValidSizeIsRounded ==
    ASSUME NEW range \in Block, NEW n \in Nat,
           GetValidClusterSize(range, n) # 0
    PROVE  /\ IsRoundUp(n % AddressSpace, GetValidClusterSize(range, n))
           /\ 2 * GetValidClusterSize(range, n) <= range.size
  <1> DEFINE m == n % AddressSpace
             r == RoundUp(m)
             s == GetValidClusterSize(range, n)
  <1>1. AddressSpace \in Nat \ {0} /\ range.size \in Nat
    BY SizesAssumption, BlockFacts
  <1>2. m \in Nat /\ m <= AddressSpace
    <2>1. m \in 0 .. AddressSpace - 1
      BY <1>1, BelowModulus
    <2> HIDE DEF m
    <2> QED BY <1>1, <2>1
  <1>3. s = NextPowerOf2(n) /\ ~ (NextPowerOf2(n) > range.size \div 2)
    BY DEF GetValidClusterSize, ClusterSizeFails
  <1>4. m # 0 /\ NextPowerOf2(n) = r % AddressSpace
    BY <1>3 DEF NextPowerOf2
  <1> HIDE DEF m
  <1>5. IsRoundUp(m, r)
    BY <1>2, RoundsUp
  <1>6. r \in Nat /\ r <= AddressSpace
    BY <1>5, SizeIsRounded DEF IsRoundUp
  <1> HIDE DEF r, s
  <1>7. r % AddressSpace # 0
    BY <1>3, <1>4 DEF s
  <1>8. r # AddressSpace
    BY <1>1, <1>7, BelowModulus
  <1>9. r % AddressSpace = r
    BY <1>1, <1>6, <1>8, BelowModulus
  <1>10. s = r
    BY <1>3, <1>4, <1>9
  <1>11. 2 * s <= range.size
    <2>1. ~ (s > range.size \div 2) /\ s \in Nat
      BY <1>3, <1>6, <1>10
    <2> QED BY <1>1, <2>1, SMT
  <1> QED BY <1>5, <1>10, <1>11 DEF m, s

\* The first two blocks of a size in a range of at least twice that size.
LEMMA TwoBlocks ==
    ASSUME NEW range \in Block, NEW s \in Sizes, 2 * s <= range.size
    PROVE  LET low == [ip |-> range.ip, size |-> s]
               high == [ip |-> range.ip + s, size |-> s]
           IN  /\ low \in Block /\ high \in Block
               /\ Within(low, range) /\ Within(high, range)
  <1> DEFINE k == range.ip \div range.size
             q == range.size \div s
  <1>1. /\ range.ip \in Nat /\ range.ip \in Addr /\ range.size \in Nat \ {0}
        /\ range.size \in Sizes /\ k \in Nat /\ range.ip = range.size * k
        /\ LastIP(range) < AddressSpace
    BY BlockFacts, BlockInSpace
  <1>2. s \in Nat \ {0} /\ AddressSpace \in Nat
    BY SizeIsRounded, SizesAssumption
  <1>3. range.size % s = 0
    BY <1>1, <1>2, SizesAssumption
  <1>4. q \in Nat /\ range.size = s * q
    <2>1. q \in Nat /\ range.size = s * q + (range.size % s)
      BY <1>1, <1>2, Division
    <2>2. s * q \in Nat
      BY <1>2, <2>1
    <2> HIDE DEF q
    <2> QED BY <1>3, <2>1, <2>2
  <1> HIDE DEF k, q
  <1>5. q * k \in Nat /\ range.ip = s * (q * k) /\ range.ip + s = s * (q * k + 1)
    BY <1>1, <1>2, <1>4
  <1>6. range.ip % s = 0 /\ (range.ip + s) % s = 0
    BY <1>2, <1>5, Multiples
  <1>7. LastIP(range) = range.ip + range.size - 1
    BY DEF LastIP
  <1>8. range.ip + s \in Addr
    BY <1>1, <1>2, <1>7 DEF Addr
  <1>9. /\ [ip |-> range.ip, size |-> s] \in Block
        /\ [ip |-> range.ip + s, size |-> s] \in Block
    BY <1>1, <1>6, <1>8 DEF Block
  <1> QED BY <1>1, <1>2, <1>7, <1>9 DEF Within, LastIP

\* A block that lies in another one is disjoint from what that one is disjoint from.
LEMMA BlockInside ==
    ASSUME NEW b \in Block, NEW s \in Sizes, s <= b.size
    PROVE  LET n == Network(b.ip, s)
           IN  /\ n \in Block /\ n.size = s
               /\ \A range \in Block : Within(b, range) => Within(n, range)
               /\ \A a \in Block : Disjoint(a, b) => Disjoint(a, n)
  <1> DEFINE n == Network(b.ip, s)
  <1>1. b.ip \in Addr /\ b.ip \in Nat /\ LastIP(b) \in Nat /\ b.ip <= LastIP(b)
    BY BlockFacts
  <1>2. n \in Block /\ n.size = s /\ n.ip <= b.ip /\ b.ip <= LastIP(n)
    BY <1>1, NetworkFacts
  <1> HIDE DEF n
  <1>3. n.ip \in Nat /\ LastIP(n) \in Nat
    BY <1>2, BlockFacts
  <1>4. b.ip <= n.ip /\ LastIP(n) <= LastIP(b)
    <2>1. \/ LastIP(n) < b.ip \/ LastIP(b) < n.ip
          \/ b.ip <= n.ip /\ LastIP(n) <= LastIP(b)
      BY <1>2, NestedOrApart
    <2> QED BY <1>1, <1>2, <1>3, <2>1
  <1>5. ASSUME NEW range \in Block, Within(b, range) PROVE Within(n, range)
    <2>1. range.ip \in Nat /\ LastIP(range) \in Nat
      BY BlockFacts
    <2> QED BY <1>1, <1>3, <1>4, <1>5, <2>1 DEF Within
  <1>6. ASSUME NEW a \in Block, Disjoint(a, b) PROVE Disjoint(a, n)
    <2>1. a.ip \in Nat /\ LastIP(a) \in Nat
      BY BlockFacts
    <2>2. LastIP(a) < b.ip \/ LastIP(b) < a.ip
      BY <1>6, DisjointIsApart
    <2>3. LastIP(a) < n.ip \/ LastIP(n) < a.ip
      BY <1>1, <1>3, <1>4, <2>1, <2>2
    <2> QED BY <1>2, <2>3, DisjointIsApart
  <1> QED BY <1>2, <1>5, <1>6 DEF n

\* Valid cluster sizes let two clusters join a range: whatever block of at most
\* half of the range the first one has, wherever it lies and whatever its own size,
\* there is one for the second.  That is what the limit of half the range is for
\* (globalnet.go:209-224).
THEOREM SecondClusterFits ==
    ASSUME NEW range \in Block, NEW n \in Nat,
           GetValidClusterSize(range, n) # 0,
           NEW a \in Block, 2 * a.size <= range.size
    PROVE  AllocateGlobalCIDR(range, {a}, GetValidClusterSize(range, n)) # {}
  <1> DEFINE s == GetValidClusterSize(range, n)
  <1>1. s \in Sizes /\ 2 * s <= range.size
    BY ValidSizeIsRounded DEF IsRoundUp
  <1> HIDE DEF s
  <1>2. s \in Nat \ {0} /\ s <= AddressSpace /\ RoundUp(s) = s
    BY <1>1, SizeIsRounded
  <1>3. a.size \in Sizes /\ a.size \in Nat
    BY BlockFacts
  <1>4. PICK t \in Sizes : s <= t /\ a.size <= t /\ 2 * t <= range.size /\ t \in Nat
    <2>1. s <= a.size \/ a.size <= s
      BY <1>2, <1>3
    <2> QED BY <1>1, <1>2, <1>3, <2>1
  <1> DEFINE low == [ip |-> range.ip, size |-> t]
             high == [ip |-> range.ip + t, size |-> t]
  <1>5. /\ low \in Block /\ high \in Block
        /\ Within(low, range) /\ Within(high, range)
    BY <1>4, TwoBlocks
  <1>6. /\ low.size = t /\ high.ip = range.ip + t /\ high.size = t
        /\ LastIP(low) = range.ip + t - 1
    BY DEF LastIP
  <1> HIDE DEF low, high
  <1>7. range.ip \in Nat /\ LastIP(a) \in Nat
    BY BlockFacts
  <1>8. Disjoint(a, low) \/ Disjoint(a, high)
    <2>1. \/ LastIP(a) < low.ip \/ LastIP(low) < a.ip
          \/ low.ip <= a.ip /\ LastIP(a) <= LastIP(low)
      BY <1>4, <1>5, <1>6, NestedOrApart
    <2>2. LastIP(a) < low.ip \/ LastIP(low) < a.ip => Disjoint(a, low)
      BY <1>5, DisjointIsApart
    <2>3. LastIP(a) < high.ip => Disjoint(a, high)
      BY <1>5, DisjointIsApart
    <2>4. LastIP(a) <= LastIP(low) => LastIP(a) < high.ip
      BY <1>4, <1>6, <1>7
    <2> QED BY <2>1, <2>2, <2>3, <2>4
  <1>9. ASSUME NEW b \in Block, b.size = t, Within(b, range), Disjoint(a, b)
        PROVE  FreeBlocks(range, {a}, s) # {}
    <2>1. Network(b.ip, s) \in FreeBlocks(range, {a}, s)
      BY <1>1, <1>4, <1>9, BlockInside DEF FreeBlocks
    <2> QED BY <2>1
  <1>10. FreeBlocks(range, {a}, s) # {}
    BY <1>5, <1>6, <1>8, <1>9
  <1>11. \E b \in FreeBlocks(range, {a}, s) : AllocateGlobalCIDR(range, {a}, s) = {b}
    BY <1>2, <1>10, AllocationDecided
  <1> QED BY <1>11 DEF s
=============================================================================
