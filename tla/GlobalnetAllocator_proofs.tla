---------------------- MODULE GlobalnetAllocator_proofs ----------------------
(***************************************************************************)
(* The search of AllocateGlobalCIDR returns the lowest free block of the   *)
(* range, and gives up only when there is none, for every address space,   *)
(* every range that does not start at address 0, and every ledger.         *)
(***************************************************************************)
EXTENDS GlobalnetAllocator, GlobalCIDR_proofs

\* The next candidate starts a block of the wanted size, or comes right after
\* a recorded block.
OnBoundary ==
    \/ next % size = 0
    \/ \E a \in allocated : next = LastIP(a) + 1

\* What the search has passed over is not free.
NoneBelow == \A b \in FreeBlocks(range, allocated, size) : next <= b.ip

\* The inductive invariant.
IInv ==
    /\ TypeOK
    /\ 0 < range.ip
    /\ 2 * size <= range.size
    /\ status = "searching" =>
           /\ range.ip <= next /\ next <= AddressSpace
           /\ OnBoundary
           /\ NoneBelow
    /\ FoundIsFirstFree
    /\ ExhaustedIsFull

NonzeroRanges == \A r \in Ranges : 0 < r.ip

LEMMA Init_IInv ==
    ASSUME NonzeroRanges, Init
    PROVE  IInv
  <1>1. /\ range \in Block /\ allocated \subseteq Block /\ size \in Sizes
        /\ 0 < range.ip /\ 2 * size <= range.size
        /\ next = range.ip /\ status = "searching" /\ probed = NoBlock
    BY InputsAssumption DEF Init, NonzeroRanges
  <1>2. /\ range.ip \in Addr /\ range.ip \in Nat /\ range.size \in Nat
        /\ size \in Nat \ {0}
    BY <1>1, BlockFacts, SizesAssumption
  <1>3. TypeOK
    BY <1>1, <1>2 DEF TypeOK
  <1>4. range.ip <= next /\ next <= AddressSpace
    BY <1>1, <1>2, SizesAssumption DEF Addr
  <1>5. next % size = 0
    <2> DEFINE n == Network(range.ip, size)
    <2>1. /\ n \in Block /\ n.size = size
          /\ n.ip <= range.ip /\ range.ip <= LastIP(n)
          /\ n.ip = range.ip <=> range.ip % size = 0
      BY <1>1, <1>2, NetworkFacts
    <2>2. n.ip \in Nat /\ LastIP(n) \in Nat /\ LastIP(range) \in Nat /\ range.ip <= LastIP(range)
      BY <1>1, <2>1, BlockFacts
    <2>3. n.size <= range.size
      BY <1>1, <1>2, <2>1
    <2> HIDE DEF n
    <2>4. \/ LastIP(n) < range.ip \/ LastIP(range) < n.ip
          \/ range.ip <= n.ip /\ LastIP(n) <= LastIP(range)
      BY <1>1, <2>1, <2>3, NestedOrApart
    <2>5. n.ip = range.ip
      BY <1>2, <2>1, <2>2, <2>4
    <2> QED BY <2>1, <2>5, <1>1
  <1>6. NoneBelow
    <2>1. SUFFICES ASSUME NEW b \in FreeBlocks(range, allocated, size)
                   PROVE  next <= b.ip
      BY DEF NoneBelow
    <2> QED BY <2>1, <1>1 DEF FreeBlocks, Within
  <1> QED BY <1>1, <1>3, <1>4, <1>5, <1>6
          DEF IInv, OnBoundary, FoundIsFirstFree, ExhaustedIsFull

\* The geometry of one probe at a candidate address inside the range.
LEMMA RequestedBlock ==
    ASSUME IInv, status = "searching", NEW ip \in Addr,
           range.ip <= ip, ip <= LastIP(range)
    PROVE  /\ Network(ip, size) \in Block
           /\ Network(ip, size).size = size
           /\ Network(ip, size).ip <= ip /\ ip <= LastIP(Network(ip, size))
           /\ Network(ip, size).ip = ip <=> ip % size = 0
           /\ Within(Network(ip, size), range)
  <1> DEFINE n == Network(ip, size)
  <1>1. range \in Block /\ size \in Sizes /\ 2 * size <= range.size
    BY DEF IInv, TypeOK
  <1>2. /\ n \in Block /\ n.size = size /\ n.ip <= ip /\ ip <= LastIP(n)
        /\ n.ip = ip <=> ip % size = 0
    BY <1>1, NetworkFacts
  <1> HIDE DEF n
  <1>3. /\ n.ip \in Nat /\ LastIP(n) \in Nat /\ range.ip \in Nat /\ LastIP(range) \in Nat
        /\ range.size \in Nat /\ size \in Nat
    BY <1>1, <1>2, BlockFacts
  <1>4. ip \in Nat
    BY SizesAssumption DEF Addr
  <1>5. n.size <= range.size
    BY <1>1, <1>2, <1>3
  <1>6. \/ LastIP(n) < range.ip \/ LastIP(range) < n.ip
        \/ range.ip <= n.ip /\ LastIP(n) <= LastIP(range)
    BY <1>1, <1>2, <1>5, NestedOrApart
  <1>7. range.ip <= n.ip /\ LastIP(n) <= LastIP(range)
    BY <1>2, <1>3, <1>4, <1>6
  <1> QED BY <1>2, <1>7 DEF n, Within

\* A probe that clashes with nothing has found the lowest free block.
LEMMA NoClashIsFirstFree ==
    ASSUME IInv, status = "searching", NEW ip \in Addr, ip = next,
           range.ip <= ip, ip <= LastIP(range),
           \A a \in allocated : ~ (Contains(a, ip) \/ Contains(Network(ip, size), a.ip))
    PROVE  [ip |-> ip, size |-> size] \in FirstFree(range, allocated, size)
  <1> DEFINE n == Network(ip, size)
  <1>1. /\ allocated \subseteq Block /\ size \in Sizes /\ OnBoundary /\ NoneBelow
    BY DEF IInv, TypeOK
  <1>2. /\ n \in Block /\ n.size = size /\ n.ip <= ip /\ ip <= LastIP(n)
        /\ n.ip = ip <=> ip % size = 0
        /\ Within(n, range)
    BY RequestedBlock
  <1>2a. \A a \in allocated : ~ Contains(a, ip) /\ ~ Contains(n, a.ip)
    OBVIOUS
  <1> HIDE DEF n
  <1>3. ip \in Nat /\ n.ip \in Nat /\ LastIP(n) \in Nat
    BY <1>2, BlockFacts, SizesAssumption DEF Addr
  <1>4. n.ip = ip
    <2>1. SUFFICES ASSUME ip % size # 0 PROVE FALSE
      BY <1>2
    <2>2. PICK a \in allocated : ip = LastIP(a) + 1
      BY <1>1, <2>1 DEF OnBoundary
    <2>3. a \in Block /\ a.ip \in Nat /\ LastIP(a) \in Nat /\ a.ip <= LastIP(a)
          /\ a.size \in Nat /\ n.size \in Nat
      BY <1>1, <1>2, BlockFacts
    <2>4. n.ip < ip
      BY <1>2, <1>3, <2>1
    <2>5. CASE a.size <= n.size
      <3>1. \/ LastIP(a) < n.ip \/ LastIP(n) < a.ip
            \/ n.ip <= a.ip /\ LastIP(a) <= LastIP(n)
        BY <1>2, <2>3, <2>5, NestedOrApart
      <3>2. n.ip <= a.ip /\ a.ip <= LastIP(n)
        BY <3>1, <1>2, <1>3, <2>2, <2>3, <2>4
      <3>3. Contains(n, a.ip)
        BY <3>2, <1>2, <2>3, ContainsIsInterval
      <3> QED BY <3>3, <1>2a, <2>2
    <2>6. CASE n.size <= a.size
      <3>1. \/ LastIP(n) < a.ip \/ LastIP(a) < n.ip
            \/ a.ip <= n.ip /\ LastIP(n) <= LastIP(a)
        BY <1>2, <2>3, <2>6, NestedOrApart
      <3> QED BY <3>1, <1>2, <1>3, <2>2, <2>3, <2>4
    <2> QED BY <2>3, <2>5, <2>6
  <1>5. n = [ip |-> ip, size |-> size]
    BY <1>2, <1>4, BlockFacts
  <1>6. \A a \in allocated : Disjoint(a, n)
    <2>1. TAKE a \in allocated
    <2>2. a \in Block
      BY <1>1
    <2>3. ~ Overlapping(a, n)
      BY <1>2a, <1>4 DEF Overlapping
    <2> QED BY <1>2, <2>2, <2>3, OverlappingIsSharing
  <1>7. n \in FreeBlocks(range, allocated, size)
    BY <1>2, <1>6 DEF FreeBlocks
  <1>8. \A b \in FreeBlocks(range, allocated, size) : n.ip <= b.ip
    BY <1>1, <1>4 DEF NoneBelow
  <1> QED BY <1>5, <1>7, <1>8 DEF FirstFree

\* A candidate outside the range comes after every block of the range.
LEMMA OutsideIsExhausted ==
    ASSUME IInv, status = "searching",
           \/ ~ Contains(range, UintToIP(next))
           \/ ~ Contains(range, LastIP(Network(UintToIP(next), size)))
    PROVE  FreeBlocks(range, allocated, size) = {}
  <1> DEFINE ip == UintToIP(next)
             n == Network(ip, size)
  <1>1. /\ range \in Block /\ size \in Sizes /\ 0 < range.ip
        /\ range.ip <= next /\ next <= AddressSpace /\ NoneBelow /\ next \in Nat
    BY DEF IInv, TypeOK
  <1>2. range.ip \in Nat /\ LastIP(range) \in Nat /\ AddressSpace \in Nat \ {0}
    BY <1>1, BlockFacts, SizesAssumption
  <1>3. SUFFICES ASSUME NEW b \in FreeBlocks(range, allocated, size) PROVE FALSE
    OBVIOUS
  <1>4. /\ b \in Block /\ b.size = size /\ b.ip \in Nat /\ LastIP(b) \in Nat
        /\ b.ip <= LastIP(b) /\ range.ip <= b.ip /\ LastIP(b) <= LastIP(range)
        /\ LastIP(b) < AddressSpace /\ next <= b.ip
    BY <1>1, BlockFacts, BlockInSpace DEF FreeBlocks, Within, NoneBelow
  <1>5. next < AddressSpace
    BY <1>1, <1>2, <1>4
  <1>6. ip = next
    <2>1. AddressSpace \in Nat \ {0} /\ next \in Nat /\ next < AddressSpace
      BY <1>1, <1>2, <1>5
    <2> QED BY <2>1, SMT DEF UintToIP
  <1>7. ip \in Addr /\ range.ip <= ip /\ ip <= LastIP(range)
    BY <1>1, <1>2, <1>4, <1>5, <1>6 DEF Addr
  <1>8. n \in Block /\ Within(n, range) /\ n.ip <= ip /\ ip <= LastIP(n)
    BY <1>7, RequestedBlock
  <1> HIDE DEF ip, n
  <1>9. n.ip \in Nat /\ LastIP(n) \in Nat /\ n.ip <= LastIP(n)
    BY <1>8, BlockFacts
  <1>10. Contains(range, ip)
    BY <1>1, <1>6, <1>7, ContainsIsInterval
  <1>11. Contains(range, LastIP(n))
    <2>1. range.ip <= LastIP(n) /\ LastIP(n) <= LastIP(range)
      BY <1>2, <1>8, <1>9 DEF Within
    <2> QED BY <1>1, <1>9, <2>1, ContainsIsInterval
  <1> QED BY <1>10, <1>11 DEF ip, n

\* Going on after a clash skips no free block.
LEMMA ClashAdvances ==
    ASSUME IInv, status = "searching", NEW ip \in Addr, ip = next,
           range.ip <= ip, ip <= LastIP(range),
           NEW a \in allocated, Contains(a, ip) \/ Contains(Network(ip, size), a.ip),
           NEW last, last = IF Contains(a, ip) THEN LastIP(a)
                                               ELSE LastIP(Network(ip, size))
    PROVE  /\ last \in Nat /\ last # 0
           /\ range.ip <= last + 1 /\ last + 1 <= AddressSpace
           /\ \/ (last + 1) % size = 0
              \/ \E c \in allocated : last + 1 = LastIP(c) + 1
           /\ \A b \in FreeBlocks(range, allocated, size) : last + 1 <= b.ip
  <1> DEFINE n == Network(ip, size)
  <1>1. /\ range \in Block /\ allocated \subseteq Block /\ size \in Sizes /\ 0 < range.ip
        /\ NoneBelow /\ a \in Block
    BY DEF IInv, TypeOK
  <1>2. /\ n \in Block /\ n.size = size /\ n.ip <= ip /\ ip <= LastIP(n)
    BY RequestedBlock
  <1>3. /\ ip \in Nat /\ n.ip \in Nat /\ LastIP(n) \in Nat /\ a.ip \in Nat
        /\ LastIP(a) \in Nat /\ range.ip \in Nat /\ size \in Nat \ {0}
        /\ LastIP(n) < AddressSpace /\ LastIP(a) < AddressSpace /\ AddressSpace \in Nat
    BY <1>1, <1>2, BlockFacts, BlockInSpace, SizesAssumption DEF Addr
  <1>4. \A b \in FreeBlocks(range, allocated, size) :
            /\ b \in Block /\ b.size = size /\ b.ip \in Nat /\ LastIP(b) \in Nat
            /\ b.ip <= LastIP(b) /\ ip <= b.ip /\ Disjoint(a, b)
    BY <1>1, BlockFacts DEF FreeBlocks, NoneBelow
  <1>5. CASE Contains(a, ip)
    <2>1. last = LastIP(a)
      BY <1>5
    <2>2. a.ip <= ip /\ ip <= LastIP(a)
      BY <1>1, <1>3, <1>5, ContainsIsInterval
    <2>3. ASSUME NEW b \in FreeBlocks(range, allocated, size)
          PROVE  last + 1 <= b.ip
      <3>1. LastIP(a) < b.ip \/ LastIP(b) < a.ip
        BY <1>1, <1>4, DisjointIsApart
      <3>2. /\ b.ip \in Nat /\ LastIP(b) \in Nat /\ b.ip <= LastIP(b) /\ ip <= b.ip
        BY <1>4
      <3> QED BY <1>3, <2>1, <2>2, <3>1, <3>2
    <2>4. last \in Nat /\ last # 0 /\ range.ip <= last + 1 /\ last + 1 <= AddressSpace
      BY <1>1, <1>3, <2>1, <2>2
    <2> QED BY <2>1, <2>3, <2>4
  <1>6. CASE ~ Contains(a, ip)
    <2>1. last = LastIP(n) /\ Contains(n, a.ip)
      BY <1>6
    <2> HIDE DEF n
    <2>2. ASSUME NEW b \in FreeBlocks(range, allocated, size)
          PROVE  last + 1 <= b.ip
      <3>1. /\ b \in Block /\ b.size = size /\ b.ip \in Nat /\ LastIP(b) \in Nat
            /\ b.ip <= LastIP(b) /\ ip <= b.ip /\ Disjoint(a, b)
        BY <1>4
      <3>2. ~ Disjoint(a, n)
        BY <1>1, <1>2, <2>1, OverlappingIsSharing DEF Overlapping
      <3>3. b # n
        BY <3>1, <3>2
      <3>4. \/ LastIP(n) < b.ip \/ LastIP(b) < n.ip
            \/ b.ip <= n.ip /\ LastIP(n) <= LastIP(b)
        BY <1>2, <1>3, <3>1, NestedOrApart
      <3>5. \/ LastIP(b) < n.ip \/ LastIP(n) < b.ip
            \/ n.ip <= b.ip /\ LastIP(b) <= LastIP(n)
        BY <1>2, <1>3, <3>1, NestedOrApart
      <3>6. b.ip # n.ip
        BY <1>2, <3>1, <3>3, BlockFacts
      <3> QED BY <1>2, <1>3, <2>1, <3>1, <3>4, <3>5, <3>6
    <2>3. (last + 1) % size = 0
      <3>1. n.ip = size * (n.ip \div size) /\ n.ip \div size \in Nat
        BY <1>2, BlockFacts
      <3>2. last + 1 = n.ip + size
        BY <1>2, <1>3, <2>1 DEF LastIP
      <3>3. last + 1 = size * ((n.ip \div size) + 1)
        BY <1>3, <3>1, <3>2
      <3> QED BY <1>3, <3>1, <3>3, Multiples
    <2>4. last \in Nat /\ last # 0 /\ range.ip <= last + 1 /\ last + 1 <= AddressSpace
      BY <1>1, <1>2, <1>3, <2>1
    <2> QED BY <2>2, <2>3, <2>4
  <1> QED BY <1>5, <1>6

\* A candidate in the range is the address the search has come to: no truncation.
LEMMA Candidate ==
    ASSUME IInv, status = "searching", Contains(range, UintToIP(next))
    PROVE  /\ UintToIP(next) \in Addr /\ UintToIP(next) = next
           /\ range.ip <= next /\ next <= LastIP(range)
  <1> DEFINE ip == UintToIP(next)
  <1>1. /\ range \in Block /\ next \in Nat /\ range.ip <= next /\ next <= AddressSpace
        /\ 0 < range.ip /\ AddressSpace \in Nat \ {0}
    BY SizesAssumption DEF IInv, TypeOK
  <1>2. ip \in 0 .. AddressSpace - 1
    BY <1>1, BelowModulus DEF UintToIP
  <1>3. ip \in Addr /\ ip \in Nat
    BY <1>1, <1>2 DEF Addr
  <1>4. range.ip \in Nat /\ LastIP(range) \in Nat
    BY <1>1, BlockFacts
  <1>5. next # AddressSpace => ip = next
    <2>1. next # AddressSpace => next < AddressSpace
      BY <1>1
    <2>2. next < AddressSpace => next % AddressSpace = next
      BY <1>1, BelowModulus
    <2> QED BY <2>1, <2>2 DEF UintToIP
  <1>6. next = AddressSpace => ip = 0
    BY <1>1, BelowModulus DEF UintToIP
  <1> HIDE DEF ip
  <1>7. range.ip <= ip /\ ip <= LastIP(range)
    BY <1>1, <1>3, ContainsIsInterval DEF ip
  <1> QED BY <1>1, <1>3, <1>4, <1>5, <1>6, <1>7 DEF ip

LEMMA Step_IInv ==
    ASSUME IInv, [Next]_vars
    PROVE  IInv'
  <1>1. CASE UNCHANGED vars
    BY <1>1 DEF IInv, TypeOK, OnBoundary, NoneBelow, FoundIsFirstFree, ExhaustedIsFull, vars
  <1>2. CASE Probe
    <2> DEFINE ip == UintToIP(next)
               n == Network(ip, size)
               clashing == {a \in allocated : Contains(a, ip) \/ Contains(n, a.ip)}
    <2>1. /\ range \in Block /\ allocated \subseteq Block /\ size \in Sizes /\ next \in Nat
          /\ status = "searching" /\ range.ip <= next /\ next <= AddressSpace
          /\ 0 < range.ip
      BY <1>2 DEF IInv, TypeOK, Probe
    <2>2. UNCHANGED <<range, allocated, size>> /\ probed' = [ip |-> ip, size |-> size]
      BY <1>2 DEF Probe
    <2>3. ip \in Addr
      <3>1. AddressSpace \in Nat \ {0}
        BY SizesAssumption
      <3>2. next % AddressSpace \in 0 .. AddressSpace - 1
        BY <2>1, <3>1, SMT
      <3> QED BY <3>2 DEF UintToIP, Addr
    <2>4. probed' \in [ip : Addr, size : Sizes]
      BY <2>1, <2>2, <2>3
    <2>5. PICK result \in AllocateByCidr(ip) :
             \/ ~ result.err /\ status' = "found" /\ UNCHANGED next
             \/ result.err /\ result.last = 0 /\ status' = "exhausted" /\ UNCHANGED next
             \/ result.err /\ result.last # 0 /\ next' = result.last + 1 /\ UNCHANGED status
      BY <1>2 DEF Probe
    <2>6. CASE ~ Contains(range, ip) \/ ~ Contains(range, LastIP(n))
      <3>1. FreeBlocks(range, allocated, size) = {}
        BY <2>1, <2>6, OutsideIsExhausted
      <3>2. result = [err |-> TRUE, last |-> 0]
        BY <2>5, <2>6 DEF AllocateByCidr, InRange, Clashing, LastOfClash
      <3>3. status' = "exhausted" /\ UNCHANGED next
        BY <2>5, <3>2
      <3> QED BY <2>1, <2>2, <2>4, <3>1, <3>3
              DEF IInv, TypeOK, FoundIsFirstFree, ExhaustedIsFull
    <2>7. CASE Contains(range, ip) /\ Contains(range, LastIP(n))
      <3> HIDE DEF ip
      <3>2. range.ip <= ip /\ ip <= LastIP(range)
        BY <2>1, <2>7, Candidate DEF ip
      <3>3. ip = next
        BY <2>1, <2>7, Candidate DEF ip
      <3>4. CASE clashing = {}
        <4>1. result = [err |-> FALSE, last |-> 0]
          BY <2>5, <2>7, <3>4 DEF AllocateByCidr, InRange, Clashing, LastOfClash
        <4>2. status' = "found" /\ UNCHANGED next
          BY <2>5, <4>1
        <4>3. \A a \in allocated : ~ (Contains(a, ip) \/ Contains(Network(ip, size), a.ip))
          BY <3>4
        <4>4. [ip |-> ip, size |-> size] \in FirstFree(range, allocated, size)
          BY <2>1, <2>3, <3>2, <3>3, <4>3, NoClashIsFirstFree
        <4> QED BY <2>1, <2>2, <2>4, <4>2, <4>4
                DEF IInv, TypeOK, FoundIsFirstFree, ExhaustedIsFull
      <3>5. CASE clashing # {}
        <4>1. PICK a \in clashing :
                 result = [err |-> TRUE,
                           last |-> IF Contains(a, ip) THEN LastIP(a) ELSE LastIP(n)]
          BY <2>5, <2>7, <3>5 DEF AllocateByCidr, InRange, Clashing, LastOfClash
        <4>2. /\ result.err
              /\ result.last = IF Contains(a, ip) THEN LastIP(a)
                                                  ELSE LastIP(Network(ip, size))
              /\ a \in allocated /\ (Contains(a, ip) \/ Contains(Network(ip, size), a.ip))
          BY <4>1
        <4>3. /\ result.last \in Nat /\ result.last # 0
              /\ range.ip <= result.last + 1 /\ result.last + 1 <= AddressSpace
              /\ \/ (result.last + 1) % size = 0
                 \/ \E c \in allocated : result.last + 1 = LastIP(c) + 1
              /\ \A b \in FreeBlocks(range, allocated, size) : result.last + 1 <= b.ip
          <5> DEFINE last == result.last
          <5>1. last = IF Contains(a, ip) THEN LastIP(a) ELSE LastIP(Network(ip, size))
            BY <4>2
          <5> HIDE DEF last
          <5>2. /\ last \in Nat /\ last # 0
                /\ range.ip <= last + 1 /\ last + 1 <= AddressSpace
                /\ \/ (last + 1) % size = 0
                   \/ \E c \in allocated : last + 1 = LastIP(c) + 1
                /\ \A b \in FreeBlocks(range, allocated, size) : last + 1 <= b.ip
            BY <2>1, <2>3, <3>2, <3>3, <4>2, <5>1, ClashAdvances
          <5> QED BY <5>2 DEF last
        <4>4. next' = result.last + 1 /\ status' = "searching"
          BY <2>1, <2>5, <4>2, <4>3
        <4>5. OnBoundary' /\ NoneBelow' /\ range'.ip <= next' /\ next' <= AddressSpace
          BY <2>2, <4>3, <4>4 DEF OnBoundary, NoneBelow
        <4>6. next' \in Nat
          BY <4>3, <4>4
        <4> QED BY <2>1, <2>2, <2>4, <4>4, <4>5, <4>6
                DEF IInv, TypeOK, FoundIsFirstFree, ExhaustedIsFull
      <3> QED BY <3>4, <3>5
    <2> QED BY <2>6, <2>7
  <1>3. CASE Done
    BY <1>1, <1>3 DEF Done
  <1> QED BY <1>1, <1>2, <1>3 DEF Next

\* The search keeps its inductive invariant.
THEOREM Invariance ==
    ASSUME NonzeroRanges
    PROVE  Spec => []IInv
  <1>1. Init => IInv
    BY Init_IInv
  <1>2. IInv /\ [Next]_vars => IInv'
    BY Step_IInv
  <1> QED BY <1>1, <1>2, PTL DEF Spec

\* The variables of the search keep their types.
THEOREM TypeCorrect ==
    ASSUME NonzeroRanges
    PROVE  Spec => []TypeOK
  <1>1. IInv => TypeOK
    BY DEF IInv
  <1> QED BY <1>1, Invariance, PTL

\* The allocator returns the lowest free block of the range.
THEOREM AllocatesFirstFree ==
    ASSUME NonzeroRanges
    PROVE  Spec => []FoundIsFirstFree
  <1>1. IInv => FoundIsFirstFree
    BY DEF IInv
  <1> QED BY <1>1, Invariance, PTL

\* The allocator reports exhaustion only when no block is free.
THEOREM ExhaustsOnlyWhenFull ==
    ASSUME NonzeroRanges
    PROVE  Spec => []ExhaustedIsFull
  <1>1. IInv => ExhaustedIsFull
    BY DEF IInv
  <1> QED BY <1>1, Invariance, PTL

\* A clash leaves the search behind the candidate that has clashed.
LEMMA ProbeAdvances ==
    ASSUME IInv, Probe, status' = "searching"
    PROVE  next < next'
  <1> DEFINE ip == UintToIP(next)
             n == Network(ip, size)
  <1>1. /\ allocated \subseteq Block /\ size \in Sizes /\ next \in Nat /\ status = "searching"
    BY DEF IInv, TypeOK, Probe
  <1>2. PICK result \in AllocateByCidr(ip) :
           result.err /\ result.last # 0 /\ next' = result.last + 1
    BY <1>1 DEF Probe
  <1>3. InRange(ip)
    <2> SUFFICES ASSUME ~ InRange(ip) PROVE FALSE
      OBVIOUS
    <2>1. result = [err |-> TRUE, last |-> 0]
      BY <1>2 DEF AllocateByCidr
    <2> QED BY <1>2, <2>1
  <1>4. PICK a \in Clashing(ip) : result.last = LastOfClash(a, ip)
    <2>1. CASE Clashing(ip) = {}
      <3>1. result = [err |-> FALSE, last |-> 0]
        BY <1>2, <1>3, <2>1 DEF AllocateByCidr
      <3> QED BY <1>2, <3>1
    <2>2. CASE Clashing(ip) # {}
      <3>1. result \in {[err |-> TRUE, last |-> LastOfClash(a, ip)] : a \in Clashing(ip)}
        BY <1>2, <1>3, <2>2 DEF AllocateByCidr
      <3> QED BY <3>1
    <2> QED BY <2>1, <2>2
  <1>5. ip \in Addr /\ ip = next
    BY <1>1, <1>3, Candidate DEF InRange
  <1>6. n \in Block /\ ip <= LastIP(n)
    BY <1>1, <1>5, NetworkFacts
  <1>7. a \in Block /\ a \in allocated
    BY <1>1 DEF Clashing
  <1>8. LastIP(n) \in Nat /\ LastIP(a) \in Nat
    BY <1>6, <1>7, BlockFacts
  <1>9. Contains(a, ip) => ip <= LastIP(a)
    BY <1>1, <1>5, <1>7, ContainsIsInterval
  <1> HIDE DEF ip
  <1>10. result.last = IF Contains(a, ip) THEN LastIP(a) ELSE LastIP(n)
    BY <1>4 DEF LastOfClash
  <1> HIDE DEF n
  <1> QED BY <1>1, <1>2, <1>5, <1>6, <1>8, <1>9, <1>10

\* No candidate is tried twice: with the bound of the address space, a search makes
\* at most as many probes as there are addresses, whichever clashes it meets.
THEOREM SearchMovesOn ==
    ASSUME NonzeroRanges
    PROVE  Spec => SearchAdvances
  <1>1. IInv /\ IInv' /\ [Next]_vars =>
            [status' = "searching" => next < next' /\ next' <= AddressSpace]_vars
    <2> SUFFICES ASSUME IInv, IInv', Next, status' = "searching", ~ UNCHANGED vars
                 PROVE  next < next' /\ next' <= AddressSpace
      OBVIOUS
    <2>1. Probe
      BY DEF Next, Done
    <2> QED BY <2>1, ProbeAdvances DEF IInv
  <1> QED BY <1>1, Invariance, PTL DEF Spec, SearchAdvances

-----------------------------------------------------------------------------
\* The refinement.

LEMMA AtOnceOperators ==
    /\ AtOnce!NoBlock = NoBlock /\ AtOnce!Block = Block
    /\ AtOnce!AllocateGlobalCIDR(range, allocated, size) =
           AllocateGlobalCIDR(range, allocated, size)
  <1>1. AtOnce!NoBlock = NoBlock /\ AtOnce!Block = Block
    BY DEF AtOnce!NoBlock, AtOnce!Block, AtOnce!Addr, NoBlock, Block, Addr
  <1>2. \A s : AtOnce!FreeBlocks(range, allocated, s) = FreeBlocks(range, allocated, s)
    BY <1>1 DEF AtOnce!FreeBlocks, AtOnce!Within, AtOnce!Disjoint, AtOnce!Addresses, AtOnce!LastIP,
       FreeBlocks, Within, Disjoint, Addresses, LastIP
  <1>3. \A s : AtOnce!FirstFree(range, allocated, s) = FirstFree(range, allocated, s)
    BY <1>2 DEF AtOnce!FirstFree, FirstFree
  <1>4. \A s : AtOnce!IsRoundUp(size, s) <=> IsRoundUp(size, s)
    BY DEF AtOnce!IsRoundUp, IsRoundUp
  <1> QED BY <1>1, <1>3, <1>4 DEF AtOnce!AllocateGlobalCIDR, AllocateGlobalCIDR

\* The size the search is called with is one of a block: rounding it up again, as
\* the operator does, leaves it as it is.
LEMMA AllocatesForSize ==
    ASSUME IInv
    PROVE  AllocateGlobalCIDR(range, allocated, size) = FirstFree(range, allocated, size)
  BY SizeIsRounded, AllocationDecided DEF IInv, TypeOK

LEMMA StepAnswers ==
    ASSUME IInv, IInv', Probe
    PROVE  [AtOnce!Next]_(AtOnce!vars)
  <1> DEFINE cidr == IF status = "found" THEN probed ELSE NoBlock
             answer == AllocateGlobalCIDR(range, allocated, size)
  <1>1. /\ status = "searching" /\ status' \in {"searching", "found", "exhausted"}
        /\ UNCHANGED <<range, allocated, size>>
    BY DEF Probe, IInv, TypeOK
  <1>2. answer = FirstFree(range, allocated, size) /\ answer' = answer
    BY <1>1, AllocatesForSize
  <1> HIDE DEF answer
  <1>3. CASE status' = "searching"
    BY <1>1, <1>3 DEF AtOnce!vars, AtOnce!input
  <1>4. CASE status' = "found"
    <2>1. probed' \in FirstFree(range, allocated, size)
      BY <1>1, <1>4 DEF IInv, FoundIsFirstFree
    <2>2. cidr' \in AtOnce!AllocateGlobalCIDR(range, allocated, size)
      BY <1>2, <1>4, <2>1, AtOnceOperators DEF answer
    <2> QED BY <1>1, <1>4, <2>2 DEF AtOnce!Next, AtOnce!Grant, AtOnce!input
  <1>5. CASE status' = "exhausted"
    <2>1. FreeBlocks(range, allocated, size) = {}
      BY <1>1, <1>5 DEF IInv, ExhaustedIsFull
    <2>2. AtOnce!AllocateGlobalCIDR(range, allocated, size) = {}
      BY <1>2, <2>1, AtOnceOperators DEF answer, FirstFree
    <2> QED BY <1>1, <1>5, <2>2 DEF AtOnce!Next, AtOnce!Refuse, AtOnce!input
  <1> QED BY <1>1, <1>3, <1>4, <1>5

\* The search implements the allocation in one step by which GlobalnetJoin models
\* it, for ranges that do not start at 0.0.0.0.
THEOREM ImplementsAllocation ==
    ASSUME NonzeroRanges
    PROVE  Spec => AnswersAtOnce
  <1>1. Init => AtOnce!Init
    <2> SUFFICES ASSUME Init PROVE AtOnce!Init
      OBVIOUS
    <2>1. TypeOK
      BY Init_IInv DEF IInv
    <2> QED BY <2>1, AtOnceOperators DEF Init, TypeOK, AtOnce!Init
  <1>2. IInv /\ IInv' /\ [Next]_vars => [AtOnce!Next]_(AtOnce!vars)
    <2> SUFFICES ASSUME IInv, IInv', [Next]_vars PROVE [AtOnce!Next]_(AtOnce!vars)
      OBVIOUS
    <2>1. CASE Probe
      BY <2>1, StepAnswers
    <2>2. CASE UNCHANGED vars
      BY <2>2 DEF vars, AtOnce!vars, AtOnce!input
    <2> QED BY <2>1, <2>2 DEF Next, Done
  <1> QED BY <1>1, <1>2, Invariance, PTL DEF Spec, AnswersAtOnce, AtOnce!Spec
=============================================================================
