------------------------- MODULE GlobalnetAllocator -------------------------
(***************************************************************************)
(* AllocateGlobalCIDR: the search for a free block of the globalnet range. *)
(*                                                                         *)
(* allocateByClusterSize tries the first block of the range; whenever      *)
(* allocateByCidr reports a clash, it goes on at the address after the     *)
(* block it clashed with, until a block fits or the candidate leaves the   *)
(* range.  One Probe is one call of allocateByCidr.  The list it scans     *)
(* comes out of a Go map, whose order is random: which of several clashing *)
(* blocks is met first is nondeterministic.                                *)
(*                                                                         *)
(* What the search promises is the one step of Allocation, which is all    *)
(* the other modules use of it.                                            *)
(***************************************************************************)
EXTENDS GlobalCIDR

CONSTANTS
    Ranges,     \* globalnet CIDR ranges of a broker
    Ledgers     \* sets of blocks the broker may have recorded

ASSUME InputsAssumption == Ranges \subseteq Block /\ Ledgers \subseteq SUBSET Block

VARIABLES
    range,      \* globalCidr.net
    allocated,  \* globalCidr.allocatedClusters
    size,       \* block size of the cluster that asks
    next,       \* last + 1, the uint the next candidate is made of
    status,     \* "searching", "found" or "exhausted"
    probed      \* the candidate CIDR: what the loop returns once it fits

vars == <<range, allocated, size, next, status, probed>>

\* Faulty variant: off by one at the end of the range.
InRangeShort(ip) == Contains(range, ip) /\ Contains(range, LastIP(Network(ip, size)) + 1)

\* The requested CIDR ip/size lies in the range.
InRange(ip) == Contains(range, ip) /\ Contains(range, LastIP(Network(ip, size)))

\* Faulty variant: a recorded block inside the requested one is not noticed.
ClashingOneWay(ip) == {a \in allocated : Contains(a, ip)}

\* The recorded blocks the requested CIDR overlaps with.
Clashing(ip) == {a \in allocated : Contains(a, ip) \/ Contains(Network(ip, size), a.ip)}

\* Faulty variant: goes on from the clashing block's first address, not its last.
LastOfClashFirst(a, ip) == IF Contains(a, ip) THEN a.ip ELSE LastIP(Network(ip, size))

\* Where the search goes on after a clash with a recorded block.
LastOfClash(a, ip) == IF Contains(a, ip) THEN LastIP(a) ELSE LastIP(Network(ip, size))

\* allocateByCidr on the CIDR ip/size: the set of its possible results.
AllocateByCidr(ip) ==
    IF ~ InRange(ip)
    THEN {[err |-> TRUE, last |-> 0]}
    ELSE IF Clashing(ip) = {}
    THEN {[err |-> FALSE, last |-> 0]}
    ELSE {[err |-> TRUE, last |-> LastOfClash(a, ip)] : a \in Clashing(ip)}

Init ==
    /\ range \in Ranges
    /\ allocated \in Ledgers
    /\ size \in {s \in Sizes : 2 * s <= range.size}   \* GetValidClusterSize
    /\ next = range.ip
    /\ status = "searching"
    /\ probed = NoBlock

Probe ==
    /\ status = "searching"
    /\ LET ip == UintToIP(next)
       IN  /\ probed' = [ip |-> ip, size |-> size]
           /\ \E result \in AllocateByCidr(ip) :
                 \/ /\ ~ result.err
                    /\ status' = "found"
                    /\ UNCHANGED next
                 \/ /\ result.err /\ result.last = 0
                    /\ status' = "exhausted"
                    /\ UNCHANGED next
                 \/ /\ result.err /\ result.last # 0
                    /\ next' = result.last + 1
                    /\ UNCHANGED status
    /\ UNCHANGED <<range, allocated, size>>

Done == status # "searching" /\ UNCHANGED vars

Next == Probe \/ Done

Spec == Init /\ [][Next]_vars

\* The search is a loop of one goroutine: it runs until it returns.
FairSpec == Spec /\ WF_vars(Probe)

-----------------------------------------------------------------------------
TypeOK ==
    /\ range \in Block
    /\ allocated \subseteq Block
    /\ size \in Sizes
    /\ next \in Nat
    /\ status \in {"searching", "found", "exhausted"}
    /\ probed \in [ip : Addr, size : Sizes] \cup {NoBlock}

\* A CIDR the search returns is the lowest aligned block of the range that
\* shares no address with a recorded one, whichever clash is met first
\* (globalnet.go:109-163).
FoundIsFirstFree ==
    status = "found" => probed \in FirstFree(range, allocated, size)

\* "allocation not available" is reported only when no block is free
\* (globalnet.go:158-160).
ExhaustedIsFull ==
    status = "exhausted" => FreeBlocks(range, allocated, size) = {}

\* The search implements the one-step allocation that GlobalnetJoin has in its
\* place: it answers once, what the operator AllocateGlobalCIDR says, and changes
\* nothing else (globalnet.go:109-183).
AtOnce ==
    INSTANCE Allocation WITH cidr <- IF status = "found" THEN probed ELSE NoBlock

AnswersAtOnce == AtOnce!Spec

\* A search that goes on after a clash goes on behind the candidate that has
\* clashed, at an address that is still one of 32 bits or the first that is not:
\* it tries no candidate twice, whichever clashes it meets (globalnet.go:126-163).
SearchAdvances ==
    [][ status' = "searching" => next < next' /\ next' <= AddressSpace ]_vars

\* The search returns (the loop of globalnet.go:151-161 ends).
SearchReturns == <>(status # "searching")
=============================================================================
