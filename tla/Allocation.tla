----------------------------- MODULE Allocation -----------------------------
(***************************************************************************)
(* What a call of AllocateGlobalCIDR promises its caller: one answer, in   *)
(* one step, which is final.  It is the block that the operator            *)
(* AllocateGlobalCIDR of GlobalCIDR says, by which GlobalnetJoin models    *)
(* the call, or a refusal where that operator has none.                    *)
(***************************************************************************)
EXTENDS GlobalCIDR

VARIABLES
    range, allocated, size,     \* what the call is given
    status,                     \* "searching", "found" or "exhausted"
    cidr                        \* what it returns; NoBlock with an error

input == <<range, allocated, size>>
vars == <<input, status, cidr>>

Init ==
    /\ range \in Block
    /\ allocated \subseteq Block
    /\ size \in Sizes
    /\ status = "searching"
    /\ cidr = NoBlock

Grant ==
    /\ status = "searching"
    /\ status' = "found"
    /\ cidr' \in AllocateGlobalCIDR(range, allocated, size)
    /\ UNCHANGED input

Refuse ==
    /\ status = "searching"
    /\ AllocateGlobalCIDR(range, allocated, size) = {}
    /\ status' = "exhausted"
    /\ UNCHANGED <<input, cidr>>

Next == Grant \/ Refuse

Spec == Init /\ [][Next]_vars
=============================================================================
