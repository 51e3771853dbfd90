------------------------ MODULE MCGlobalnetAllocator ------------------------
(***************************************************************************)
(* GlobalnetAllocator in a space of 16 addresses: every ledger of at most  *)
(* three disjoint blocks, of any size, in or out of the range.             *)
(***************************************************************************)
EXTENDS GlobalnetAllocator

MCSizes == {1, 2, 4, 8, 16}

MCSpace == 16

\* Ranges a broker is deployed with: none starts at 0.0.0.0.
MCRanges == {b \in Block : b.ip > 0 /\ b.size \in {4, 8}}

MCLedgers ==
    {{}} \cup
    {L \in {{a, b, c} : a, b, c \in Block} :
        \A a, b \in L : a # b => Disjoint(a, b)}
=============================================================================
