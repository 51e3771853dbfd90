------------------------------ MODULE UserList ------------------------------
(***************************************************************************)
(* What the operators promise about the users of a security context: they  *)
(* add accounts of their own, each once, and take nobody else's entry out. *)
(* Whoever else edits the list is counted in "edits", and leaves those     *)
(* accounts where they are.                                                *)
(***************************************************************************)
EXTENDS Naturals, Sequences

CONSTANT Accounts       \* the accounts operators add

VARIABLES
    users,      \* the list
    edits       \* edits by others

At(account) == {i \in DOMAIN users : users[i] = account}

Once(account) == \A i, j \in At(account) : i = j

Init == (\A account \in Accounts : Once(account)) /\ edits = 0

Grant(account) ==
    /\ At(account) = {}
    /\ users' = Append(users, account)
    /\ UNCHANGED edits

EditByOthers ==
    /\ edits' = edits + 1
    /\ \A account \in Accounts :
          /\ At(account)' = {} <=> At(account) = {}
          /\ Once(account) => Once(account)'

Next == EditByOthers \/ \E account \in Accounts : Grant(account)

Spec == Init /\ [][Next]_<<users, edits>>
=============================================================================
