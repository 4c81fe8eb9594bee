----------------------------- MODULE Allocator -----------------------------
(***************************************************************************)
(* What malloc, realloc and free promise: every allocation is an array of  *)
(* words of its own.  A word changes only when its owner writes it, and    *)
(* realloc keeps the common prefix of the old and the new array.           *)
(***************************************************************************)
EXTENDS Naturals, Sequences

CONSTANTS Index,       \* the allocations a trace names
          Fill(_)      \* what the owner of an allocation writes to its words

VARIABLE array         \* the words of each allocation, <<>> when it is free

Init == array = [i \in Index |-> <<>>]

Malloc(i) ==
    /\ array[i] = <<>>
    /\ array'[i] # <<>>
    /\ array' = [array EXCEPT ![i] = [k \in DOMAIN array'[i] |-> Fill(i)]]

\* The owner relies on the words it has written, and fills the rest.
Realloc(i) ==
    /\ array[i] # <<>>
    /\ array'[i] # <<>>
    /\ array' = [array EXCEPT ![i] = [k \in DOMAIN array'[i] |->
                                        IF k <= Len(@) THEN @[k] ELSE Fill(i)]]

Free(i) ==
    /\ array[i] # <<>>
    /\ array' = [array EXCEPT ![i] = <<>>]

Next == \E i \in Index : Malloc(i) \/ Realloc(i) \/ Free(i)

Spec == Init /\ [][Next]_array
=============================================================================
