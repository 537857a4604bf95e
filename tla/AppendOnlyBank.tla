--------------------------- MODULE AppendOnlyBank ---------------------------
(***************************************************************************)
(* What a sample bank promises to the reports that cite it: it starts      *)
(* empty and is only ever extended, one sample at a time, up to Expected.  *)
(***************************************************************************)
EXTENDS Naturals, Sequences

CONSTANTS Tasks, Samples, Expected

VARIABLE bank

Init == bank = [k \in Tasks |-> <<>>]

Extend(k, x) ==
  /\ Len(bank[k]) < Expected
  /\ bank' = [bank EXCEPT ![k] = Append(@, x)]

Next == \E k \in Tasks, x \in Samples : Extend(k, x)

Spec == Init /\ [][Next]_bank
=============================================================================
