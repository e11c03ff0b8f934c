------------------------------ MODULE MCValue -------------------------------
(***************************************************************************)
(* Value with bytes of four values, and texts of every kind, good and bad. *)
(***************************************************************************)
EXTENDS Value, TLC

Chars(n) == [k \in 1..n |-> k % Radix]
Count(n, k) == [j \in 1..n |-> (j + k) % Radix]

Nothing == [re \in {} |-> NULL]
Addresses ==
  UNION {{[chars |-> Chars(9), is |-> "ipv4" :> Count(4, k)],
          [chars |-> Chars(17), is |-> ("mac" :> Count(6, k)) @@ ("ipv6" :> NULL)],
          [chars |-> Chars(19), is |-> "ipv6" :> Count(16, k)]} : k \in 0..3}
    \cup {[chars |-> Chars(9), is |-> "ipv4" :> NULL],
          [chars |-> Chars(14), is |-> "ipv6" :> NULL]}

Numbers ==
  {[chars |-> Chars(4), is |-> "int" :> n] :
     n \in {0, 1, 2, 3, 4, 7, 8, 15, 16, 17, 127, 128, 255, 256, 257, 32767}
             \cup {-1, -2, -3, -8, -9, -128, -129, -32768} \cup {NULL}}

\* "0x" and two digits a byte; which characters those are does not matter.
Digits(bytes) ==
  [chars |-> Zeroes(2 + 2 * Len(bytes)),
   is |-> ("hex" :> bytes) @@
          ("int" :> IF Len(bytes) <= 8 /\ Number(bytes) <= LLONG_MAX THEN Number(bytes) ELSE NULL)]

HexDigits ==
  {Digits(Count(n, k)) : n \in {1, 2, 3, 4, 8, 9, 14, 16, 17}, k \in {0, 3}}
    \cup {Digits(Zeroes(n)) : n \in {1, 5, 16}}

Strings == {[chars |-> Chars(n), is |-> Nothing] : n \in {0, 1, 4, 17, 40}}

Texts == Addresses \cup Numbers \cup HexDigits \cup Strings
=============================================================================
