----------------------------- MODULE MCPlcFrame -----------------------------
(* Instances of PlcFrame for TLC: values around every change of length. *)
EXTENDS PlcFrame

Around(n)  == {n - 1, n, n + 1}
Boundaries == 0 .. 40 \cup UNION {Around(16 ^ e) : e \in 1 .. 7}
              \cup {18000, 9000, 36000, 360000, 2147483647}
              \cup {d * 16 ^ e + 10 : d \in {1, 9, 10, 15}, e \in 1 .. 6}
              \cup {d * 16 ^ 7 : d \in 1 .. 7}

=============================================================================
