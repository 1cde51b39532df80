---------------------------- MODULE MCModbusRtu ----------------------------
(* Instances of ModbusRtu for TLC: every function, around every limit. *)
EXTENDS ModbusRtu

Cell == [t \in Tabs |-> IF t \in {"bits", "input_bits"} THEN 2001 ELSE 126]

Asking(fn, addr, nb) ==
    [fn |-> fn, slave |-> 1, addr |-> addr, nb |-> nb, waddr |-> 0, wnb |-> 0]

Writing(w, nb, a, wnb) ==
    [Asking(w, 0, nb) EXCEPT !.waddr = a, !.wnb = wnb]

\* Every function, around each limit of quantity and address.
Boundary ==
    {Asking(fn, a, n) : fn \in {1, 2}, a \in {1}, n \in {0, 1, 9, 2000, 2001}}
    \cup {Asking(1, 2, 2000), Asking(2, 2, 2000)}
    \cup {Asking(fn, 1, n) : fn \in {3, 4}, n \in {0, 1, 125, 126}}
    \cup {Asking(3, 2, 125), Asking(4, 2, 125)}
    \cup {Asking(5, a, 0) : a \in {2000, 2001}}
    \cup {Asking(6, a, 7) : a \in {125, 126}}
    \cup {Asking(15, 33, n) : n \in {0, 8, 1968, 1969}} \cup {Asking(15, 34, 1968)}
    \cup {Asking(16, 3, n) : n \in {0, 1, 123, 124}} \cup {Asking(16, 4, 123)}
    \cup {Asking(17, 0, 0)}
    \cup {Writing(23, n, 5, 121) : n \in {0, 1, 125, 126}}
    \cup {Writing(23, 2, 5, w) : w \in {0, 1, 122}} \cup {Writing(23, 2, 6, 121)}
    \cup {[Asking(3, 0, 1) EXCEPT !.slave = s] : s \in {0, 2}}

\* Calls whose replies resemble one another.
Alike ==
    {Asking(1, 0, 3), Asking(1, 0, 8), Asking(2, 0, 8), Asking(3, 0, 1),
     Asking(4, 0, 1), Asking(3, 0, 2), Asking(6, 0, 7), Asking(15, 0, 1),
     Asking(15, 0, 2), Asking(3, 126, 1)}

OneOrTwo == {<<c>> : c \in Boundary} \cup {<<c, d>> : c, d \in Alike}

=============================================================================
