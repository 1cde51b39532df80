--------------------------- MODULE MCExcelEngine ---------------------------
(* Instances of ExcelEngine for TLC: tables of two lengths. *)
EXTENDS ExcelEngine

TwoTables == {<<"header", "a">>, <<"header", "b", "c">>}
AllCalls  == Guarded \cup Unguarded

=============================================================================
