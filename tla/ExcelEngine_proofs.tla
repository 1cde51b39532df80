------------------------- MODULE ExcelEngine_proofs -------------------------
(***************************************************************************)
(* Proofs about ExcelEngine for every set of files and tables and any      *)
(* number of engines and calls.                                            *)
(***************************************************************************)
EXTENDS ExcelEngine, SequenceTheorems, WellFoundedInduction, TLAPS

\* A function on 1 .. n is a sequence of length n.
LEMMA FunctionIsSequence ==
    ASSUME NEW S, NEW n \in Nat, NEW f \in [1 .. n -> S]
    PROVE  f \in Seq(S) /\ Len(f) = n
  BY SeqDef

\* Filling a sheet keeps its rows and never makes it shorter.
LEMMA OverTypes ==
    ASSUME NEW rows \in Rows, NEW t \in Rows
    PROVE  Over(rows, t) \in Rows /\ Len(Over(rows, t)) >= Len(rows)
  <1> DEFINE n == IF Len(rows) < Len(t) THEN Len(t) ELSE Len(rows)
  <1>1. /\ Len(rows) \in Nat /\ Len(t) \in Nat /\ n \in Nat
        /\ n >= Len(rows)
    BY LenProperties DEF Rows
  <1>2. \A i \in 1 .. Len(rows) : rows[i] \in Row
    BY ElementOfSeq DEF Rows
  <1>3. \A i \in 1 .. Len(t) : t[i] \in Row
    BY ElementOfSeq DEF Rows
  <1>4. Over(rows, t) \in [1 .. n -> Row]
    BY <1>1, <1>2, <1>3 DEF Over
  <1> QED BY <1>1, <1>4, FunctionIsSequence DEF Rows

\* Writing a row does not make a sheet shorter either.
LEMMA WithRowTypes ==
    ASSUME NEW rows \in Rows, NEW r \in Nat \ {0}, NEW v \in Row
    PROVE  WithRow(rows, r, v) \in Rows /\ Len(WithRow(rows, r, v)) >= Len(rows)
  <1> DEFINE n == IF r > Len(rows) THEN r ELSE Len(rows)
  <1>1. Len(rows) \in Nat /\ n \in Nat /\ n >= Len(rows)
    BY LenProperties DEF Rows
  <1>2. \A i \in 1 .. Len(rows) : rows[i] \in Row
    BY ElementOfSeq DEF Rows
  <1>3. WithRow(rows, r, v) \in [1 .. n -> Row]
    BY <1>1, <1>2, EngineAssumption DEF WithRow
  <1> QED BY <1>1, <1>3, FunctionIsSequence DEF Rows

\* A set of numbers with an element has a smallest one.
LEMMA LeastNumber ==
    ASSUME NEW T, T \subseteq Nat, T # {}
    PROVE  \E x \in T : \A y \in T : x <= y
  <1> DEFINE Less == OpToRel(<, Nat)
  <1>1. IsWellFoundedOn(Less, Nat)
    BY NatLessThanWellFounded
  <1>2. \A x, y \in Nat : <<y, x>> \in Less <=> y < x
    BY DEF OpToRel
  <1>3. \E x \in T : \A y \in T : ~(<<y, x>> \in Less)
    <2> HIDE DEF Less
    <2> QED BY <1>1, WFMin
  <1>4. ASSUME NEW x \in T, NEW y \in T, ~(<<y, x>> \in Less) PROVE x <= y
    <2>1. x \in Nat /\ y \in Nat /\ ~(y < x)
      BY <1>2, <1>4
    <2> QED BY <2>1
  <1> HIDE DEF Less
  <1> QED BY <1>3, <1>4

\* The rows in use are some of the sheet's, at least one, and the last is the sheet's.
LEMMA UsedTypes ==
    ASSUME NEW rows \in Rows, Len(rows) >= 1
    PROVE  /\ FirstRow(rows) \in 1 .. Len(rows)
           /\ UsedRows(rows) \in Nat \ {0}
           /\ FirstRow(rows) + UsedRows(rows) - 1 = Len(rows)
  <1> DEFINE inUse == {i \in 1 .. Len(rows) : rows[i] # BlankRow}
  <1>1. Len(rows) \in Nat
    BY LenProperties DEF Rows
  <1>2. FirstRow(rows) = IF inUse = {} THEN 1
                         ELSE CHOOSE i \in inUse : \A j \in inUse : i <= j
    BY DEF FirstRow
  <1>3. inUse \subseteq 1 .. Len(rows) /\ inUse \subseteq Nat
    BY <1>1
  <1>4. FirstRow(rows) \in 1 .. Len(rows)
    <2> HIDE DEF inUse
    <2>1. CASE inUse = {}
      BY <1>1, <1>2, <2>1
    <2>2. CASE inUse # {}
      BY <1>2, <1>3, <2>2, LeastNumber
    <2> QED BY <2>1, <2>2
  <1> QED BY <1>1, <1>4 DEF UsedRows

LEMMA TableTypes ==
    ASSUME NEW t \in Tables
    PROVE  t \in Rows /\ t # <<>>
  BY EngineAssumption DEF Rows

LEMMA BlankTypes == Blank \in Rows /\ Len(Blank) = 1
  BY EngineAssumption DEF Blank, Rows

\* A workbook has at least one row when it is opened.
LEMMA BookTypes ==
    ASSUME NEW name \in Files, NEW rows \in Rows
    PROVE  /\ BookFor(name, rows) \in [rows: Rows, path: Files \cup {NoName}]
           /\ Len(BookFor(name, rows).rows) \in Nat \ {0}
           /\ BookFor(name, rows).path \in {NoName, name}
           /\ rows # Absent => BookFor(name, rows).path = name
  BY BlankTypes, EmptySeq DEF BookFor, Rows, Absent

LEMMA DiskTypes ==
    ASSUME TypeOK, NEW name \in Files \cup {NoName}, NEW d \in AfterClose(name)
    PROVE  d \in [Files -> Rows]
  <1>1. book.rows \in Rows /\ disk \in [Files -> Rows]
    BY DEF TypeOK
  <1>2. \A to : [disk EXCEPT ![to] = book.rows] \in [Files -> Rows]
    BY <1>1
  <1> QED BY <1>1, <1>2 DEF AfterClose

\* Each step is one of these.
LEMMA Steps ==
    ASSUME [Next]_vars
    PROVE  \/ /\ app = "running" /\ calls' = calls + 1
              /\ \/ \E name \in Files \cup {NoName} : Construct(name)
                 \/ Destroy
                 \/ /\ alive /\ UNCHANGED alive
                    /\ \/ OpenAs(sXlsFile)
                       \/ \E f \in Files \cup {NoName} : OpenAs(f)
                       \/ Save
                       \/ Close
                       \/ \E t \in Tables : SaveDataFrTable(t)
                       \/ /\ bIsOpen \/ Careless
                          /\ \E r \in 1 .. MaxRow, v \in Edits : SetCellData(r, v)
                       \/ (bIsOpen \/ Careless) /\ ReadDataToTable
           \/ UNCHANGED vars
  BY DEF Next, Call, Unguarded

-----------------------------------------------------------------------------
(* What the steps rely on beside the types: which objects there are when a    *)
(* report is open, which file it belongs to, and how many rows it has.        *)

\* The engine's objects and flags.
ObjectInv ==
    /\ bIsOpen <=> pWorkbook = "live"
    /\ bIsOpen => /\ alive /\ Installed /\ pExcel = "live"
                  /\ sXlsFile \in Files /\ opens >= 1
    /\ pWorkbook = "dead" => bIsSaveAlready
    /\ opens = 0 => ~bIsSaveAlready /\ pWorkbook = "null"
    /\ nameless = 0 /\ app = "running" => (pExcel = "live" <=> bIsOpen)

\* The workbook and the file it belongs to.
BookInv ==
    bIsOpen => /\ bIsANewFile \/ book.path = sXlsFile
               /\ book.path \in {NoName, sXlsFile}
               /\ ~MayFail /\ opens = 1 /\ bIsSaveAlready => book.path = sXlsFile
               /\ ~wrote => /\ nStartRow = FirstRow(book.rows)
                             /\ nRowCount = UsedRows(book.rows)
                             /\ disk[sXlsFile] \in {Absent, book.rows}

EngineInv == ObjectInv /\ BookInv /\ NoDeadObjectUsed /\ ExcelQuits

LEMMA SaveRowsKeeps ==
    ASSUME TypeOK, EngineInv, NEW rows \in Rows, bIsOpen,
           SaveRows(SaveTarget(sXlsFile), rows)
    PROVE  /\ book' \in [rows: Rows, path: Files \cup {NoName}]
           /\ disk' \in [Files -> Rows]
           /\ book'.rows = rows
           /\ book'.path \in {NoName, sXlsFile}
           /\ bIsANewFile \/ book'.path = sXlsFile
           /\ ~MayFail /\ (WillSave \/ book.path = sXlsFile) => book'.path = sXlsFile
           /\ UNCHANGED disk \/ disk'[sXlsFile] = rows
  <1>1. SaveTarget(sXlsFile) = sXlsFile
    BY DEF SaveTarget, EngineInv, BookInv
  <1>2. sXlsFile \in Files /\ book \in [rows: Rows, path: Files \cup {NoName}]
    BY DEF EngineInv, ObjectInv, TypeOK
  <1>3. CASE /\ disk' = [disk EXCEPT ![sXlsFile] = rows]
             /\ book' = [rows |-> rows, path |-> sXlsFile]
    BY <1>2, <1>3 DEF TypeOK
  <1>4. CASE /\ ~WillSave \/ MayFail
             /\ book' = [book EXCEPT !.rows = rows]
             /\ UNCHANGED disk
    BY <1>2, <1>4 DEF TypeOK, EngineInv, BookInv
  <1> QED BY <1>1, <1>3, <1>4 DEF SaveRows

LEMMA OpenKeeps ==
    ASSUME TypeOK, EngineInv, app = "running", alive, UNCHANGED alive, calls' = calls + 1,
           NEW name \in Files \cup {NoName}, OpenAs(name)
    PROVE  TypeOK' /\ EngineInv'
  <1>1. /\ opens' = opens + 1 /\ sXlsFile' = name /\ pExcel' = "live"
        /\ excels' = excels + (IF Installed /\ (pExcel = "null" \/ bIsOpen) THEN 1 ELSE 0)
                            - (IF bIsOpen THEN 1 ELSE 0)
        /\ bIsSaveAlready' = IF bIsOpen THEN SavedFlagAfterClose ELSE bIsSaveAlready
        /\ wrote' = FALSE /\ UNCHANGED table
        /\ nameless' = nameless + (IF name = NoName THEN 1 ELSE 0)
    BY DEF OpenAs
  <1>2. disk' \in [Files -> Rows]
    BY DiskTypes DEF OpenAs, TypeOK
  <1>3. /\ opens' \in Nat \ {0} /\ excels' \in Nat /\ bIsSaveAlready' \in BOOLEAN
        /\ calls' \in Nat /\ nameless' \in Nat
    <2>1. opens' \in Nat \ {0} /\ calls' \in Nat
      BY <1>1 DEF TypeOK
    <2>2. excels' \in Nat
      BY <1>1 DEF TypeOK, EngineInv, ObjectInv
    <2>3. bIsSaveAlready' \in BOOLEAN
      BY <1>1 DEF TypeOK, SavedFlagAfterClose
    <2>4. nameless' \in Nat
      BY <1>1 DEF TypeOK
    <2> QED BY <2>1, <2>2, <2>3, <2>4
  <1>4. ~Installed => excels' = excels /\ ~bIsOpen
    BY <1>1 DEF EngineInv, ObjectInv, TypeOK
  <1>8. Installed => excels' >= 1
    <2>1. excels \in Nat /\ (bIsOpen => excels >= 1) /\ (pExcel = "live" /\ Installed => excels >= 1)
      BY DEF EngineInv, ObjectInv, ExcelQuits, TypeOK
    <2>2. pExcel \in {"null", "live"}
      BY DEF TypeOK
    <2> QED BY <1>1, <2>1, <2>2
  <1>9. excels' <= nameless + 1 /\ (name = NoName => nameless' = nameless + 1)
    BY <1>1 DEF EngineInv, ExcelQuits, TypeOK
  <1>5. opens = 0 => ~bIsSaveAlready'
    BY <1>1 DEF EngineInv, ObjectInv
  <1>6. CASE name = NoName \/ ~Installed
    <2>1. /\ app' = IF name = NoName THEN app ELSE "crashed"
          /\ pWorkbook' = IF bIsOpen THEN "dead" ELSE pWorkbook
          /\ bIsANewFile' = (bIsANewFile /\ ~bIsOpen)
          /\ bIsOpen' = FALSE
          /\ book' = IF bIsOpen THEN NoBook ELSE book
          /\ UNCHANGED <<nStartRow, nRowCount>>
      BY <1>6 DEF OpenAs, shape
    <2>2. NoBook \in [rows: Rows, path: Files \cup {NoName}]
      BY EmptySeq DEF NoBook, Absent, Rows
    <2>3. TypeOK'
      BY <1>1, <1>2, <1>3, <2>1, <2>2 DEF TypeOK
    <2>4. ObjectInv'
      BY <1>1, <1>3, <1>6, <2>1 DEF EngineInv, ObjectInv, TypeOK, SavedFlagAfterClose
    <2>5. BookInv'
      BY <2>1 DEF BookInv
    <2>6. NoDeadObjectUsed'
      BY <1>1, <1>6, <2>1 DEF NoDeadObjectUsed
    <2>7. excels' <= nameless'
      <3>1. CASE name = NoName
        BY <1>9, <3>1
      <3>2. CASE name # NoName
        <4>1. ~bIsOpen /\ excels' = excels
          BY <1>4, <1>6, <3>2
        <4> QED BY <1>1, <3>2, <4>1 DEF EngineInv, ExcelQuits, TypeOK
      <3> QED BY <3>1, <3>2
    <2>8. ExcelQuits'
      <3>1. nameless' \in Nat /\ ~bIsOpen'
        BY <1>3, <2>1
      <3>2. (IF bIsOpen' THEN 1 ELSE 0) = 0
        BY <3>1, Zenon
      <3>3. excels' <= nameless' + (IF bIsOpen' THEN 1 ELSE 0)
        BY <2>7, <3>1, <3>2
      <3> QED BY <1>8, <3>3 DEF ExcelQuits
    <2> QED BY <2>3, <2>4, <2>5, <2>6, <2>8 DEF EngineInv
  <1>7. CASE ~(name = NoName \/ ~Installed)
    <2>1. /\ pWorkbook' = "live" /\ bIsOpen' = TRUE /\ UNCHANGED app
          /\ bIsANewFile' = (disk'[name] = Absent)
          /\ book' = BookFor(name, disk'[name])
          /\ nStartRow' = FirstRow(book'.rows) /\ nRowCount' = UsedRows(book'.rows)
      BY <1>7 DEF OpenAs
    <2>2. name \in Files /\ disk'[name] \in Rows
      BY <1>2, <1>7
    <2>3. /\ book' \in [rows: Rows, path: Files \cup {NoName}]
          /\ Len(book'.rows) \in Nat \ {0}
          /\ book'.path \in {NoName, name}
          /\ ~bIsANewFile' => book'.path = name
          /\ disk'[name] \in {Absent, book'.rows}
      <3>1. disk'[name] \in {Absent, BookFor(name, disk'[name]).rows}
        BY DEF BookFor
      <3> QED BY <2>1, <2>2, <3>1, BookTypes
    <2>9. /\ nStartRow' \in Nat /\ nStartRow' >= 1 /\ nRowCount' \in Nat /\ nRowCount' >= 1
          /\ nStartRow' + nRowCount' - 1 <= Len(book'.rows)
      BY <2>1, <2>3, UsedTypes
    <2>4. TypeOK'
      <3>2. bIsANewFile' \in BOOLEAN
        BY <2>1
      <3> QED BY <1>1, <1>2, <1>3, <2>1, <2>3, <2>9, <3>2 DEF TypeOK
    <2>5. ObjectInv'
      BY <1>1, <1>3, <1>7, <2>1, <2>2 DEF ObjectInv
    <2>6. opens' = 1 => ~bIsSaveAlready'
      BY <1>1, <1>5 DEF TypeOK
    <2>7. BookInv'
      BY <1>1, <2>1, <2>3, <2>6 DEF BookInv
    <2>8. NoDeadObjectUsed'
      BY <1>1, <1>7, <2>1 DEF EngineInv, NoDeadObjectUsed, TypeOK
    <2>10. ExcelQuits'
      <3>1. nameless' = nameless /\ Installed
        BY <1>1, <1>7 DEF TypeOK
      <3> QED BY <1>3, <1>8, <1>9, <2>1, <3>1 DEF ExcelQuits
    <2> QED BY <2>4, <2>5, <2>7, <2>8, <2>10 DEF EngineInv
  <1> QED BY <1>6, <1>7

\* A workbook that was deleted is not saved: it was deleted by Close, which raised
\* the flag.
LEMMA NoDeadSave ==
    ASSUME EngineInv
    PROVE  ~DeadSave
  BY DEF DeadSave, WillSave, EngineInv, ObjectInv

\* Nor is it closed, unless an engine was opened without a name.
LEMMA NoDeadClose ==
    ASSUME TypeOK, EngineInv, app = "running", HasObjects, pWorkbook # "live"
    PROVE  ~bIsOpen /\ nameless # 0
  BY DEF HasObjects, EngineInv, ObjectInv, TypeOK

LEMMA SaveKeeps ==
    ASSUME TypeOK, EngineInv, app = "running", alive, UNCHANGED alive, calls' = calls + 1,
           Save
    PROVE  TypeOK' /\ EngineInv'
  <1>1. /\ bIsSaveAlready' = (bIsSaveAlready \/ WillSave) /\ UNCHANGED app
        /\ UNCHANGED <<pExcel, pWorkbook, sXlsFile, bIsOpen, bIsANewFile>>
        /\ UNCHANGED <<nStartRow, nRowCount, excels, table, opens, wrote, nameless>>
        /\ SaveRows(SaveTarget(sXlsFile), book.rows)
    BY NoDeadSave DEF Save, shape
  <1>2. calls' \in Nat /\ bIsSaveAlready' \in BOOLEAN
    BY <1>1 DEF TypeOK, WillSave
  <1>3. CASE bIsOpen
    <2>1. book.rows \in Rows
      BY DEF TypeOK
    <2>2. /\ book' \in [rows: Rows, path: Files \cup {NoName}]
          /\ disk' \in [Files -> Rows]
          /\ book'.rows = book.rows
          /\ book'.path \in {NoName, sXlsFile}
          /\ bIsANewFile \/ book'.path = sXlsFile
          /\ ~MayFail /\ (WillSave \/ book.path = sXlsFile) => book'.path = sXlsFile
          /\ UNCHANGED disk \/ disk'[sXlsFile] = book.rows
      BY <1>1, <1>3, <2>1, SaveRowsKeeps
    <2>3. TypeOK'
      BY <1>1, <1>2, <2>2 DEF TypeOK
    <2>4. BookInv'
      BY <1>1, <1>3, <2>2 DEF EngineInv, BookInv
    <2> QED BY <1>1, <1>3, <2>3, <2>4
            DEF EngineInv, ObjectInv, NoDeadObjectUsed, ExcelQuits
  <1>4. CASE ~bIsOpen
    <2>1. ~WillSave
      BY <1>4 DEF WillSave, EngineInv, ObjectInv, TypeOK
    <2>2. book' = [book EXCEPT !.rows = book.rows] /\ UNCHANGED disk
      BY <1>1, <2>1 DEF SaveRows
    <2>3. TypeOK'
      BY <1>1, <1>2, <1>4, <2>2 DEF TypeOK
    <2> QED BY <1>1, <1>4, <2>1, <2>3
            DEF EngineInv, ObjectInv, BookInv, NoDeadObjectUsed, ExcelQuits
  <1> QED BY <1>3, <1>4

\* Close, called by the owner or by the destructor.
LEMMA CloseEffect ==
    ASSUME TypeOK, EngineInv, app = "running", Close
    PROVE  /\ UNCHANGED <<sXlsFile, nStartRow, nRowCount, table, opens, wrote, nameless>>
           /\ disk' \in [Files -> Rows]
           /\ \/ /\ bIsOpen /\ UNCHANGED app
                 /\ disk' \in AfterClose(sXlsFile)
                 /\ excels' = excels - 1 /\ book' = NoBook
                 /\ pExcel' = "null" /\ pWorkbook' = "dead"
                 /\ bIsOpen' = FALSE /\ bIsANewFile' = FALSE /\ bIsSaveAlready' = TRUE
              \/ /\ ~bIsOpen
                 /\ UNCHANGED app \/ (app' = "crashed" /\ nameless # 0)
                 /\ UNCHANGED <<disk, book, excels, pExcel, pWorkbook>>
                 /\ UNCHANGED <<bIsOpen, bIsANewFile, bIsSaveAlready>>
  <1>1. UNCHANGED <<sXlsFile, nStartRow, nRowCount, table, opens, wrote, nameless>>
    BY DEF Close, shape
  <1>2. CASE HasObjects /\ pWorkbook = "live"
    <2>1. bIsOpen /\ sXlsFile \in Files
      BY <1>2 DEF EngineInv, ObjectInv
    <2>2. disk' \in AfterClose(sXlsFile) /\ CloseObjects /\ UNCHANGED app
      BY <1>2, NoDeadSave DEF Close
    <2> QED BY <1>1, <2>1, <2>2, DiskTypes DEF CloseObjects, SavedFlagAfterClose
  <1>3. CASE ~(HasObjects /\ pWorkbook = "live")
    <2>1. ~bIsOpen
      BY <1>3 DEF EngineInv, ObjectInv, HasObjects
    <2>2. /\ UNCHANGED app \/ (app' = "crashed" /\ nameless # 0)
          /\ UNCHANGED <<disk, book, excels, pExcel, pWorkbook>>
          /\ UNCHANGED <<bIsOpen, bIsANewFile, bIsSaveAlready>>
      <3>1. CASE HasObjects
        <4>1. pWorkbook = "dead" /\ nameless # 0
          BY <1>3, <3>1, NoDeadClose DEF HasObjects, TypeOK
        <4> QED BY <3>1, <4>1 DEF Close, excel, flags
      <3>2. CASE ~HasObjects
        BY <3>2, NoDeadSave DEF Close, excel, flags
      <3> QED BY <3>1, <3>2
    <2> QED BY <1>1, <2>1, <2>2 DEF TypeOK
  <1> QED BY <1>2, <1>3

LEMMA CloseKeeps ==
    ASSUME TypeOK, EngineInv, app = "running", alive, calls' = calls + 1,
           Close, alive' \in BOOLEAN, alive' \/ bIsOpen
    PROVE  TypeOK' /\ EngineInv'
  <1>1. /\ UNCHANGED <<sXlsFile, nStartRow, nRowCount, table, opens, wrote, nameless>>
        /\ disk' \in [Files -> Rows]
    BY CloseEffect
  <1>2. CASE bIsOpen
    <2>1. /\ excels' = excels - 1 /\ book' = NoBook /\ UNCHANGED app
          /\ pExcel' = "null" /\ pWorkbook' = "dead"
          /\ bIsOpen' = FALSE /\ bIsANewFile' = FALSE /\ bIsSaveAlready' = TRUE
      BY <1>2, CloseEffect
    <2>2. NoBook \in [rows: Rows, path: Files \cup {NoName}]
      BY EmptySeq DEF NoBook, Absent, Rows
    <2>3. excels' \in Nat /\ excels' <= nameless'
      BY <1>1, <1>2, <2>1 DEF EngineInv, ObjectInv, ExcelQuits, TypeOK
    <2>4. TypeOK'
      <3>1. pExcel' \in {"null", "live"} /\ pWorkbook' \in {"null", "live", "dead"}
        BY <2>1
      <3>2. book' \in [rows: Rows, path: Files \cup {NoName}] /\ ~bIsOpen'
        BY <2>1, <2>2
      <3>3. bIsOpen' \in BOOLEAN /\ bIsANewFile' \in BOOLEAN /\ bIsSaveAlready' \in BOOLEAN
        BY <2>1
      <3>4. calls' \in Nat /\ app' \in {"running", "crashed"}
        BY <2>1 DEF TypeOK
      <3> QED BY <1>1, <2>3, <3>1, <3>2, <3>3, <3>4 DEF TypeOK
    <2>5. ObjectInv'
      BY <1>1, <1>2, <2>1 DEF EngineInv, ObjectInv, TypeOK
    <2>6. ExcelQuits'
      <3>1. (nameless + (IF bIsOpen THEN 1 ELSE 0))' = nameless' /\ pExcel' # "live"
        BY <1>1, <2>1 DEF TypeOK
      <3> QED BY <2>3, <3>1 DEF ExcelQuits
    <2> QED BY <1>1, <2>1, <2>4, <2>5, <2>6 DEF EngineInv, BookInv, NoDeadObjectUsed
  <1>3. CASE ~bIsOpen
    <2>1. /\ UNCHANGED <<disk, book, excels, pExcel, pWorkbook>>
          /\ UNCHANGED <<bIsOpen, bIsANewFile, bIsSaveAlready, alive>>
          /\ UNCHANGED app \/ (app' = "crashed" /\ nameless # 0)
      BY <1>3, CloseEffect
    <2>2. TypeOK'
      BY <1>1, <2>1 DEF TypeOK
    <2>3. ObjectInv' /\ BookInv'
      BY <1>1, <1>3, <2>1 DEF EngineInv, ObjectInv, BookInv
    <2>4. NoDeadObjectUsed' /\ ExcelQuits'
      BY <1>1, <2>1 DEF EngineInv, NoDeadObjectUsed, ExcelQuits
    <2> QED BY <2>2, <2>3, <2>4 DEF EngineInv
  <1> QED BY <1>2, <1>3

LEMMA FillKeeps ==
    ASSUME TypeOK, EngineInv, app = "running", alive, UNCHANGED alive, calls' = calls + 1,
           NEW t \in Tables, SaveDataFrTable(t)
    PROVE  TypeOK' /\ EngineInv'
  <1>1. /\ UNCHANGED <<app, pExcel, pWorkbook, sXlsFile, bIsOpen, bIsANewFile>>
        /\ UNCHANGED <<nStartRow, nRowCount, excels, table, opens, nameless>>
    BY DEF SaveDataFrTable, shape
  <1>2. CASE bIsOpen
    <2>1. /\ SaveRows(SaveTarget(sXlsFile), Over(book.rows, t))
          /\ bIsSaveAlready' = TRUE /\ wrote' = TRUE
      BY <1>2 DEF SaveDataFrTable
    <2>2. book.rows \in Rows
      BY DEF TypeOK
    <2>3. Over(book.rows, t) \in Rows /\ Len(Over(book.rows, t)) >= Len(book.rows)
      BY <2>2, OverTypes, TableTypes
    <2>4. /\ book' \in [rows: Rows, path: Files \cup {NoName}]
          /\ disk' \in [Files -> Rows]
          /\ book'.rows = Over(book.rows, t)
          /\ book'.path \in {NoName, sXlsFile}
          /\ bIsANewFile \/ book'.path = sXlsFile
          /\ ~MayFail /\ (WillSave \/ book.path = sXlsFile) => book'.path = sXlsFile
      BY <1>2, <2>1, <2>3, SaveRowsKeeps
    <2>5. Len(book.rows) \in Nat /\ Len(book'.rows) \in Nat
      BY <2>2, <2>3, <2>4, LenProperties DEF Rows
    <2>6. /\ nStartRow' >= 1 /\ nRowCount' >= 1
          /\ nStartRow' + nRowCount' - 1 <= Len(book'.rows)
      BY <1>1, <1>2, <2>3, <2>4, <2>5 DEF TypeOK
    <2>7. TypeOK'
      BY <1>1, <2>1, <2>4, <2>6 DEF TypeOK
    <2>8. ~MayFail /\ opens = 1 => book'.path = sXlsFile
      BY <1>2, <2>4 DEF EngineInv, ObjectInv, BookInv, WillSave
    <2>9. BookInv'
      BY <1>1, <1>2, <2>1, <2>4, <2>8 DEF BookInv
    <2>10. ObjectInv'
      BY <1>1, <1>2, <2>1 DEF EngineInv, ObjectInv
    <2> QED BY <1>1, <2>7, <2>9, <2>10 DEF EngineInv, NoDeadObjectUsed, ExcelQuits
  <1>3. CASE ~bIsOpen
    <2>1. UNCHANGED <<book, disk, bIsSaveAlready, wrote>>
      BY <1>3 DEF SaveDataFrTable
    <2>2. TypeOK'
      BY <1>1, <2>1 DEF TypeOK
    <2> QED BY <1>1, <1>3, <2>1, <2>2
            DEF EngineInv, ObjectInv, BookInv, NoDeadObjectUsed, ExcelQuits
  <1> QED BY <1>2, <1>3

\* The sheet is used without a look at the flags: harmless when a report is open.
LEMMA SheetKeeps ==
    ASSUME TypeOK, EngineInv, app = "running", alive, UNCHANGED alive, calls' = calls + 1,
           bIsOpen \/ Careless,
           \/ \E r \in 1 .. MaxRow, v \in Edits : SetCellData(r, v)
           \/ ReadDataToTable
    PROVE  TypeOK' /\ EngineInv'
  <1>1. /\ UNCHANGED <<pExcel, pWorkbook, sXlsFile, bIsOpen, bIsANewFile, bIsSaveAlready>>
        /\ UNCHANGED <<nStartRow, nRowCount, excels, disk, opens, nameless>>
    BY DEF SetCellData, ReadDataToTable, engine, excel, flags, shape
  <1> DEFINE SheetUsed ==
        /\ app' = IF pWorkbook = "live" THEN app ELSE "crashed"
        /\ book'.path = book.path /\ Len(book'.rows) >= Len(book.rows)
        /\ wrote' = TRUE \/ UNCHANGED <<wrote, book>>
        /\ wrote' \in BOOLEAN
        /\ book' \in [rows: Rows, path: Files \cup {NoName}] /\ table' \in Rows \ {<<>>}
  <1>2. SheetUsed
    <2>1. /\ book \in [rows: Rows, path: Files \cup {NoName}] /\ table \in Rows \ {<<>>}
          /\ wrote \in BOOLEAN /\ Len(book.rows) \in Nat
      BY LenProperties DEF TypeOK, Rows
    <2>2. ASSUME NEW r \in 1 .. MaxRow, NEW v \in Edits, SetCellData(r, v) PROVE SheetUsed
      <3>3. wrote' = TRUE
        BY <2>2 DEF SetCellData
      <3>1. CASE pWorkbook = "live"
        <4>1. book' = [book EXCEPT !.rows = WithRow(@, r, v)] /\ UNCHANGED <<app, table>>
          BY <2>2, <3>1 DEF SetCellData
        <4>2. r \in Nat \ {0} /\ v \in Row
          BY EngineAssumption
        <4>3. WithRow(book.rows, r, v) \in Rows
              /\ Len(WithRow(book.rows, r, v)) >= Len(book.rows)
          BY <2>1, <4>2, WithRowTypes
        <4>4. book' = [book EXCEPT !.rows = WithRow(book.rows, r, v)]
          BY <4>1
        <4> QED BY <2>1, <3>1, <3>3, <4>1, <4>3, <4>4
      <3>2. CASE pWorkbook # "live"
        BY <2>1, <2>2, <3>2, <3>3 DEF SetCellData
      <3> QED BY <3>1, <3>2
    <2>3. ASSUME ReadDataToTable PROVE SheetUsed
      <3>1. CASE pWorkbook = "live"
        <4>1. /\ table' = [i \in 1 .. nRowCount + Len(table) - 1 |->
                              IF i <= nRowCount THEN book.rows[nStartRow + i - 1]
                                                ELSE BlankRow]
              /\ UNCHANGED <<app, book, wrote>>
          BY <2>3, <3>1 DEF ReadDataToTable, excel
        <4>2. /\ nRowCount \in Nat \ {0} /\ nStartRow \in Nat \ {0}
              /\ nStartRow + nRowCount - 1 <= Len(book.rows)
          BY <3>1 DEF TypeOK, EngineInv, ObjectInv
        <4>3. \A i \in 1 .. nRowCount : book.rows[nStartRow + i - 1] \in Row
          <5>1. \A i \in 1 .. nRowCount : nStartRow + i - 1 \in 1 .. Len(book.rows)
            BY <2>1, <4>2
          <5> QED BY <2>1, <5>1, ElementOfSeq DEF Rows
        <4>4. nRowCount + Len(table) - 1 \in Nat \ {0}
          BY <2>1, <4>2, EmptySeq, LenProperties DEF Rows
        <4>5. table' \in [1 .. nRowCount + Len(table) - 1 -> Row]
          <5> DEFINE n == nRowCount + Len(table) - 1
                     row(i) == IF i <= nRowCount THEN book.rows[nStartRow + i - 1]
                                                 ELSE BlankRow
          <5>1. \A i \in 1 .. n : row(i) \in Row
            <6>1. \A i \in 1 .. n : i <= nRowCount => i \in 1 .. nRowCount
              BY <4>2, <4>4
            <6> QED BY <4>3, <6>1, EngineAssumption
          <5>2. table' = [i \in 1 .. n |-> row(i)]
            BY <4>1
          <5> HIDE DEF row, n
          <5>3. table' \in [1 .. n -> Row]
            BY <5>1, <5>2
          <5> QED BY <5>3 DEF n
        <4>6. table' \in Rows /\ Len(table') = nRowCount + Len(table) - 1
          BY <4>4, <4>5, FunctionIsSequence DEF Rows
        <4>7. table' # <<>>
          BY <4>4, <4>6, EmptySeq
        <4> QED BY <2>1, <3>1, <4>1, <4>6, <4>7
      <3>2. CASE pWorkbook # "live"
        BY <2>1, <2>3, <3>2 DEF ReadDataToTable, excel
      <3> QED BY <3>1, <3>2
    <2> QED BY <2>2, <2>3
  <1>3. TypeOK'
    <2>1. bIsOpen => nStartRow + nRowCount - 1 <= Len(book'.rows)
      <3>1. Len(book.rows) \in Nat /\ Len(book'.rows) \in Nat
        BY <1>2, LenProperties DEF TypeOK, Rows
      <3> QED BY <1>2, <3>1 DEF TypeOK
    <2> QED BY <1>1, <1>2, <2>1 DEF TypeOK
  <1>4. ObjectInv'
    BY <1>1, <1>2 DEF EngineInv, ObjectInv
  <1>5. BookInv'
    BY <1>1, <1>2 DEF EngineInv, BookInv
  <1>6. NoDeadObjectUsed'
    BY <1>2 DEF EngineInv, ObjectInv, NoDeadObjectUsed
  <1>7. ExcelQuits'
    BY <1>1 DEF EngineInv, ExcelQuits
  <1> QED BY <1>3, <1>4, <1>5, <1>6, <1>7 DEF EngineInv

LEMMA ConstructKeeps ==
    ASSUME TypeOK, EngineInv, app = "running", calls' = calls + 1,
           NEW name \in Files \cup {NoName}, Construct(name)
    PROVE  TypeOK' /\ EngineInv'
  <1>1. TypeOK'
    <2>1. /\ UNCHANGED <<app, book, excels, disk, table, nameless>>
          /\ alive' = TRUE /\ sXlsFile' = name /\ opens' = 0
          /\ pExcel' = "null" /\ pWorkbook' = "null"
          /\ nStartRow' = 0 /\ nRowCount' = 0
          /\ bIsOpen' = FALSE /\ bIsANewFile' = FALSE /\ bIsSaveAlready' = FALSE
          /\ wrote' = FALSE
      BY DEF Construct, excel
    <2>2. calls' \in Nat /\ nStartRow' \in Nat /\ nRowCount' \in Nat /\ opens' \in Nat
      BY <2>1 DEF TypeOK
    <2>3. ~bIsOpen' /\ bIsOpen' \in BOOLEAN
      BY <2>1
    <2> QED BY <2>1, <2>2, <2>3 DEF TypeOK
  <1>2. ObjectInv' /\ BookInv'
    BY DEF Construct, ObjectInv, BookInv
  <1>3. NoDeadObjectUsed' /\ ExcelQuits'
    <2>1. ~bIsOpen
      BY DEF Construct, EngineInv, ObjectInv
    <2> QED BY <2>1 DEF Construct, EngineInv, NoDeadObjectUsed, ExcelQuits, excel
  <1> QED BY <1>1, <1>2, <1>3 DEF EngineInv

LEMMA DestroyKeeps ==
    ASSUME TypeOK, EngineInv, app = "running", calls' = calls + 1, Destroy
    PROVE  TypeOK' /\ EngineInv'
  <1>1. CASE bIsOpen
    BY <1>1, CloseKeeps DEF Destroy, ClosesAtEnd
  <1>2. CASE ~bIsOpen
    <2>1. /\ alive /\ alive' = FALSE
          /\ UNCHANGED <<app, pExcel, pWorkbook, sXlsFile, bIsOpen, bIsANewFile>>
          /\ UNCHANGED <<bIsSaveAlready, nStartRow, nRowCount, book, excels, disk>>
          /\ UNCHANGED <<table, opens, wrote, nameless>>
      BY <1>2 DEF Destroy, ClosesAtEnd, engine, flags, shape, excel
    <2>2. TypeOK'
      <3>1. alive' \in BOOLEAN
        BY <2>1, Zenon
      <3>2. calls' \in Nat
        BY DEF TypeOK
      <3> QED BY <2>1, <3>1, <3>2 DEF TypeOK
    <2>3. ExcelQuits'
      BY <1>2, <2>1 DEF EngineInv, ObjectInv, ExcelQuits, TypeOK
    <2> QED BY <1>2, <2>1, <2>2, <2>3 DEF EngineInv, ObjectInv, BookInv, NoDeadObjectUsed
  <1> QED BY <1>1, <1>2

LEMMA EngineInvHolds == Spec => [](TypeOK /\ EngineInv)
  <1>1. Init => TypeOK /\ EngineInv
    <2> SUFFICES ASSUME Init PROVE TypeOK /\ EngineInv
      OBVIOUS
    <2>1. Absent \in Rows /\ NoBook \in [rows: Rows, path: Files \cup {NoName}]
      BY EmptySeq DEF NoBook, Absent, Rows
    <2>2. disk \in [Files -> Rows] /\ table \in Rows \ {<<>>}
      BY <2>1, TableTypes DEF Init
    <2>3. TypeOK
      BY <2>1, <2>2 DEF Init, TypeOK
    <2> QED BY <2>3 DEF Init, EngineInv, ObjectInv, BookInv, NoDeadObjectUsed, ExcelQuits
  <1>2. TypeOK /\ EngineInv /\ [Next]_vars => TypeOK' /\ EngineInv'
    <2> SUFFICES ASSUME TypeOK, EngineInv, [Next]_vars PROVE TypeOK' /\ EngineInv'
      OBVIOUS
    <2>1. CASE UNCHANGED vars
      <3>1. TypeOK'
        BY <2>1 DEF vars, engine, flags, shape, excel, TypeOK
      <3> QED BY <2>1, <3>1 DEF vars, engine, flags, shape, excel,
                                EngineInv, ObjectInv, BookInv, NoDeadObjectUsed, ExcelQuits
    <2>2. sXlsFile \in Files \cup {NoName} /\ (alive => alive \in BOOLEAN)
      BY DEF TypeOK
    <2>3. CASE Close /\ alive /\ UNCHANGED alive /\ app = "running" /\ calls' = calls + 1
      BY <2>3, CloseKeeps
    <2> QED BY <2>1, <2>2, <2>3, Steps, ConstructKeeps, DestroyKeeps, OpenKeeps, SaveKeeps,
               FillKeeps, SheetKeeps
  <1> QED BY <1>1, <1>2, PTL DEF Spec

-----------------------------------------------------------------------------
(* What the engine promises. *)

\* Every variable keeps its type, and a report that is open has the rows Open counted.
THEOREM TypeCorrect == Spec => []TypeOK
  BY EngineInvHolds, PTL

\* Until an engine is opened without a name, no order of calls makes Save or Close use
\* the workbook that Close deleted with its application: pWorkbook keeps its value, but
\* bIsSaveAlready guards it in Save, and in Close that there is no application.
THEOREM NoDeadObject == Spec => []NoDeadObjectUsed
  <1>1. EngineInv => NoDeadObjectUsed
    BY DEF EngineInv
  <1> QED BY <1>1, EngineInvHolds, PTL

\* Every Excel that Open started is ended by Close or the destructor, but for one at
\* most for each opening without a name.
THEOREM NoExcelLeft == Spec => []ExcelQuits
  <1>1. EngineInv => ExcelQuits
    BY DEF EngineInv
  <1> QED BY <1>1, EngineInvHolds, PTL

\* A report that Close (or the destructor) has closed is in its file, for the first
\* report of an engine and for files that existed.
THEOREM ClosedIsSaved == Spec => ClosedReportIsOnDisk
  <1> DEFINE Saved ==
        (~MayFail /\ bIsOpen /\ ~bIsOpen' /\ opens' = opens
            /\ (opens = 1 \/ book.path # NoName))
           => disk'[sXlsFile] = book.rows
  <1>1. TypeOK /\ EngineInv /\ [Next]_vars => [Saved]_vars
    <2> SUFFICES ASSUME TypeOK, EngineInv, [Next]_vars,
                        ~MayFail, bIsOpen, ~bIsOpen', opens' = opens,
                        opens = 1 \/ book.path # NoName
                 PROVE  disk'[sXlsFile] = book.rows
      OBVIOUS
    <2>1. /\ app = "running" /\ Close
      <3>1. /\ sXlsFile \in Files /\ Installed /\ alive
        BY DEF EngineInv, ObjectInv
      <3>2. \A name : ~OpenAs(name)
        BY DEF OpenAs, TypeOK
      <3>3. ~Save /\ ~ReadDataToTable /\ (\A t \in Tables : ~SaveDataFrTable(t))
                  /\ (\A r, v : ~SetCellData(r, v))
        BY DEF Save, ReadDataToTable, SaveDataFrTable, SetCellData, engine, flags
      <3>4. \A name : ~Construct(name)
        BY <3>1 DEF Construct
      <3>5. ~UNCHANGED vars
        BY DEF vars, engine, flags
      <3> QED BY <3>1, <3>2, <3>3, <3>4, <3>5, Steps DEF Destroy, ClosesAtEnd
    <2>2. disk' \in AfterClose(sXlsFile)
      BY <2>1, CloseEffect
    <2>3. (IF WillSave THEN SaveTarget(sXlsFile) ELSE book.path) = sXlsFile
      BY DEF WillSave, SaveTarget, EngineInv, ObjectInv, BookInv
    <2>4. sXlsFile \in Files /\ sXlsFile # NoName
      BY EngineAssumption DEF EngineInv, ObjectInv
    <2>5. disk' = [disk EXCEPT ![sXlsFile] = book.rows]
      BY <2>2, <2>3, <2>4 DEF AfterClose
    <2> QED BY <2>4, <2>5 DEF TypeOK
  <1> QED BY <1>1, EngineInvHolds, PTL DEF Spec, ClosedReportIsOnDisk

\* Until something is written into it, what ReadDataToTable reads of an open report is
\* all its file has in use.
THEOREM ReportIsRead == Spec => ReadsReport
  <1> DEFINE Read ==
        (table' # table /\ ~wrote /\ disk[sXlsFile] # Absent)
           => SubSeq(table', 1, Len(Used(disk[sXlsFile]))) = Used(disk[sXlsFile])
  <1>1. TypeOK /\ EngineInv /\ [Next]_vars => [Read]_vars
    <2> SUFFICES ASSUME TypeOK, EngineInv, [Next]_vars, table' # table, ~wrote,
                        disk[sXlsFile] # Absent
                 PROVE  SubSeq(table', 1, Len(Used(disk[sXlsFile]))) = Used(disk[sXlsFile])
      OBVIOUS
    <2>1. ReadDataToTable
      <3>1. \A name : ~OpenAs(name) /\ ~Construct(name)
        BY DEF OpenAs, Construct
      <3>2. ~Save /\ ~Close /\ (\A t \in Tables : ~SaveDataFrTable(t))
                  /\ (\A r, v : ~SetCellData(r, v))
        BY DEF Save, Close, SaveDataFrTable, SetCellData
      <3>3. ~Destroy /\ ~UNCHANGED vars
        BY <3>2 DEF Destroy, vars
      <3> QED BY <3>1, <3>2, <3>3, Steps
    <2>2. /\ table' = [i \in 1 .. nRowCount + Len(table) - 1 |->
                          IF i <= nRowCount THEN book.rows[nStartRow + i - 1] ELSE BlankRow]
          /\ pWorkbook = "live"
      BY <2>1 DEF ReadDataToTable
    <2>3. bIsOpen /\ disk[sXlsFile] = book.rows
      BY <2>2 DEF EngineInv, ObjectInv, BookInv
    <2>4. /\ nStartRow = FirstRow(book.rows) /\ nRowCount = UsedRows(book.rows)
          /\ nStartRow \in Nat \ {0} /\ nRowCount \in Nat \ {0}
          /\ Len(book.rows) \in Nat /\ nStartRow + nRowCount - 1 <= Len(book.rows)
      BY <2>3, LenProperties DEF EngineInv, BookInv, TypeOK, Rows
    <2>5. book.rows \in Seq(Row) /\ table \in Seq(Row) /\ Len(table) \in Nat \ {0}
      BY EmptySeq DEF TypeOK, Rows
    <2>6. nStartRow + nRowCount - 1 = Len(book.rows)
      BY <2>4 DEF UsedRows
    <2> DEFINE used == SubSeq(book.rows, nStartRow, Len(book.rows))
               read == SubSeq(table', 1, nRowCount)
    <2>7. \A i \in 1 .. nRowCount : /\ nStartRow + i - 1 \in 1 .. Len(book.rows)
                                    /\ book.rows[nStartRow + i - 1] \in Row
                                    /\ table'[i] = book.rows[nStartRow + i - 1]
      <3> SUFFICES ASSUME NEW i \in 1 .. nRowCount
                   PROVE  /\ nStartRow + i - 1 \in 1 .. Len(book.rows)
                          /\ book.rows[nStartRow + i - 1] \in Row
                          /\ table'[i] = book.rows[nStartRow + i - 1]
        OBVIOUS
      <3>1. nStartRow + i - 1 \in 1 .. Len(book.rows)
        BY <2>4
      <3>2. book.rows[nStartRow + i - 1] \in Row
        BY <2>5, <3>1, ElementOfSeq
      <3>3. table'[i] = book.rows[nStartRow + i - 1]
        BY <2>2, <2>4, <2>5
      <3> QED BY <3>1, <3>2, <3>3
    <2>8. /\ used \in Seq(Row) /\ Len(used) = nRowCount
          /\ \A i \in 1 .. nRowCount : used[i] = book.rows[nStartRow + i - 1]
      <3>1. \A i \in nStartRow .. Len(book.rows) : book.rows[i] \in Row
        BY <2>4, <2>5, ElementOfSeq
      <3> QED BY <2>4, <2>5, <2>6, <3>1, SubSeqProperties
    <2>9. /\ read \in Seq(Row) /\ Len(read) = nRowCount
          /\ \A i \in 1 .. nRowCount : read[i] = table'[i]
      <3>1. \A i \in 1 .. nRowCount : table'[i] \in Row
        BY <2>7
      <3>2. nRowCount \in Int /\ 1 \in Int
        BY <2>4
      <3> HIDE DEF read
      <3>3. /\ SubSeq(table', 1, nRowCount) \in Seq(Row)
            /\ Len(SubSeq(table', 1, nRowCount))
                  = IF 1 <= nRowCount THEN nRowCount - 1 + 1 ELSE 0
            /\ \A i \in 1 .. nRowCount - 1 + 1 :
                  SubSeq(table', 1, nRowCount)[i] = table'[1 + i - 1]
        BY <3>1, <3>2, SubSeqProperties
      <3> QED BY <2>4, <3>3 DEF read
    <2>10. read = used
      <3> HIDE DEF read, used
      <3>1. \A i \in 1 .. nRowCount : read[i] = used[i]
        BY <2>7, <2>8, <2>9, Zenon
      <3>2. Len(read) = Len(used)
        BY <2>8, <2>9
      <3>3. \A i \in 1 .. Len(read) : read[i] = used[i]
        BY <2>9, <3>1
      <3> QED BY <2>8, <2>9, <3>2, <3>3, SeqEqual, Zenon
    <2>11. Used(disk[sXlsFile]) = used
      BY <2>3, <2>4 DEF Used
    <2> QED BY <2>8, <2>10, <2>11
  <1> QED BY <1>1, EngineInvHolds, PTL DEF Spec, ReadsReport
=============================================================================
