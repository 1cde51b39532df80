---------------------------- MODULE ExcelEngine ----------------------------
(***************************************************************************)
(* The report engine: an object that starts Excel through COM, opens or    *)
(* adds a workbook, fills it from a table of the GUI, saves and closes it, *)
(* and the flags it decides by.  Excel and the file system are external.   *)
(*                                                                         *)
(* A behaviour is a sequence of calls of one owner; engines come and go,   *)
(* the files stay. The public operations that change something are calls;  *)
(* Clear, which forgets the name, is protected, and nothing derives from   *)
(* the class or calls it. An engine without a name is one that was         *)
(* constructed or opened with an empty name.                               *)
(***************************************************************************)
EXTENDS Integers, Sequences

CONSTANTS
    Files,       \* names of reports
    Row,         \* a row of a table or sheet: the cells of that row
    BlankRow,    \* the row without content
    Tables,      \* contents of the GUI's tables: a header and rows
    Edits,       \* what the owner may write over a row, cell by cell
    NoName,      \* the empty string as a file name
    Calls,       \* the calls the owner makes
    Careless,    \* does the owner make the calls below that need an open report without one?
    Installed,   \* can Excel be started?
    MayFail,     \* may Excel fail to write a file (read-only, full, in use)?
    MaxRow,      \* bound: the last row the owner writes by itself
    MaxOpens,    \* bound: how often one engine is opened
    MaxCalls     \* bound: calls in a behaviour

\* Calls that look at the state of the engine first, and calls that do not.
Guarded   == {"Open", "OpenFile", "Save", "Close", "SaveDataFrTable"}
Unguarded == {"SetCellData", "ReadDataToTable"}

ASSUME EngineAssumption ==
    /\ NoName \notin Files
    /\ Tables \subseteq Seq(Row) \ {<<>>}
    /\ BlankRow \in Row /\ Edits \subseteq Row
    /\ Calls \subseteq Guarded \cup Unguarded
    /\ Careless \in BOOLEAN /\ Installed \in BOOLEAN /\ MayFail \in BOOLEAN
    /\ MaxRow \in Nat \ {0} /\ MaxOpens \in Nat /\ MaxCalls \in Nat

VARIABLES
    app,             \* "running" or "crashed" (a NULL or deleted object was used)
    alive,           \* is there an engine?
    pExcel,          \* "null" or "live"
    pWorkbook,       \* "null", "live" or "dead" (deleted with pExcel); pWorksheet likewise
    sXlsFile,        \* the name it works for
    bIsOpen, bIsANewFile, bIsSaveAlready,
    nStartRow,       \* the first row in use when the sheet was opened
    nRowCount,       \* and the number of rows from there to the last
    book,            \* Excel: rows of the open workbook and the file it belongs to
    excels,          \* Excel: instances running
    disk,            \* the files: their rows, or Absent
    table,           \* the GUI's table into which reports are read
    opens, calls,    \* opens of this engine, and calls, so far
    wrote,           \* history: was anything written into the open report?
    nameless         \* history: how often an engine was opened without a name

flags  == <<bIsOpen, bIsANewFile, bIsSaveAlready>>
shape  == <<nStartRow, nRowCount>>
engine == <<pExcel, pWorkbook, sXlsFile, flags, shape>>
excel  == <<book, excels>>
vars   == <<app, alive, engine, excel, disk, table, opens, calls, wrote, nameless>>

Absent == <<>>
Blank  == <<BlankRow>>
NoBook == [rows |-> Absent, path |-> NoName]

----------------------------------------------------------------------------
(* What Save and Close do to the files, the workbook and the flags. *)

\* Mutated form: the branch for a new workbook is forgotten.
SavesOpenedOnly == pWorkbook # "null" /\ ~bIsSaveAlready /\ ~bIsANewFile

\* Save does nothing without a workbook or after an earlier save.
WillSave == pWorkbook # "null" /\ ~bIsSaveAlready

\* A workbook that was opened is saved to its own file, a new one under name.
SaveTarget(name) == IF bIsANewFile THEN name ELSE book.path

\* Save of the open workbook, filled with rows; Excel may fail, which is not noticed.
SaveRows(name, rows) ==
    \/ /\ WillSave
       /\ disk' = [disk EXCEPT ![name] = rows]
       /\ book' = [rows |-> rows, path |-> name]
    \/ /\ ~WillSave \/ MayFail
       /\ book' = [book EXCEPT !.rows = rows]
       /\ UNCHANGED disk

\* The files after the Save in Close by an engine that works for name and after Excel's
\* Close(true), which saves to the file a workbook belongs to and drops one without.
AfterClose(name) ==
    LET to == IF WillSave THEN SaveTarget(name) ELSE book.path
    IN (IF to = NoName THEN {disk} ELSE {[disk EXCEPT ![to] = book.rows]})
       \cup (IF MayFail THEN {disk} ELSE {})

\* Mutated form: the flag is cleared.
Cleared == FALSE

SavedFlagAfterClose == TRUE

\* Close with both objects: Quit, delete; the workbook is deleted with its parent.
CloseObjects ==
    /\ excels' = excels - 1 /\ book' = NoBook
    /\ pExcel' = "null" /\ pWorkbook' = "dead"
    /\ bIsOpen' = FALSE /\ bIsANewFile' = FALSE
    /\ bIsSaveAlready' = SavedFlagAfterClose

\* Would the call of Save use a workbook that was deleted?
DeadSave == pWorkbook = "dead" /\ WillSave

\* The test of Close: a deleted workbook passes it.
HasObjects == pExcel # "null" /\ pWorkbook # "null"

----------------------------------------------------------------------------
(* The calls. *)

Save ==
    /\ IF DeadSave
       THEN app' = "crashed" /\ UNCHANGED <<disk, book>>
       ELSE SaveRows(SaveTarget(sXlsFile), book.rows) /\ UNCHANGED app
    /\ bIsSaveAlready' = (bIsSaveAlready \/ WillSave)
    /\ UNCHANGED <<pExcel, pWorkbook, sXlsFile, bIsOpen, bIsANewFile, shape, excels>>
    /\ UNCHANGED <<table, opens, wrote, nameless>>

Close ==
    /\ IF DeadSave \/ (HasObjects /\ pWorkbook = "dead")
       THEN app' = "crashed" /\ UNCHANGED <<disk, excel, pExcel, pWorkbook, flags>>
       ELSE /\ UNCHANGED app
            /\ IF HasObjects
               THEN disk' \in AfterClose(sXlsFile) /\ CloseObjects
               ELSE UNCHANGED <<disk, excel, pExcel, pWorkbook, flags>>
    /\ UNCHANGED <<sXlsFile, shape, table, opens, wrote, nameless>>

\* A sheet's first row with content; the first of all if there is none.
FirstRow(rows) ==
    LET inUse == {i \in 1 .. Len(rows) : rows[i] # BlankRow}
    IN IF inUse = {} THEN 1 ELSE CHOOSE i \in inUse : \A j \in inUse : i <= j

\* Mutated form: the first row is not counted.
RowsBelowHeader(rows) == Len(rows) - FirstRow(rows)

\* UsedRange reaches from that row to the last.
UsedRows(rows) == Len(rows) - FirstRow(rows) + 1

\* The workbook for a file that has the given rows: opened, or added if there is none.
BookFor(name, rows) == IF rows = Absent THEN [rows |-> Blank, path |-> NoName]
                                        ELSE [rows |-> rows, path |-> name]

\* Open, with the engine's name or one that is stored before the open workbook is
\* closed; without a name Excel is started and nothing opened; without Excel the
\* collection of workbooks is NULL.
OpenAs(name) ==
    /\ opens < MaxOpens
    /\ opens' = opens + 1
    /\ sXlsFile' = name
    /\ pExcel' = "live"
    /\ excels' = excels + (IF Installed /\ (pExcel = "null" \/ bIsOpen) THEN 1 ELSE 0)
                        - (IF bIsOpen THEN 1 ELSE 0)
    /\ disk' \in IF bIsOpen THEN AfterClose(name) ELSE {disk}
    /\ bIsSaveAlready' = IF bIsOpen THEN SavedFlagAfterClose ELSE bIsSaveAlready
    /\ IF name = NoName \/ ~Installed
       THEN /\ app' = IF name = NoName THEN app ELSE "crashed"
            /\ pWorkbook' = IF bIsOpen THEN "dead" ELSE pWorkbook
            /\ bIsANewFile' = (bIsANewFile /\ ~bIsOpen)
            /\ bIsOpen' = FALSE
            /\ book' = IF bIsOpen THEN NoBook ELSE book
            /\ UNCHANGED shape
       ELSE /\ pWorkbook' = "live"
            /\ bIsANewFile' = (disk'[name] = Absent)
            /\ bIsOpen' = TRUE
            /\ book' = BookFor(name, disk'[name])
            /\ nStartRow' = FirstRow(book'.rows)
            /\ nRowCount' = UsedRows(book'.rows)
            /\ UNCHANGED app
    /\ wrote' = FALSE
    /\ nameless' = nameless + (IF name = NoName THEN 1 ELSE 0)
    /\ UNCHANGED table

\* Cells are overwritten one by one; rows below them stay.
Over(rows, new) ==
    [i \in 1 .. (IF Len(rows) < Len(new) THEN Len(new) ELSE Len(rows)) |->
        IF i <= Len(new) THEN new[i] ELSE rows[i]]

\* SaveDataFrTable: refused unless open; then every row is written, and Save.
SaveDataFrTable(t) ==
    /\ IF ~bIsOpen
       THEN UNCHANGED <<book, disk, bIsSaveAlready, wrote>>
       ELSE /\ SaveRows(SaveTarget(sXlsFile), Over(book.rows, t))
            /\ bIsSaveAlready' = TRUE
            /\ wrote' = TRUE
    /\ UNCHANGED <<app, pExcel, pWorkbook, sXlsFile, bIsOpen, bIsANewFile, shape>>
    /\ UNCHANGED <<excels, table, opens, nameless>>

\* A row is written; below the last one the sheet grows, blank up to there.
WithRow(rows, r, v) ==
    [i \in 1 .. (IF r > Len(rows) THEN r ELSE Len(rows)) |->
        IF i = r THEN v ELSE IF i <= Len(rows) THEN rows[i] ELSE BlankRow]

\* SetCellData, of any row: the sheet is used unasked, and nothing is saved.
SetCellData(r, v) ==
    /\ IF pWorkbook = "live"
       THEN book' = [book EXCEPT !.rows = WithRow(@, r, v)] /\ UNCHANGED app
       ELSE app' = "crashed" /\ UNCHANGED book
    /\ wrote' = TRUE
    /\ UNCHANGED <<engine, excels, disk, table, opens, nameless>>

\* ReadDataToTable: clear leaves the table's rows, emptied, and each row read is
\* inserted above them; the first row and their number are those of the opening.
ReadDataToTable ==
    /\ IF pWorkbook = "live"
       THEN /\ table' = [i \in 1 .. nRowCount + Len(table) - 1 |->
                            IF i <= nRowCount THEN book.rows[nStartRow + i - 1] ELSE BlankRow]
            /\ UNCHANGED app
       ELSE app' = "crashed" /\ UNCHANGED table
    /\ UNCHANGED <<engine, excel, disk, opens, wrote, nameless>>

Construct(name) ==
    /\ ~alive
    /\ alive' = TRUE
    /\ sXlsFile' = name /\ opens' = 0
    /\ pExcel' = "null" /\ pWorkbook' = "null"
    /\ nStartRow' = 0 /\ nRowCount' = 0
    /\ bIsOpen' = FALSE /\ bIsANewFile' = FALSE /\ bIsSaveAlready' = FALSE
    /\ wrote' = FALSE
    /\ UNCHANGED <<app, excel, disk, table, nameless>>

\* Mutated form: the destructor leaves Excel alone.
LeavesOpen == FALSE

ClosesAtEnd == bIsOpen

Destroy ==
    /\ alive
    /\ alive' = FALSE
    /\ IF ClosesAtEnd THEN Close
       ELSE UNCHANGED <<app, engine, excel, disk, table, opens, wrote, nameless>>

Call(c) ==
    /\ alive /\ c \in Calls
    /\ c \in Unguarded => bIsOpen \/ Careless
    /\ UNCHANGED alive
    /\ \/ c = "Open" /\ OpenAs(sXlsFile)
       \/ c = "OpenFile" /\ \E f \in Files \cup {NoName} : OpenAs(f)
       \/ c = "Save" /\ Save
       \/ c = "Close" /\ Close
       \/ c = "SaveDataFrTable" /\ \E t \in Tables : SaveDataFrTable(t)
       \/ c = "SetCellData" /\ \E r \in 1 .. MaxRow, v \in Edits : SetCellData(r, v)
       \/ c = "ReadDataToTable" /\ ReadDataToTable

Init ==
    /\ app = "running" /\ alive = FALSE
    /\ pExcel = "null" /\ pWorkbook = "null" /\ sXlsFile = NoName
    /\ bIsOpen = FALSE /\ bIsANewFile = FALSE /\ bIsSaveAlready = FALSE
    /\ nStartRow = 0 /\ nRowCount = 0 /\ book = NoBook /\ excels = 0
    /\ disk \in [Files -> {Absent} \cup Tables]
    /\ table \in Tables
    /\ opens = 0 /\ calls = 0
    /\ wrote = FALSE /\ nameless = 0

Next ==
    /\ app = "running" /\ calls < MaxCalls
    /\ calls' = calls + 1
    /\ \/ \E name \in Files \cup {NoName} : Construct(name)
       \/ \E c \in Guarded \cup Unguarded : Call(c)
       \/ Destroy

Spec == Init /\ [][Next]_vars

----------------------------------------------------------------------------
(* Properties. *)

Rows == Seq(Row)

\* Every variable has its type, and the rows counted when a report was opened are
\* in its sheet.
TypeOK ==
    /\ app \in {"running", "crashed"} /\ alive \in BOOLEAN
    /\ pExcel \in {"null", "live"} /\ pWorkbook \in {"null", "live", "dead"}
    /\ sXlsFile \in Files \cup {NoName}
    /\ bIsOpen \in BOOLEAN /\ bIsANewFile \in BOOLEAN /\ bIsSaveAlready \in BOOLEAN
    /\ nStartRow \in Nat /\ nRowCount \in Nat
    /\ book \in [rows: Rows, path: Files \cup {NoName}]
    /\ bIsOpen => /\ nStartRow >= 1 /\ nRowCount >= 1
                  /\ nStartRow + nRowCount - 1 <= Len(book.rows)
    /\ excels \in Nat
    /\ disk \in [Files -> Rows] /\ table \in Rows \ {<<>>}
    /\ opens \in Nat /\ calls \in Nat
    /\ wrote \in BOOLEAN /\ nameless \in Nat

\* Save and Close look only at the pointers, which may be those of a deleted workbook,
\* and at bIsSaveAlready. As long as no engine is opened without a name, no order of
\* calls, reopening, closing twice and destruction included, uses a deleted workbook.
NoDeadObjectUsed == Installed /\ ~Careless /\ nameless = 0 => app = "running"

\* excelengine.cpp:182, "save the data before closing": when Close or the destructor
\* has closed a report its file holds the rows it had, whether saved before or not,
\* if it was the first the engine opened or its file existed.
ClosedReportIsOnDisk ==
    [][(~MayFail /\ bIsOpen /\ ~bIsOpen' /\ opens' = opens
            /\ (opens = 1 \/ book.path # NoName))
          => disk'[sXlsFile] = book.rows]_vars

\* Excel runs while an engine has it, and is left running behind the program at most
\* once for each opening without a name.
ExcelQuits ==
    /\ Installed /\ alive /\ pExcel = "live" => excels >= 1
    /\ excels <= nameless + (IF bIsOpen THEN 1 ELSE 0)

\* The rows of a sheet that UsedRange spans.
Used(rows) == SubSeq(rows, FirstRow(rows), Len(rows))

\* What is read of a report that nothing was written into since it was opened is, at
\* the beginning of the table, all its file has from the first row in use to the last,
\* whichever engine wrote the file and however far down.
ReadsReport ==
    [][(table' # table /\ ~wrote /\ disk[sXlsFile] # Absent)
          => SubSeq(table', 1, Len(Used(disk[sXlsFile]))) = Used(disk[sXlsFile])]_vars

=============================================================================
