---------------------------- MODULE GlossaryEntries ----------------------------
(***************************************************************************)
(* The entries of the glossary collections: creating, importing, updating  *)
(* and deleting them (app.py, glossary_service.py), over tables that every *)
(* database call opens a connection of its own to                          *)
(* (mysql_glossary_repository.py, glossary_collection_repository.py).      *)
(*                                                                         *)
(* A request awaits each database call, so requests interleave between the *)
(* duplicate check and the write.  Nothing else orders them: no table has  *)
(* a unique key and no call spans a transaction.                           *)
(***************************************************************************)
EXTENDS Integers, FiniteSets, Sequences, SequencesExt

CONSTANTS GlossaryRequests,   \* requests, each handled once
          Collections,        \* collections besides DefaultCollection
          DefaultCollection,  \* "default", whose table is always there
          Words,              \* values of a column
          Detected,           \* [Words -> language that detect_language finds]
          MaxRowId            \* bound: largest id a table gives out

ASSUME GlossaryAssumption ==
    /\ DefaultCollection \notin Collections
    /\ Detected \in [Words -> {"ru", "en", "sr", "zh", "unknown"}]
    /\ MaxRowId \in Nat \ {0}

VARIABLES glRows,    \* [collection -> rows of its table]
          glNext,    \* [collection -> the next id of its table]
          glTables,  \* collections whose table exists
          glRequest  \* [request -> what it wants and how far it is]

glVars == <<glRows, glNext, glTables, glRequest>>

\* Two of the four columns: one of a single language, and the Serbian one.
Columns == {"ru_word", "sb_word"}
Entries == [Columns -> Words]
AllCollections == {DefaultCollection} \cup Collections
RowIds == 1..MaxRowId

\* LEVEL_REQUIRED of the operations: adding a row, rewriting what is there.
RequiredLevel == [create |-> 2, import |-> 3, update |-> 3, delete |-> 3]
Operations == DOMAIN RequiredLevel

\* validate_glossary_value; Serbian is accepted in either script.
FitsColumn(column, word) ==
    \/ Detected[word] = "unknown"
    \/ column = "ru_word" /\ Detected[word] = "ru"
    \/ column = "sb_word" /\ Detected[word] \in {"sr", "ru", "en"}
FitsLanguage(entry) == \A column \in Columns : FitsColumn(column, entry[column])

\* Rows that a new entry would duplicate in some column.
SharesAWord(a, b) == \E column \in Columns : a[column] = b[column]
\* Mutant: only a row that repeats every column is a duplicate.
DuplicatesWhole(rows, entry, except) == {row \in rows : row.id # except /\ row.entry = entry}
Duplicates(rows, entry, except) ==
    {row \in rows : row.id # except /\ SharesAWord(row.entry, entry)}

\* The rows of a file that are not duplicates of an accepted row before them.
Deduplicated(file) ==
    LET accept(rows, entry) == IF \E i \in DOMAIN rows : SharesAWord(rows[i], entry)
                               THEN rows ELSE Append(rows, entry)
    IN  FoldLeft(accept, <<>>, file)

NoRows == <<>>
Request(op, stage, c, id, todo, force) ==
    [op |-> op, stage |-> stage, collection |-> c, id |-> id, todo |-> todo, force |-> force,
     seen |-> {}]
Unborn == Request("none", "unborn", DefaultCollection, 0, NoRows, FALSE)

GlossaryInit ==
    /\ glTables \in {{DefaultCollection}, AllCollections}
    /\ \E filled \in {{}, glTables}, entry \in Entries :
          /\ glRows = [c \in AllCollections |->
                IF c \in filled THEN {[id |-> 1, entry |-> entry, sound |-> TRUE]} ELSE {}]
          /\ glNext = [c \in AllCollections |-> IF c \in filled THEN 2 ELSE 1]
    /\ glRequest = [r \in GlossaryRequests |-> Unborn]

OnlyRequests == UNCHANGED <<glRows, glNext, glTables>>
Steps(r, q) == glRequest' = [glRequest EXCEPT ![r] = q] /\ OnlyRequests

\* What happens to the entry at hand: the request ends, or an import notes it
\* for its answer and turns to the next row.
Over(op, stage) == Request(op, stage, DefaultCollection, 0, NoRows, FALSE)
Ended(q, stage) == Over(q.op, stage)
GoesOn(q, stage, todo, seen) ==
    [op |-> q.op, stage |-> stage, collection |-> q.collection, id |-> q.id, todo |-> todo,
     force |-> q.force, seen |-> seen]
NextRow(q) ==
    IF Len(q.todo) = 1 THEN Ended(q, "answered")
    ELSE GoesOn(q, "check", Tail(q.todo), {})
Refuse(q) == IF q.op = "import" THEN NextRow(q) ELSE Ended(q, "refused")
Crash(q) == IF q.op = "import" THEN NextRow(q) ELSE Ended(q, "failed")

(* ---- a request arrives ---- *)

Arrives(r, request) == glRequest[r].stage = "unborn" /\ Steps(r, request)

\* can_create_collection or can_modify_collection say no: 403.
Forbid(r, op, level) ==
    level < RequiredLevel[op] /\ Arrives(r, Over(op, "refused"))

CreateEntry(r, c, entry, force) ==
    Arrives(r, Request("create", "check", c, 0, <<entry>>, force))

\* An import looks its collection up before it reads the file, drops the rows
\* that repeat an earlier one, and adds the others one by one, never forced.
ImportFile(r, c, file) ==
    Arrives(r, IF c \in glTables
               THEN Request("import", "check", c, 0, Deduplicated(file), FALSE)
               ELSE Over("import", "missing"))

UpdateEntry(r, c, id, entry, force) ==
    Arrives(r, Request("update", "find", c, id, <<entry>>, force))
DeleteEntry(r, c, id) ==
    Arrives(r, Request("delete", "find", c, id, NoRows, FALSE))

(* ---- its database calls ---- *)

HasRow(q) == \E row \in glRows[q.collection] : row.id = q.id

\* find_by_id before an update or a deletion: 404, or on.  A table that does not
\* exist is an error of the database.
FindEntry(r) ==
    LET q == glRequest[r]
    IN  /\ q.stage = "find"
        /\ Steps(r, IF q.collection \notin glTables THEN Ended(q, "failed")
                    ELSE IF ~HasRow(q) THEN Ended(q, "missing")
                    ELSE GoesOn(q, IF q.op = "update" THEN "check" ELSE "write", q.todo, {}))

\* get_entries: a table that is missing, or whose existence could not be
\* checked, gives way to the default one, and the check looks at that.
ReadFrom(c) == {DefaultCollection} \cup (IF c \in glTables THEN {c} ELSE {})

\* An update does not look at its own row.
OwnId(q) == IF q.op = "update" THEN q.id ELSE 0

\* A check is sound if what it read is the table as it stands at the write.
Contents(c) == {<<c, row.id, row.entry>> : row \in glRows[c]}
CurrentCheck(q) == q.seen = Contents(q.collection)

\* _validate_language unless forced, then _check_duplicate over the rows read.
CheckDuplicate(r) ==
    LET q == glRequest[r]
        entry == Head(q.todo)
    IN  /\ q.stage = "check"
        /\ IF ~q.force /\ ~FitsLanguage(entry)
           THEN Steps(r, Refuse(q))
           ELSE \E c \in ReadFrom(q.collection) :
                  Steps(r, IF Duplicates(glRows[c], entry, OwnId(q)) # {} THEN Refuse(q)
                           ELSE GoesOn(q, "write", q.todo, Contents(c)))

\* INSERT: the table gives the id.
InsertEntry(r) ==
    LET q == glRequest[r]
        c == q.collection
        row == [id |-> glNext[c], entry |-> Head(q.todo), sound |-> CurrentCheck(q)]
    IN  /\ q.stage = "write" /\ q.op \in {"create", "import"} /\ c \in glTables
        /\ glNext[c] <= MaxRowId
        /\ glRows' = [glRows EXCEPT ![c] = @ \cup {row}]
        /\ glNext' = [glNext EXCEPT ![c] = @ + 1]
        /\ glRequest' = [glRequest EXCEPT ![r] = IF q.op = "import" THEN NextRow(q)
                                                 ELSE Ended(q, "answered")]
        /\ UNCHANGED glTables

\* UPDATE ... WHERE id: no row, no change; the answer reads the row again.
RewriteEntry(r) ==
    LET q == glRequest[r]
        c == q.collection
        old == {row \in glRows[c] : row.id = q.id}
        new == [id |-> q.id, entry |-> Head(q.todo), sound |-> CurrentCheck(q)]
    IN  /\ q.stage = "write" /\ q.op = "update"
        /\ glRows' = [glRows EXCEPT ![c] = IF old = {} THEN @ ELSE (@ \ old) \cup {new}]
        /\ glRequest' = [glRequest EXCEPT ![r] = GoesOn(q, "read", NoRows, {})]
        /\ UNCHANGED <<glNext, glTables>>
ReadBack(r) ==
    LET q == glRequest[r]
    IN  q.stage = "read" /\ Steps(r, Ended(q, IF HasRow(q) THEN "answered" ELSE "missing"))

\* DELETE ... WHERE id answers TRUE whether a row was there or not.
RemoveEntry(r) ==
    LET q == glRequest[r]
    IN  /\ q.stage = "write" /\ q.op = "delete"
        /\ glRows' = [glRows EXCEPT ![q.collection] = {row \in @ : row.id # q.id}]
        /\ glRequest' = [glRequest EXCEPT ![r] = Ended(q, "answered")]
        /\ UNCHANGED <<glNext, glTables>>

\* A call of the database fails: the request does, or this row of an import.
DatabaseFails(r) ==
    /\ glRequest[r].stage \in {"find", "check", "write", "read"}
    /\ Steps(r, Crash(glRequest[r]))

HandleRequest(r) ==
    \/ FindEntry(r) \/ CheckDuplicate(r) \/ InsertEntry(r)
    \/ RewriteEntry(r) \/ ReadBack(r) \/ RemoveEntry(r) \/ DatabaseFails(r)

\* Files of one or two rows: two are enough to repeat a word and to be
\* interrupted between the rows.
Files == UNION {[1..n -> Entries] : n \in 1..2}

GlossaryNext ==
    \E r \in GlossaryRequests :
        \/ \E op \in Operations, level \in 0..2 : Forbid(r, op, level)
        \/ \E c \in AllCollections :
              \/ \E entry \in Entries, force \in BOOLEAN : CreateEntry(r, c, entry, force)
              \/ \E file \in Files : ImportFile(r, c, file)
              \/ \E id \in RowIds :
                    \/ \E entry \in Entries, force \in BOOLEAN : UpdateEntry(r, c, id, entry, force)
                    \/ DeleteEntry(r, c, id)
        \/ HandleRequest(r)

GlossarySpec == GlossaryInit /\ [][GlossaryNext]_glVars

(* ---- properties ---- *)

\* The types of the tables and of the requests on them.
GlossaryTypeOK ==
    /\ \A c \in AllCollections :
          /\ \A row \in glRows[c] : row.id \in RowIds /\ row.entry \in Entries
          /\ glNext[c] \in 1..MaxRowId + 1
    /\ \A r \in GlossaryRequests :
          /\ glRequest[r].op \in Operations \cup {"none"}
          /\ glRequest[r].stage \in {"unborn", "find", "check", "write", "read",
                                     "answered", "refused", "missing", "failed"}
          /\ glRequest[r].collection \in AllCollections

\* "The duplicate check is never bypassable": two rows of a collection share a
\* word only if one of them was written after a check that had looked at another
\* table, or at this one before somebody changed it.
DuplicatesNeedARace ==
    \A c \in AllCollections : \A a, b \in glRows[c] :
        a # b /\ SharesAWord(a.entry, b.entry) => ~a.sound \/ ~b.sound
=============================================================================
