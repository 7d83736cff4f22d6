-------------------------- MODULE PreparedStmtImpl --------------------------
(***************************************************************************)
(* dbpool::sqlite::PreparedStmtImpl: one statement that inserts its only   *)
(* parameter into a one-column table and one that selects the column, with *)
(* the conversions between the values of the API and the values SQLite     *)
(* stores, and between SQLite's result codes and ReturnCode.               *)
(*                                                                         *)
(* External, as the code uses it: a statement is ready to be bound, on a   *)
(* row, or halted; binding is a misuse unless it is ready; a step of a     *)
(* halted statement resets it first; sqlite3_reset returns the error of    *)
(* the last step.  The query visits the rows as they were inserted; no     *)
(* property depends on their order.  The values are those of small         *)
(* machines: MaxInt32 and MaxInt64 stand for the limits of the two widths, *)
(* UuidLen for 16 bytes.                                                   *)
(***************************************************************************)
EXTENDS Integers, Sequences

CONSTANTS
  MaxInt32, MaxInt64,   \* largest numbers of the two widths
  UuidLen,              \* bytes of a UUID
  MaxRows               \* rows of the table

ASSUME StmtAssumption ==
  /\ {MaxInt32, MaxInt64, UuidLen, MaxRows} \subseteq Nat
  /\ MaxInt32 < MaxInt64
  /\ UuidLen > 0

VARIABLES
  vm,       \* state of the two statements: "ready", "row" or "halted"
  code,     \* the SQLite code of the last step of each since it was reset
  bound,    \* what the parameter of the insert is bound to
  given,    \* the value the client last bound with success
  table,    \* rows: what is stored, and the value given to bind
  cursor,   \* the row the query is on, or the last it was on
  ret,      \* ReturnCode of the last call
  got       \* the last value read: from which value, as which type, outcome

stmtVars == <<vm, code, bound, given, table, cursor, ret, got>>

Stmts == {"insert", "query"}
Int64 == (-MaxInt64 - 1)..MaxInt64
Int32 == (-MaxInt32 - 1)..MaxInt32

\* What getUuid returns, and the byte strings of the API: empty, too short for
\* a UUID, of its length, and longer.
Uuids == [1..UuidLen -> 0..2]
Bytes ==
  {<<>>, <<1>>, [i \in 1..UuidLen |-> 1], [i \in 1..UuidLen |-> 2],
   [i \in 1..(UuidLen + 1) |-> 2]}

\* Dates as text: empty, unreadable, or a time and the zone it is written in;
\* "Z" and an offset (here of one unit) are parsed.
Dates == {<<>>, <<"bad">>} \cup ({1} \X {"Z", "+1", "no zone"})

\* The values of the API, each with the type of the bind function it is for;
\* bindText16 binds what bindText does, in another encoding.
Null == <<"null">>
Values ==
  {Null} \cup ({"bool"} \X BOOLEAN)
    \cup ({"int32"} \X Int32) \cup ({"int64"} \X Int64)
    \cup ({"double"} \X {"0.5"}) \cup ({"text"} \X {"", "a"})
    \cup ({"blob"} \X Bytes) \cup ({"uuid"} \X Bytes)
    \cup ({"date"} \X Dates)

\* How a call ends: it throws, or it returns something.
Throws == <<"throws">>
Returns(v) == <<"returns", v>>

-----------------------------------------------------------------------------
(***************************************************************************)
(* bind and get                                                            *)
(***************************************************************************)

\* The instant a date denotes in UTC.
Instant(d) == IF d[2] = "+1" THEN d[1] - 1 ELSE d[1]

\* Mutant: the offset of a date is parsed and not applied.
StoredDateLocal(d) ==
  CASE d = <<>> -> Null
    [] Len(d) = 2 /\ d[2] \in {"Z", "+1"} -> <<"int", d[1]>>
    [] OTHER -> Throws

\* bindDate: nothing is NULL; parse with "Z", else with an offset, and store
\* the instant.
StoredDate(d) ==
  CASE d = <<>> -> Null
    [] Len(d) = 2 /\ d[2] \in {"Z", "+1"} -> <<"int", Instant(d)>>
    [] OTHER -> Throws

\* What bind may store.  bindBlob and bindUuid, which asks for no length, take
\* the address of the first of no bytes: SQLite sees a null pointer, which is
\* NULL, or some other, an empty blob.
Stored(x) ==
  CASE x = Null -> {Null}
    [] x[1] = "bool" -> {<<"int", IF x[2] THEN 1 ELSE 0>>}
    [] x[1] \in {"int32", "int64"} -> {<<"int", x[2]>>}
    [] x[1] = "double" -> {<<"real", x[2]>>}
    [] x[1] = "text" -> {IF x[2] = "" THEN Null ELSE <<"text", x[2]>>}
    [] x[1] \in {"blob", "uuid"} ->
         {<<"blob", x[2]>>} \cup (IF x[2] = <<>> THEN {Null} ELSE {})
    [] x[1] = "date" -> {StoredDate(x[2])}

\* sqlite3_column_int keeps the low bits of a number.
Narrow(n) == ((n + MaxInt32 + 1) % (2 * (MaxInt32 + 1))) - (MaxInt32 + 1)

\* getUuid copies UuidLen bytes from whatever the column holds: behind a
\* shorter blob lies anything; an empty one has no address and leaves zeros.
UuidOf(bytes) ==
  CASE bytes = <<>> -> {[i \in 1..UuidLen |-> 0]}
    [] Len(bytes) >= UuidLen -> {SubSeq(bytes, 1, UuidLen)}
    [] OTHER -> {u \in Uuids : SubSeq(u, 1, Len(bytes)) = bytes}

\* What the getter of a type, or isNull, may do with a stored value.  Of an
\* empty blob SQLite gives no address; whether getBlob takes that for an error
\* depends on an error code that is undefined after a call that succeeded.
Read(as, stored) ==
  IF as = "null" THEN {Returns(stored = Null)} ELSE
  IF stored = Null THEN {Throws} ELSE
  LET v == stored[2]
  IN CASE as = "blob" /\ v = <<>> -> {Throws, Returns(v)}
       [] as = "int32" -> {Returns(Narrow(v))}
       [] as = "bool" -> {Returns(Narrow(v) # 0)}
       [] as = "date" -> {Returns(<<v, "Z">>)}
       [] as = "uuid" -> {Returns(b) : b \in UuidOf(v)}
       [] OTHER -> {Returns(v)}

\* isNull and the getters, each by the type it asks for.
Getters ==
  {"null", "bool", "int32", "int64", "double", "text", "text16", "blob", "uuid",
   "date"}

\* isNull, and the getters that read what a bind stored without a conversion
\* of SQLite's own between numbers, texts and blobs.
Readable(x) ==
  {"null"} \cup
  CASE x = Null -> {"int64", "text", "blob"}
    [] x[1] \in {"bool", "int32", "int64"} -> {"bool", "int32", "int64"}
    [] x[1] \in {"blob", "uuid"} -> {"blob", "uuid"}
    [] x[1] = "text" -> {"text", "text16"}
    [] OTHER -> {x[1]}

\* Mutant: a code toErrorCode does not know is passed on.
toErrorCodePassesOn(c) ==
  CASE c = "SQLITE_OK" -> "OK"
    [] c = "SQLITE_ROW" -> "Row"
    [] c = "SQLITE_DONE" -> "Done"
    [] c = "SQLITE_CONSTRAINT" -> "ConstraintError"
    [] c = "SQLITE_BUSY" -> "Busy"
    [] OTHER -> c

\* toErrorCode; a code it does not list fails an assertion, without NDEBUG.
toErrorCode(c) ==
  CASE c = "SQLITE_OK" -> "OK"
    [] c = "SQLITE_ROW" -> "Row"
    [] c = "SQLITE_DONE" -> "Done"
    [] c = "SQLITE_CONSTRAINT" -> "ConstraintError"
    [] c = "SQLITE_BUSY" -> "Busy"
    [] OTHER -> "Error"

-----------------------------------------------------------------------------
Init ==
  /\ vm = [s \in Stmts |-> "ready"]
  /\ code = [s \in Stmts |-> "SQLITE_OK"]
  /\ bound = Null
  /\ given = Null
  /\ table = <<>>
  /\ cursor = 0
  /\ ret = "OK"
  /\ got = <<>>

\* bindBlob ... bindText16 of a value, at the index of the parameter or at a
\* wrong one; a call that throws changes nothing.
Bind(x, index) ==
  /\ \E s \in Stored(x) :
       IF s = Throws \/ index # 1 \/ vm["insert"] # "ready"
         THEN ret' = "throws" /\ UNCHANGED <<bound, given>>
         ELSE ret' = "OK" /\ bound' = s /\ given' = x
  /\ got' = <<>>
  /\ UNCHANGED <<vm, code, table, cursor>>

\* execute of the insert.  The table takes a value only once, and another
\* connection may hold the database.
ExecuteInsert(c) ==
  /\ c = "SQLITE_CONSTRAINT" =>
       bound # Null /\ \E i \in DOMAIN table : table[i].stored = bound
  /\ c = "SQLITE_DONE" =>
       /\ Len(table) < MaxRows
       /\ bound = Null \/ \A i \in DOMAIN table : table[i].stored # bound
  /\ table' = IF c = "SQLITE_DONE"
                THEN Append(table, [stored |-> bound, from |-> given])
                ELSE table
  /\ vm' = [vm EXCEPT !["insert"] = "halted"]
  /\ code' = [code EXCEPT !["insert"] = c]
  /\ ret' = toErrorCode(c)
  /\ got' = <<>>
  /\ UNCHANGED <<bound, given, cursor>>

\* execute of the query: the next row, or the end.
ExecuteQuery ==
  LET next == IF vm["query"] = "row" THEN cursor + 1 ELSE 1
      c == IF next <= Len(table) THEN "SQLITE_ROW" ELSE "SQLITE_DONE"
  IN /\ cursor' = IF c = "SQLITE_ROW" THEN next ELSE 0
     /\ vm' = [vm EXCEPT !["query"] = IF c = "SQLITE_ROW" THEN "row" ELSE "halted"]
     /\ code' = [code EXCEPT !["query"] = c]
     /\ ret' = toErrorCode(c)
     /\ got' = <<>>
     /\ UNCHANGED <<bound, given, table>>

\* reset returns what sqlite3_reset does: the last step's error, if any.
Reset(s) ==
  /\ vm' = [vm EXCEPT ![s] = "ready"]
  /\ cursor' = IF s = "query" THEN 0 ELSE cursor
  /\ code' = [code EXCEPT ![s] = "SQLITE_OK"]
  /\ ret' = toErrorCode(
              IF code[s] \in {"SQLITE_ROW", "SQLITE_DONE"} THEN "SQLITE_OK" ELSE code[s])
  /\ got' = <<>>
  /\ UNCHANGED <<bound, given, table>>

\* isNull and getBlob ... getUuid: the index is checked, then NULL, which is
\* also what a statement that is on no row has in its columns.
Get(as, index) ==
  /\ as \in IF vm["query"] = "row" THEN Readable(table[cursor].from) ELSE Getters
  /\ \E out \in IF index # 0 THEN {Throws}
               ELSE Read(as, IF vm["query"] = "row" THEN table[cursor].stored ELSE Null) :
       /\ ret' = IF out = Throws THEN "throws" ELSE "OK"
       /\ got' = IF index = 0 /\ vm["query"] = "row"
                   THEN [from |-> table[cursor].from, as |-> as, out |-> out]
                   ELSE <<>>
  /\ UNCHANGED <<vm, code, bound, given, table, cursor>>

\* exec of a statement SQLite may refuse.
Exec(c) ==
  /\ ret' = toErrorCode(c)
  /\ got' = <<>>
  /\ UNCHANGED <<vm, code, bound, given, table, cursor>>

-----------------------------------------------------------------------------
Next ==
  \/ \E x \in Values, index \in {0, 1} : Bind(x, index)
  \/ \E c \in {"SQLITE_DONE", "SQLITE_CONSTRAINT", "SQLITE_BUSY"} : ExecuteInsert(c)
  \/ ExecuteQuery
  \/ \E s \in Stmts : Reset(s)
  \/ \E as \in Getters, index \in {0, 1} : Get(as, index)
  \/ \E c \in {"SQLITE_OK", "SQLITE_BUSY", "SQLITE_ERROR"} : Exec(c)

Spec == Init /\ [][Next]_stmtVars

-----------------------------------------------------------------------------
\* Types of the variables that are not values of the database.
TypeOK ==
  /\ vm \in [Stmts -> {"ready", "row", "halted"}]
  /\ vm["query"] = "row" <=> cursor \in DOMAIN table
  /\ given \in Values
  /\ Len(table) <= MaxRows
  /\ ret \in {"OK", "Row", "Done", "ConstraintError", "Busy", "Error", "throws"}

\* What the getter of its own type should make of a value: nothing of NULL and
\* of an empty text or date, the same instant in UTC of a date, and of bytes
\* given for a UUID those that fit, whatever the others are.
Meaning(x) ==
  CASE x = Null \/ x = <<"text", "">> \/ x = <<"date", <<>>>> -> {Throws}
    [] x = <<"blob", <<>>>> -> {Throws, Returns(<<>>)}
    [] x[1] = "uuid" ->
         {Returns(u) : u \in {v \in Uuids : \A i \in DOMAIN v \cap DOMAIN x[2] :
                                            v[i] = x[2][i]}}
           \cup (IF x[2] = <<>> THEN {Throws} ELSE {})
    [] x[1] = "date" /\ x[2] # <<>> -> {Returns(<<Instant(x[2]), "Z">>)}
    [] OTHER -> {Returns(x[2])}

\* A row reads back as the value its insert was last bound to with success,
\* whatever calls failed in between, with the getter of the bind function's
\* type; a number also with a narrower getter, if it fits.  isNull foretells
\* which values their getters throw for.
RoundTrip ==
  got # <<>> =>
    /\ got.as = "null" =>
         \E m \in Meaning(got.from) : got.out = Returns(m = Throws)
    /\ got.as # "null" /\ (got.from = Null \/ got.as = got.from[1])
         => got.out \in Meaning(got.from)
    /\ got.as = "text16" => got.out \in Meaning(got.from)
    /\ got.as = "int32" /\ got.from[1] = "int64" /\ got.from[2] \in Int32
         => got.out = Returns(got.from[2])
=============================================================================
