----------------------------- MODULE StmtProofs -----------------------------
(***************************************************************************)
(* The invariants of PreparedStmtImpl: what is read is what was bound, for *)
(* every width of the integers and every length of a UUID.                 *)
(***************************************************************************)
EXTENDS PreparedStmtImpl, SequenceTheorems, TLAPS

(***************************************************************************)
(* The conversions                                                         *)
(***************************************************************************)

\* A number of 32 bits is left as it is.
LEMMA NarrowKeeps ==
  ASSUME NEW n \in Int32
  PROVE  Narrow(n) = n
<1> DEFINE w == 2 * (MaxInt32 + 1)
<1> DEFINE m == n + MaxInt32 + 1
<1>1. MaxInt32 \in Nat
  BY StmtAssumption
<1>2. m \in 0..(w - 1) /\ w \in Nat /\ w > 0
  BY <1>1 DEF Int32
<1>3. m % w = m
  <2> HIDE DEF m, w
  <2> QED BY <1>2, SMTT(20)
<1> QED BY <1>1, <1>3 DEF Narrow, Int32

\* The numbers a Boolean is stored as stay apart.  In numbers of one bit there
\* is no 1, and it becomes -1.
LEMMA NarrowBits == Narrow(0) = 0 /\ Narrow(1) # 0
<1>1. MaxInt32 \in Nat
  BY StmtAssumption
<1>2. Narrow(0) = 0
  BY <1>1, NarrowKeeps DEF Int32
<1>3. CASE MaxInt32 > 0
  BY <1>1, <1>2, <1>3, NarrowKeeps DEF Int32
<1>4. CASE MaxInt32 = 0
  <2>1. Narrow(1) = (2 % 2) - 1
    BY <1>4 DEF Narrow
  <2> QED BY <1>2, <2>1
<1> QED BY <1>1, <1>2, <1>3, <1>4

\* getUuid returns some UUID, with the bytes the column has as far as they go.
LEMMA UuidKeeps ==
  ASSUME NEW b \in Bytes, NEW u \in UuidOf(b)
  PROVE  u \in Uuids /\ \A i \in DOMAIN u \cap DOMAIN b : u[i] = b[i]
<1>1. UuidLen \in Nat /\ UuidLen > 0
  BY StmtAssumption
<1>2. b \in Seq(0..2)
  <2>1. /\ [i \in 1..UuidLen |-> 1] \in Seq(0..2)
        /\ [i \in 1..UuidLen |-> 2] \in Seq(0..2)
        /\ [i \in 1..(UuidLen + 1) |-> 2] \in Seq(0..2)
    BY <1>1
  <2>2. <<>> \in Seq(0..2) /\ <<1>> \in Seq(0..2)
    OBVIOUS
  <2> QED BY <2>1, <2>2 DEF Bytes
<1>3. CASE b = <<>>
  <2>0. ~(Len(b) >= UuidLen)
    BY <1>1, <1>3
  <2>1. UuidOf(b) = {[i \in 1..UuidLen |-> 0]}
    BY <1>3, <2>0 DEF UuidOf
  <2>2. u = [i \in 1..UuidLen |-> 0]
    BY <2>1
  <2>3. DOMAIN b = {}
    BY <1>3
  <2> QED BY <2>2, <2>3 DEF Uuids
<1>4. CASE b # <<>> /\ Len(b) >= UuidLen
  <2>1. u = SubSeq(b, 1, UuidLen)
    BY <1>4 DEF UuidOf
  <2>2. u \in Seq(0..2) /\ Len(u) = UuidLen /\ \A i \in 1..UuidLen : u[i] = b[i]
    BY <1>1, <1>2, <1>4, <2>1, SubSeqProperties
  <2>3. u \in [1..UuidLen -> 0..2] /\ DOMAIN u = 1..UuidLen
    BY <1>1, <2>2
  <2> QED BY <2>2, <2>3 DEF Uuids
<1>5. CASE b # <<>> /\ ~(Len(b) >= UuidLen)
  <2>1. u \in Uuids /\ SubSeq(u, 1, Len(b)) = b
    BY <1>5 DEF UuidOf
  <2>2. u \in Seq(0..2) /\ Len(u) = UuidLen /\ Len(b) \in 1..UuidLen
        /\ DOMAIN b = 1..Len(b)
    BY <1>1, <1>2, <1>5, <2>1, LenProperties, EmptySeq DEF Uuids
  <2>3. \A i \in 1..Len(b) : u[i] = b[i]
    BY <2>1, <2>2, SubSeqProperties
  <2> QED BY <2>1, <2>2, <2>3
<1> QED BY <1>3, <1>4, <1>5

\* It returns something of every blob.
LEMMA UuidExists ==
  ASSUME NEW b \in Bytes
  PROVE  \E u \in UuidOf(b) : TRUE
<1>1. UuidLen \in Nat /\ UuidLen > 0
  BY StmtAssumption
<1>2. CASE b = <<>>
  BY <1>2 DEF UuidOf
<1>3. CASE b # <<>> /\ Len(b) >= UuidLen
  BY <1>3 DEF UuidOf
<1>4. CASE b # <<>> /\ ~(Len(b) >= UuidLen)
  <2>1. b = <<1>> /\ 1 < UuidLen
    BY <1>1, <1>4 DEF Bytes
  <2> DEFINE u == [i \in 1..UuidLen |-> 1]
  <2>2. u \in Uuids /\ u \in Seq(0..2) /\ Len(u) = UuidLen /\ u[1] = 1
    BY <1>1 DEF Uuids
  <2>3. SubSeq(u, 1, 1) = <<1>>
    <3> HIDE DEF u
    <3>1. /\ SubSeq(u, 1, 1) \in Seq(0..2) /\ Len(SubSeq(u, 1, 1)) = 1
          /\ SubSeq(u, 1, 1)[1] = 1
      BY <1>1, <2>1, <2>2, SubSeqProperties
    <3>2. <<1>> \in Seq(0..2) /\ Len(<<1>>) = 1 /\ <<1>>[1] = 1
      OBVIOUS
    <3> DEFINE one == SubSeq(u, 1, 1)
               two == <<1>>
    <3>3. /\ one \in Seq(0..2) /\ two \in Seq(0..2) /\ Len(one) = Len(two)
          /\ \A i \in 1..Len(one) : one[i] = two[i]
      BY <3>1, <3>2
    <3> HIDE DEF one, two
    <3>4. one = two
      BY <3>3, SeqEqual
    <3> QED BY <3>4 DEF one, two
  <2> QED BY <1>4, <2>1, <2>2, <2>3 DEF UuidOf
<1> QED BY <1>2, <1>3, <1>4

\* A value with its type is a pair.
LEMMA Typed == \A type, S : \A x \in {type} \X S : \E v \in S : x = <<type, v>>
OBVIOUS

\* What a value may be, one case per bind function and per value the code
\* treats specially.
LEMMA ValueCases ==
  ASSUME NEW x \in Values
  PROVE  \/ x = Null
         \/ x = <<"bool", TRUE>>
         \/ x = <<"bool", FALSE>>
         \/ \E n \in Int32 : x = <<"int32", n>>
         \/ \E n \in Int64 : x = <<"int64", n>>
         \/ x = <<"double", "0.5">>
         \/ x = <<"text", "">>
         \/ x = <<"text", "a">>
         \/ \E b \in Bytes : x = <<"blob", b>>
         \/ \E b \in Bytes : x = <<"uuid", b>>
         \/ \E d \in Dates : x = <<"date", d>>
<1>1. \/ x = Null
      \/ x \in {"bool"} \X BOOLEAN
      \/ x \in {"int32"} \X Int32
      \/ x \in {"int64"} \X Int64
      \/ x \in {"double"} \X {"0.5"}
      \/ x \in {"text"} \X {"", "a"}
      \/ x \in {"blob"} \X Bytes
      \/ x \in {"uuid"} \X Bytes
      \/ x \in {"date"} \X Dates
  BY Zenon DEF Values
<1>2. CASE x \in {"bool"} \X BOOLEAN
  <2>1. PICK v \in BOOLEAN : x = <<"bool", v>>
    BY <1>2, Typed
  <2>2. v = TRUE \/ v = FALSE
    OBVIOUS
  <2> QED BY <2>1, <2>2, Zenon
<1>3. CASE x \in {"text"} \X {"", "a"}
  <2> DEFINE Texts == {"", "a"}
  <2>0. x \in {"text"} \X Texts
    BY <1>3
  <2> HIDE DEF Texts
  <2>2. \E v \in Texts : x = <<"text", v>>
    BY <2>0, Typed
  <2>1. \E v \in {"", "a"} : x = <<"text", v>>
    BY <2>2 DEF Texts
  <2> QED BY <2>1, Zenon
<1>4. CASE x \in {"double"} \X {"0.5"}
  <2>1. \E v \in {"0.5"} : x = <<"double", v>>
    BY <1>4, Typed
  <2> QED BY <2>1, Zenon
<1>5. CASE x \in {"uuid"} \X Bytes
  <2>1. \E v \in Bytes : x = <<"uuid", v>>
    BY <1>5, Typed
  <2> QED BY <2>1, Zenon
<1>6. CASE x \in {"int32"} \X Int32
  <2>1. \E v \in Int32 : x = <<"int32", v>>
    BY <1>6, Typed
  <2> QED BY <2>1, Zenon
<1>7. CASE x \in {"int64"} \X Int64
  <2>1. \E v \in Int64 : x = <<"int64", v>>
    BY <1>7, Typed
  <2> QED BY <2>1, Zenon
<1>8. CASE x \in {"blob"} \X Bytes
  <2>1. \E v \in Bytes : x = <<"blob", v>>
    BY <1>8, Typed
  <2> QED BY <2>1, Zenon
<1>9. CASE x \in {"date"} \X Dates
  <2>1. \E v \in Dates : x = <<"date", v>>
    BY <1>9, Typed
  <2> QED BY <2>1, Zenon
<1> QED BY <1>1, <1>2, <1>3, <1>4, <1>5, <1>6, <1>7, <1>8, <1>9, Zenon

\* What RoundTrip says of a value, the getter that read it and the outcome.
Faithful(x, as, out) ==
  /\ as = "null" => \E m \in Meaning(x) : out = Returns(m = Throws)
  /\ as # "null" /\ (x = Null \/ as = x[1]) => out \in Meaning(x)
  /\ as = "text16" => out \in Meaning(x)
  /\ as = "int32" /\ x[1] = "int64" /\ x[2] \in Int32 => out = Returns(x[2])

\* It is enough to know one value the getter may return, whether it is a value
\* at all, and the outcome.
LEMMA FaithfulIf ==
  ASSUME NEW x, NEW as, NEW out, NEW m \in Meaning(x),
         as = "null" => \/ out = Returns(TRUE) /\ m = Throws
                        \/ out = Returns(FALSE) /\ m # Throws,
         as # "null" /\ (x = Null \/ as = x[1]) => out \in Meaning(x),
         as = "text16" => out \in Meaning(x),
         as = "int32" /\ x[1] = "int64" /\ x[2] \in Int32 => out = Returns(x[2])
  PROVE  Faithful(x, as, out)
<1>1. ASSUME as = "null"
      PROVE  out = Returns(m = Throws)
  <2>1. CASE out = Returns(TRUE) /\ m = Throws
    <3>1. (m = Throws) = TRUE
      BY <2>1
    <3> QED BY <2>1, <3>1, Zenon
  <2>2. CASE out = Returns(FALSE) /\ m # Throws
    <3>1. (m = Throws) = FALSE
      BY <2>2
    <3> QED BY <2>2, <3>1, Zenon
  <2> QED BY <1>1, <2>1, <2>2
<1> QED BY <1>1, Zenon DEF Faithful

\* What is returned is not the exception.
LEMMA ReturnsIsNotThrows == \A v : Returns(v) # Throws
BY DEF Returns, Throws

\* A value that bind stores reads back, with every getter it can be read with.
LEMMA ReadBack ==
  ASSUME NEW x \in Values, NEW s \in Stored(x), s # Throws,
         NEW as \in Readable(x), NEW out \in Read(as, s)
  PROVE  Faithful(x, as, out)
<1>1. CASE x = Null
  <2>1. s = Null /\ Throws \in Meaning(x)
    BY <1>1 DEF Stored, Meaning, Null
  <2>2. as \in {"null", "int64", "text", "blob"}
    BY <1>1 DEF Readable, Null
  <2>3. as = "null" => out = Returns(TRUE)
    BY <2>1 DEF Read
  <2>4. as # "null" => out = Throws
    BY <2>1 DEF Read
  <2> QED BY <1>1, <2>1, <2>2, <2>3, <2>4, FaithfulIf DEF Null
<1>2. CASE x = <<"bool", TRUE>>
  <2>1. s = <<"int", 1>> /\ Returns(TRUE) \in Meaning(x)
    BY <1>2 DEF Stored, Meaning, Null
  <2>2. as \in {"null", "bool", "int32", "int64"}
    BY <1>2 DEF Readable, Null
  <2>3. as = "null" => out = Returns(FALSE)
    BY <2>1 DEF Read, Null
  <2>4. as = "bool" => out = Returns(TRUE)
    BY <2>1, NarrowBits DEF Read, Null
  <2>5. x # Null /\ x[1] = "bool" /\ as # "text16"
    BY <1>2, <2>2 DEF Null
  <2> QED BY <2>1, <2>3, <2>4, <2>5, FaithfulIf, ReturnsIsNotThrows
<1>3. CASE x = <<"bool", FALSE>>
  <2>1. s = <<"int", 0>> /\ Returns(FALSE) \in Meaning(x)
    BY <1>3 DEF Stored, Meaning, Null
  <2>2. as \in {"null", "bool", "int32", "int64"}
    BY <1>3 DEF Readable, Null
  <2>3. as = "null" => out = Returns(FALSE)
    BY <2>1 DEF Read, Null
  <2>4. as = "bool" => out = Returns(FALSE)
    BY <2>1, NarrowBits DEF Read, Null
  <2>5. x # Null /\ x[1] = "bool" /\ as # "text16"
    BY <1>3, <2>2 DEF Null
  <2> QED BY <2>1, <2>3, <2>4, <2>5, FaithfulIf, ReturnsIsNotThrows
<1>4. ASSUME NEW n \in Int32, x = <<"int32", n>>
      PROVE  Faithful(x, as, out)
  <2>1. s = <<"int", n>> /\ Returns(n) \in Meaning(x)
    BY <1>4 DEF Stored, Meaning, Null
  <2>2. as \in {"null", "bool", "int32", "int64"}
    BY <1>4 DEF Readable, Null
  <2>3. as = "null" => out = Returns(FALSE)
    BY <2>1 DEF Read, Null
  <2>4. as = "int32" => out = Returns(n)
    BY <2>1, NarrowKeeps DEF Read, Null
  <2>5. x # Null /\ x[1] = "int32" /\ as # "text16"
    BY <1>4, <2>2 DEF Null
  <2> QED BY <2>1, <2>3, <2>4, <2>5, FaithfulIf, ReturnsIsNotThrows
<1>5. ASSUME NEW n \in Int64, x = <<"int64", n>>
      PROVE  Faithful(x, as, out)
  <2>1. s = <<"int", n>> /\ Returns(n) \in Meaning(x)
    BY <1>5 DEF Stored, Meaning, Null
  <2>2. as \in {"null", "bool", "int32", "int64"}
    BY <1>5 DEF Readable, Null
  <2>3. as = "null" => out = Returns(FALSE)
    BY <2>1 DEF Read, Null
  <2>4. as = "int64" => out = Returns(n)
    BY <2>1 DEF Read, Null
  <2>5. as = "int32" /\ n \in Int32 => out = Returns(n)
    BY <2>1, NarrowKeeps DEF Read, Null
  <2>6. x # Null /\ x[1] = "int64" /\ x[2] = n /\ as # "text16"
    BY <1>5, <2>2 DEF Null
  <2> QED BY <2>1, <2>3, <2>4, <2>5, <2>6, FaithfulIf, ReturnsIsNotThrows
<1>6. CASE x = <<"double", "0.5">>
  <2>1. s = <<"real", "0.5">> /\ Returns("0.5") \in Meaning(x)
    BY <1>6 DEF Stored, Meaning, Null
  <2>2. as \in {"null", "double"}
    BY <1>6 DEF Readable, Null
  <2>3. as = "null" => out = Returns(FALSE)
    BY <2>1 DEF Read, Null
  <2>4. as = "double" => out = Returns("0.5")
    BY <2>1 DEF Read, Null
  <2>5. x # Null /\ x[1] = "double"
    BY <1>6 DEF Null
  <2> QED BY <2>1, <2>2, <2>3, <2>4, <2>5, FaithfulIf, ReturnsIsNotThrows
<1>7. CASE x = <<"text", "">>
  <2>1. s = Null /\ Throws \in Meaning(x)
    BY <1>7 DEF Stored, Meaning, Null
  <2>2. as \in {"null", "text", "text16"}
    BY <1>7 DEF Readable, Null
  <2>3. as = "null" => out = Returns(TRUE)
    BY <2>1 DEF Read
  <2>4. as # "null" => out = Throws
    BY <2>1 DEF Read
  <2> QED BY <2>1, <2>2, <2>3, <2>4, FaithfulIf
<1>8. CASE x = <<"text", "a">>
  <2>1. s = <<"text", "a">> /\ Returns("a") \in Meaning(x)
    BY <1>8 DEF Stored, Meaning, Null
  <2>2. as \in {"null", "text", "text16"}
    BY <1>8 DEF Readable, Null
  <2>3. as = "null" => out = Returns(FALSE)
    BY <2>1 DEF Read, Null
  <2>4. as \in {"text", "text16"} => out = Returns("a")
    BY <2>1 DEF Read, Null
  <2> QED BY <2>1, <2>2, <2>3, <2>4, FaithfulIf, ReturnsIsNotThrows
<1>9. ASSUME NEW b \in Bytes, x = <<"blob", b>>
      PROVE  Faithful(x, as, out)
  <2>1. as \in {"null", "blob", "uuid"} /\ x # Null /\ x[1] = "blob"
    BY <1>9 DEF Readable, Null
  <2>2. Returns(b) \in Meaning(x)
    BY <1>9 DEF Meaning, Null
  <2>3. CASE s = <<"blob", b>>
    <3>1. as = "null" => out = Returns(FALSE)
      BY <2>3 DEF Read, Null
    <3>2. as = "blob" => out = Returns(b) \/ (b = <<>> /\ out = Throws)
      BY <2>3 DEF Read, Null
    <3>3. b = <<>> => Throws \in Meaning(x)
      BY <1>9 DEF Meaning
    <3> QED BY <2>1, <2>2, <3>1, <3>2, <3>3, FaithfulIf, ReturnsIsNotThrows
  <2>4. CASE b = <<>> /\ s = Null
    <3>1. as = "null" => out = Returns(TRUE)
      BY <2>4 DEF Read
    <3>2. as # "null" => out = Throws
      BY <2>4 DEF Read
    <3>3. Throws \in Meaning(x)
      BY <1>9, <2>4 DEF Meaning
    <3> QED BY <2>1, <3>1, <3>2, <3>3, FaithfulIf
  <2>5. s = <<"blob", b>> \/ (b = <<>> /\ s = Null)
    BY <1>9 DEF Stored, Null
  <2> QED BY <2>3, <2>4, <2>5
<1>10. ASSUME NEW b \in Bytes, x = <<"uuid", b>>
       PROVE  Faithful(x, as, out)
  <2>1. as \in {"null", "blob", "uuid"} /\ x # Null /\ x[1] = "uuid"
    BY <1>10 DEF Readable, Null
  <2>2. \A u \in UuidOf(b) : Returns(u) \in Meaning(x)
    <3>1. ASSUME NEW u \in UuidOf(b) PROVE Returns(u) \in Meaning(x)
      <4>1. u \in {v \in Uuids : \A i \in DOMAIN v \cap DOMAIN x[2] : v[i] = x[2][i]}
        BY <1>10, UuidKeeps
      <4> QED BY <1>10, <4>1 DEF Meaning, Null
    <3> QED BY <3>1
  <2>3. CASE s = <<"blob", b>>
    <3>1. as = "null" => out = Returns(FALSE)
      BY <2>3 DEF Read, Null
    <3>2. as = "uuid" => \E u \in UuidOf(b) : out = Returns(u)
      BY <2>3 DEF Read, Null
    <3>3. \E u \in UuidOf(b) : TRUE
      BY UuidExists
    <3> QED BY <2>1, <2>2, <3>1, <3>2, <3>3, FaithfulIf, ReturnsIsNotThrows
  <2>4. CASE b = <<>> /\ s = Null
    <3>1. as = "null" => out = Returns(TRUE)
      BY <2>4 DEF Read
    <3>2. as # "null" => out = Throws
      BY <2>4 DEF Read
    <3>3. Throws \in Meaning(x)
      BY <1>10, <2>4 DEF Meaning, Null
    <3> QED BY <2>1, <3>1, <3>2, <3>3, FaithfulIf
  <2>5. s = <<"blob", b>> \/ (b = <<>> /\ s = Null)
    BY <1>10 DEF Stored, Null
  <2> QED BY <2>3, <2>4, <2>5
<1>11. ASSUME NEW d \in Dates, x = <<"date", d>>
       PROVE  Faithful(x, as, out)
  <2>1. as \in {"null", "date"} /\ x # Null /\ x[1] = "date"
    BY <1>11 DEF Readable, Null
  <2>2. s = StoredDate(d)
    BY <1>11 DEF Stored, Null
  <2>3. CASE d = <<>>
    <3>1. s = Null
      BY <2>2, <2>3 DEF StoredDate
    <3>2. Throws \in Meaning(x)
      BY <1>11, <2>3 DEF Meaning
    <3>3. as = "null" => out = Returns(TRUE)
      BY <3>1 DEF Read
    <3>4. as # "null" => out = Throws
      BY <3>1 DEF Read
    <3> QED BY <2>1, <3>2, <3>3, <3>4, FaithfulIf
  <2>4. CASE d # <<>>
    <3>1. s = <<"int", Instant(d)>>
      BY <2>2, <2>4 DEF StoredDate
    <3>2. Returns(<<Instant(d), "Z">>) \in Meaning(x)
      BY <1>11, <2>4 DEF Meaning, Null
    <3>3. as = "null" => out = Returns(FALSE)
      BY <3>1 DEF Read, Null
    <3>4. as = "date" => out = Returns(<<Instant(d), "Z">>)
      BY <3>1 DEF Read, Null
    <3> QED BY <2>1, <3>2, <3>3, <3>4, FaithfulIf, ReturnsIsNotThrows
  <2> QED BY <2>3, <2>4
<1> QED BY ValueCases, <1>1, <1>2, <1>3, <1>4, <1>5, <1>6, <1>7, <1>8, <1>9,
          <1>10, <1>11, Zenon

(***************************************************************************)
(* The statements                                                          *)
(***************************************************************************)

\* Rows that bind can have put together: a value, and what it stores of it.
Rows == {r \in [stored : UNION {Stored(x) : x \in Values}, from : Values] :
           r.stored \in Stored(r.from) /\ r.stored # Throws}

\* The parameter and every row are a value and what bind stores of it, the
\* query is on a row of the table or nowhere, and what was read last is an
\* outcome of reading a row.
StmtInvariant ==
  /\ TypeOK
  /\ [stored |-> bound, from |-> given] \in Rows
  /\ table \in Seq(Rows)
  /\ vm["query"] # "row" => cursor = 0
  /\ got # <<>> =>
       \E r \in Rows : \E as \in Readable(r.from) : \E out \in Read(as, r.stored) :
         got = [from |-> r.from, as |-> as, out |-> out]

\* Every code is some ReturnCode.
LEMMA ReturnCodes ==
  \A c : toErrorCode(c) \in {"OK", "Row", "Done", "ConstraintError", "Busy", "Error"}
BY DEF toErrorCode

\* Nothing is bound and there is no row at the start.
LEMMA StmtInit == Init => StmtInvariant
<1> SUFFICES ASSUME Init
             PROVE  StmtInvariant
  OBVIOUS
<1>1. Null \in Values /\ Null \in Stored(Null) /\ Null # Throws
  BY DEF Values, Stored, Null, Throws
<1>2. [stored |-> Null, from |-> Null] \in Rows
  BY <1>1 DEF Rows
<1>3. table \in Seq(Rows) /\ Len(table) = 0
  BY DEF Init
<1>4. TypeOK
  BY <1>1, <1>3, StmtAssumption DEF Init, TypeOK, Stmts
<1> QED BY <1>2, <1>3, <1>4 DEF Init, StmtInvariant, Stmts

\* bind: the parameter becomes what the value stores, or nothing changes.
LEMMA BindKeeps ==
  ASSUME StmtInvariant, NEW x \in Values, NEW index \in {0, 1}, Bind(x, index)
  PROVE  StmtInvariant'
<1>1. [stored |-> bound, from |-> given]' \in Rows
  <2>1. PICK s \in Stored(x) :
          IF s = Throws \/ index # 1 \/ vm["insert"] # "ready"
            THEN ret' = "throws" /\ UNCHANGED <<bound, given>>
            ELSE ret' = "OK" /\ bound' = s /\ given' = x
    BY DEF Bind
  <2>2. CASE UNCHANGED <<bound, given>>
    BY <2>2 DEF StmtInvariant
  <2>3. CASE s # Throws /\ bound' = s /\ given' = x
    BY <2>3 DEF Rows
  <2> QED BY <2>1, <2>2, <2>3
<1>2. given' \in Values
  BY <1>1 DEF Rows
<1>3. ret' \in {"OK", "throws"}
  BY DEF Bind
<1>4. TypeOK'
  BY <1>2, <1>3 DEF StmtInvariant, TypeOK, Bind
<1> QED BY <1>1, <1>4 DEF StmtInvariant, Bind

\* execute of the insert: the row that is added is the parameter.
LEMMA ExecuteInsertKeeps ==
  ASSUME StmtInvariant, NEW c, ExecuteInsert(c)
  PROVE  StmtInvariant'
<1> DEFINE row == [stored |-> bound, from |-> given]
<1>1. row \in Rows /\ table \in Seq(Rows)
  BY DEF StmtInvariant
<1>2. table' = IF c = "SQLITE_DONE" THEN Append(table, row) ELSE table
  BY DEF ExecuteInsert
<1> HIDE DEF row
<1>3. table' \in Seq(Rows) /\ Len(table') >= Len(table)
  BY <1>1, <1>2
<1>4. Len(table') <= MaxRows
  BY <1>1, <1>2, StmtAssumption DEF StmtInvariant, TypeOK, ExecuteInsert
<1>5. vm' \in [Stmts -> {"ready", "row", "halted"}] /\ vm'["query"] = vm["query"]
  BY DEF StmtInvariant, TypeOK, ExecuteInsert, Stmts
<1>6. cursor' \in DOMAIN table' <=> vm'["query"] = "row"
  BY <1>1, <1>3, <1>5 DEF StmtInvariant, TypeOK, ExecuteInsert
<1>7. TypeOK'
  BY <1>4, <1>5, <1>6, ReturnCodes DEF StmtInvariant, TypeOK, ExecuteInsert
<1> QED BY <1>3, <1>5, <1>7 DEF StmtInvariant, ExecuteInsert

\* execute of the query: to a row of the table, or off the table.
LEMMA ExecuteQueryKeeps ==
  ASSUME StmtInvariant, ExecuteQuery
  PROVE  StmtInvariant'
<1> DEFINE next == IF vm["query"] = "row" THEN cursor + 1 ELSE 1
<1>1. table \in Seq(Rows) /\ Len(table) \in Nat /\ DOMAIN table = 1..Len(table)
  BY DEF StmtInvariant
<1>2. next \in Nat /\ next >= 1
  BY <1>1 DEF StmtInvariant, TypeOK
<1>3. \/ /\ next \in DOMAIN table
         /\ cursor' = next
         /\ vm' = [vm EXCEPT !["query"] = "row"]
      \/ /\ cursor' = 0
         /\ vm' = [vm EXCEPT !["query"] = "halted"]
  <2>1. CASE next <= Len(table)
    BY <1>1, <1>2, <2>1 DEF ExecuteQuery
  <2>2. CASE ~(next <= Len(table))
    BY <2>2 DEF ExecuteQuery
  <2> QED BY <2>1, <2>2
<1> HIDE DEF next
<1>4. TypeOK'
  BY <1>1, <1>2, <1>3, ReturnCodes DEF StmtInvariant, TypeOK, ExecuteQuery, Stmts
<1>5. vm'["query"] # "row" => cursor' = 0
  BY <1>3 DEF StmtInvariant, TypeOK, Stmts
<1> QED BY <1>4, <1>5 DEF StmtInvariant, ExecuteQuery

\* reset: off the table.
LEMMA ResetKeeps ==
  ASSUME StmtInvariant, NEW s \in Stmts, Reset(s)
  PROVE  StmtInvariant'
<1>1. table \in Seq(Rows) /\ DOMAIN table = 1..Len(table)
  BY DEF StmtInvariant
<1>2. vm' \in [Stmts -> {"ready", "row", "halted"}]
  BY DEF StmtInvariant, TypeOK, Reset
<1>3. \/ s = "query" /\ vm'["query"] = "ready" /\ cursor' = 0
      \/ s # "query" /\ vm'["query"] = vm["query"] /\ cursor' = cursor
  BY DEF StmtInvariant, TypeOK, Reset, Stmts
<1>4. TypeOK'
  BY <1>1, <1>2, <1>3, ReturnCodes DEF StmtInvariant, TypeOK, Reset
<1> QED BY <1>3, <1>4 DEF StmtInvariant, Reset

\* get: what is remembered is an outcome of reading the row the query is on.
LEMMA GetKeeps ==
  ASSUME StmtInvariant, NEW as \in Getters, NEW index \in {0, 1}, Get(as, index)
  PROVE  StmtInvariant'
<1>1. ASSUME got' # <<>>
      PROVE  \E r \in Rows : \E a \in Readable(r.from) : \E o \in Read(a, r.stored) :
               got' = [from |-> r.from, as |-> a, out |-> o]
  <2>1. index = 0 /\ vm["query"] = "row"
    BY <1>1 DEF Get
  <2>2. as \in Readable(table[cursor].from)
    BY <2>1 DEF Get
  <2>3. PICK out \in Read(as, table[cursor].stored) :
          got' = [from |-> table[cursor].from, as |-> as, out |-> out]
    BY <2>1 DEF Get
  <2>4. table[cursor] \in Rows
    <3>1. cursor \in DOMAIN table /\ table \in Seq(Rows)
      BY <2>1 DEF StmtInvariant, TypeOK
    <3> QED BY <3>1
  <2> QED BY <2>2, <2>3, <2>4
<1>2. ret' \in {"OK", "throws"}
  BY DEF Get
<1>3. TypeOK'
  BY <1>2 DEF StmtInvariant, TypeOK, Get
<1> QED BY <1>1, <1>3 DEF StmtInvariant, Get

\* Every step keeps the invariant; exec touches nothing it speaks of.
LEMMA StmtStep == StmtInvariant /\ [Next]_stmtVars => StmtInvariant'
<1> SUFFICES ASSUME StmtInvariant, [Next]_stmtVars
             PROVE  StmtInvariant'
  OBVIOUS
<1>1. CASE \E x \in Values, index \in {0, 1} : Bind(x, index)
  BY <1>1, BindKeeps
<1>2. CASE \E c \in {"SQLITE_DONE", "SQLITE_CONSTRAINT", "SQLITE_BUSY"} :
             ExecuteInsert(c)
  BY <1>2, ExecuteInsertKeeps
<1>3. CASE ExecuteQuery
  BY <1>3, ExecuteQueryKeeps
<1>4. CASE \E s \in Stmts : Reset(s)
  BY <1>4, ResetKeeps
<1>5. CASE \E as \in Getters, index \in {0, 1} : Get(as, index)
  BY <1>5, GetKeeps
<1>6. ASSUME NEW c, Exec(c)
      PROVE  StmtInvariant'
  BY <1>6, ReturnCodes DEF StmtInvariant, TypeOK, Exec
<1>7. CASE UNCHANGED stmtVars
  BY <1>7 DEF StmtInvariant, TypeOK, stmtVars
<1> QED BY <1>1, <1>2, <1>3, <1>4, <1>5, <1>6, <1>7 DEF Next

\* Rows are always values with what bind stores of them.
LEMMA StmtInvariantHolds == Spec => []StmtInvariant
BY StmtInit, StmtStep, PTL DEF Spec

-----------------------------------------------------------------------------
(***************************************************************************)
(* The properties of the module                                            *)
(***************************************************************************)

\* The statements' states and the place of the query fit each other, and every
\* call ends in a ReturnCode or an exception.
THEOREM StmtTypesOK == Spec => []TypeOK
<1>1. StmtInvariant => TypeOK
  BY DEF StmtInvariant
<1> QED BY <1>1, StmtInvariantHolds, PTL

\* What is read is what was bound: a get returns the value its row's insert was
\* last bound to with success, whatever failed in between.
THEOREM ReadsBackWhatWasBound == Spec => []RoundTrip
<1>1. StmtInvariant => RoundTrip
  <2> SUFFICES ASSUME StmtInvariant, got # <<>>
               PROVE  Faithful(got.from, got.as, got.out)
    BY Zenon DEF RoundTrip, Faithful
  <2>1. PICK r \in Rows : \E as \in Readable(r.from) : \E out \in Read(as, r.stored) :
          got = [from |-> r.from, as |-> as, out |-> out]
    BY DEF StmtInvariant
  <2>2. PICK as \in Readable(r.from) : \E out \in Read(as, r.stored) :
          got = [from |-> r.from, as |-> as, out |-> out]
    BY <2>1
  <2>3. PICK out \in Read(as, r.stored) :
          got = [from |-> r.from, as |-> as, out |-> out]
    BY <2>2
  <2>4. r.from \in Values /\ r.stored \in Stored(r.from) /\ r.stored # Throws
    BY DEF Rows
  <2>5. Faithful(r.from, as, out)
    BY <2>4, ReadBack
  <2>6. got.from = r.from /\ got.as = as /\ got.out = out
    BY <2>3
  <2> QED BY <2>5, <2>6
<1> QED BY <1>1, StmtInvariantHolds, PTL
=============================================================================
