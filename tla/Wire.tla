-------------------------------- MODULE Wire --------------------------------
(***************************************************************************)
(* Bytes, writers and readers shared by the models of the wire formats.    *)
(*                                                                         *)
(* A message is a function from the names of the fields that are set (not  *)
(* zero, not empty, not nil, not false) to sequences of values; the usual  *)
(* value of a field is the sequence holding the field's own name, so that  *)
(* a field read from another field's place shows.  A byte is either a      *)
(* digit of a number the format computes (a length, a flag octet, a tag)   *)
(* or the i-th of the n bytes of a value the format only carries; a reader *)
(* gets a value back only from exactly its own bytes.                      *)
(***************************************************************************)
EXTENDS Integers, Sequences, FiniteSets, SequencesExt, TLC

StrLen == 2            \* the bytes of a string that is not empty
Long130 == "long"      \* a string whose length takes two base-128 digits
Huge300 == "huge"      \* a string whose length takes more than one byte
Garbled == "garbled"   \* what a reader makes of bytes that are not one value

(***************************************************************************)
(* Messages.                                                               *)
(***************************************************************************)
NoFields == [f \in {} |-> <<>>]

Get(m, f) == IF f \in DOMAIN m THEN m[f] ELSE <<>>

Has(m, f) == f \in DOMAIN m

Put(m, f, v) == IF v = <<>> THEN m ELSE (f :> v) @@ m

\* The sets of fields a sample message sets: none, one, all but one or all.
Selections(S) == {{}, S} \cup {{f} : f \in S} \cup {S \ {f} : f \in S}

(***************************************************************************)
(* Bytes.                                                                  *)
(***************************************************************************)
Raw(v, n) == [i \in 1..n |-> [s |-> v, k |-> 0, i |-> i, n |-> n]]

Digit(k) == [s |-> "", k |-> k, i |-> 0, n |-> 0]

Zeros(n) == [i \in 1..n |-> Digit(0)]

\* binary.BigEndian.PutUint16 and PutUint32.
Num(k, n) == [i \in 1..n |-> Digit((k \div 256^(n - i)) % 256)]

IsNum(bs) == \A i \in DOMAIN bs : bs[i].s = ""

NumOf(bs) == FoldLeft(LAMBDA acc, b : 256 * acc + b.k, 0, bs)

\* The value the bytes are, <<>> for the zero value.
ValueOf(bs) ==
    IF bs = Zeros(Len(bs)) THEN <<>>
    ELSE IF bs = Raw(bs[1].s, Len(bs)) THEN <<bs[1].s>>
    ELSE <<Garbled>>

\* The sequences of ss one after the other, halved so that TLC nests little.
RECURSIVE Concat(_)
Concat(ss) ==
    LET half == Len(ss) \div 2
    IN  CASE Len(ss) = 0 -> <<>>
          [] Len(ss) = 1 -> ss[1]
          [] OTHER -> Concat(SubSeq(ss, 1, half)) \o Concat(SubSeq(ss, half + 1, Len(ss)))

(***************************************************************************)
(* Readers: the bytes left, the message so far, and how reading went.      *)
(***************************************************************************)
Reader(bs) == [in |-> bs, m |-> NoFields, st |-> "ok"]

Ok(rd) == rd.st = "ok"

Fail(rd, why) == [rd EXCEPT !.st = why]

\* io.ReadFull of n bytes finds them.
Holds(rd, n) == Len(rd.in) >= n

Ahead(rd, n) == SubSeq(rd.in, 1, n)

Skip(rd, n) == [rd EXCEPT !.in = SubSeq(@, n + 1, Len(@))]

Store(rd, f, v) == [rd EXCEPT !.m = Put(@, f, v)]

\* io.ReadFull tells an empty reader from one that ends too early.
Ended(rd) == IF rd.in = <<>> THEN "eof" ELSE "unexpected eof"

\* A fixed number of bytes into a field.
ReadVal(rd, f, n) ==
    IF Holds(rd, n) THEN Store(Skip(rd, n), f, ValueOf(Ahead(rd, n)))
                    ELSE Fail(rd, Ended(rd))

\* A length of n bytes and that many bytes into a field.
ReadStr(rd, f, n) ==
    IF ~ Holds(rd, n) THEN Fail(rd, Ended(rd))
    ELSE IF ~ IsNum(Ahead(rd, n)) THEN Fail(rd, "garbled length")
    ELSE ReadVal(Skip(rd, n), f, NumOf(Ahead(rd, n)))

WriteVal(m, f, n) == IF Has(m, f) THEN Raw(m[f][1], n) ELSE Zeros(n)

\* The bytes of a string or of a payload.
SizeOf(v) == CASE v = Long130 -> 130
               [] v = Huge300 -> 300
               [] v = "MQTT" -> 4
               [] v = "MQIsdp" -> 6
               [] OTHER -> StrLen

Text(v) == Raw(v, SizeOf(v))

WriteStr(m, f, n) ==
    IF Has(m, f) THEN Num(SizeOf(m[f][1]), n) \o Text(m[f][1]) ELSE Zeros(n)

(***************************************************************************)
(* Flag octets: bits is a sequence of <<field, shift>>.                    *)
(***************************************************************************)
BitsOf(m, bits) ==
    FoldLeft(LAMBDA acc, b : acc + (IF Has(m, b[1]) THEN 2^b[2] ELSE 0), 0, bits)

StoreBits(rd, k, bits) ==
    FoldLeft(LAMBDA acc, b :
                 IF (k \div 2^b[2]) % 2 = 1 THEN Store(acc, b[1], <<b[1]>>) ELSE acc,
             rd, bits)

\* Bit i - 1 for the i-th name.
InOrder(fs) == [i \in DOMAIN fs |-> <<fs[i], i - 1>>]
=============================================================================
