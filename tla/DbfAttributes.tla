---------------------------- MODULE DbfAttributes ----------------------------
(***************************************************************************)
(* The attributes of the features of a shapefile: the .dbf file that       *)
(* CreateField(), AddFeature() and AddAttr...() write and GetFieldByIdx()  *)
(* and GetFieldByName() read (include/geotypes-shp.cpp), with the          *)
(* conversions of numbers to text and back (include/tinybase-strings.c).   *)
(*                                                                         *)
(* The file is its field descriptors and the characters behind its header. *)
(* A real number <<m, k>> is m * 10^k, and computed with exactly.  The     *)
(* caller follows the header file: it creates all fields first, and writes *)
(* a feature before it adds the next; it may write a field several times,  *)
(* and with a value of the wrong type.                                     *)
(***************************************************************************)
EXTENDS Integers, SequencesExt

CONSTANTS
  Layouts,      \* what a caller may create: sequences of [name, type, len, dec]
  Strings, Integers, Reals, Dates,    \* the values it may write
  MaxFeatures, MaxCalls

\* The types of fields, and of values; the code's dbf_field calls them
\* Char, Numeric, Float, Logical and Date.
FieldType == {"String", "Integer", "Real", "Boolean", "Date"}

\* A Real needs 8 digits besides its decimals: of a shorter field the code
\* computes a negative number of blanks, and writes them without end.
ASSUME LayoutAssumption ==
  \A l \in Layouts : \A i \in DOMAIN l :
    /\ l[i].type \in FieldType
    /\ l[i].name \in Nat /\ l[i].len \in 1..255 /\ l[i].dec \in 0..255
    /\ l[i].type = "Real" => l[i].len >= 8
ASSUME BoundAssumption == MaxFeatures \in Nat /\ MaxCalls \in Nat

VARIABLES
  todo,      \* the fields the caller has still to create
  fields,    \* the field descriptors (dbf_fd)
  header,    \* HeaderSize, RecordSize and NumRecords of the dbf_header
  dbfSize,   \* DbfFileSize
  data,      \* the characters behind the header
  given,     \* given[f][i]: the values field i of feature f has accepted
  call,      \* the AddAttrReal() that is scaling its number, or NoCall
  calls      \* the calls of AddAttr...() so far

dbfVars == <<todo, fields, header, dbfSize, data, given, call, calls>>

NoCall     == [at |-> 0, field |-> 0, real |-> <<1, 0>>, v |-> <<1, 0>>, dec |-> 0]
EndOfFile  == "EOF"
Blanks(n)  == [i \in 1..n |-> " "]

Init ==
  /\ todo \in Layouts
  /\ fields = << >>
  /\ header = [size |-> 33, recordSize |-> 1, records |-> 0]
  /\ dbfSize = 34
  /\ data = <<EndOfFile>>
  /\ given = << >> /\ call = NoCall /\ calls = 0

\* The bytes of a field: Boolean and Date do not depend on the FieldLen asked for.
FieldLen(f) == CASE f.type = "Boolean" -> 1 [] f.type = "Date" -> 8 [] OTHER -> f.len

\* A name of more than 11 bytes is refused.
CreateField ==
  /\ todo /= << >> /\ todo' = Tail(todo)
  /\ LET f == Head(todo)
         d == [type |-> f.type, len |-> FieldLen(f),
               dec |-> IF f.type = "Real" THEN f.dec ELSE 0]
     IN  IF f.name > 11 THEN UNCHANGED <<fields, header, dbfSize>>
         ELSE /\ fields' = Append(fields, d)
              /\ header' = [header EXCEPT !.size = @ + 32, !.recordSize = @ + d.len]
              /\ dbfSize' = dbfSize + 32
  /\ UNCHANGED <<data, given, call, calls>>

\* The offset of field idx of a record, behind the deletion mark.
Offset(idx) == FoldSeq(LAMBDA f, n : n + f.len, 0, SubSeq(fields, 1, idx - 1))

\* What a field without value holds.
NullChar(type) ==
  CASE type = "Date" -> "0" [] type \in {"Real", "Integer"} -> "*" [] OTHER -> " "

SetDbfRecordToNull ==
  FoldLeft(LAMBDA r, f : r \o [k \in 1..f.len |-> NullChar(f.type)], <<" ">>, fields)

\* Mutant: the new record starts behind the end-of-file mark.
NextDbfLate == dbfSize - header.size

\* Where the characters of the new record start: over the end-of-file mark.
NextDbf == dbfSize - 1 - header.size

AddFeature ==
  /\ todo = << >> /\ call = NoCall /\ Len(given) < MaxFeatures
  /\ header' = [header EXCEPT !.records = @ + 1]
  /\ data' = SubSeq(data, 1, NextDbf) \o SetDbfRecordToNull \o <<EndOfFile>>
  /\ dbfSize' = dbfSize + header.recordSize
  /\ given' = Append(given, [i \in DOMAIN fields |-> << >>])
  /\ UNCHANGED <<todo, fields, call, calls>>

-------------------------------------------------------------------------------

\* Integers and text.  The character behind "9" is what the code writes for 10.
Abs(n)         == IF n < 0 THEN -n ELSE n
DigitChar      == <<"0", "1", "2", "3", "4", "5", "6", "7", "8", "9", ":">>
CharIsDigit(c) == \E d \in 1..10 : DigitChar[d] = c
DigitOf(c)     == (CHOOSE d \in 1..10 : DigitChar[d] = c) - 1

NumberOfDigits(n) == CHOOSE d \in 1..9 : Abs(n) < 10^d /\ \A e \in 1 .. d-1 : Abs(n) >= 10^e
Digits(n, w)      == [i \in 1..w |-> DigitChar[((n \div 10^(w - i)) % 10) + 1]]
IntToString(n)    == (IF n < 0 THEN <<"-">> ELSE << >>) \o Digits(Abs(n), NumberOfDigits(n))

Huge   == 10^9        \* ISZ_MAX and USZ_MAX ...
DblMax == <<Huge, 0>> \* ... and DBL_MAX: what a text that is no number reads as

StringToUInt(s) ==
  IF \A i \in DOMAIN s : CharIsDigit(s[i])
  THEN FoldLeft(LAMBDA n, c : n * 10 + DigitOf(c), 0, s) ELSE Huge

StringToInt(s) ==
  LET negative == s /= << >> /\ s[1] = "-"
      n        == StringToUInt(IF negative THEN Tail(s) ELSE s)
  IN  IF n = Huge THEN Huge ELSE IF negative THEN -n ELSE n

\* The real number a text denotes: digits, perhaps a point and digits, perhaps
\* "e" and digits, among which a "-" may be; a "+" is not understood.
StringToFloat(s) ==
  LET negative == s /= << >> /\ s[1] = "-"
      t     == IF negative THEN Tail(s) ELSE s
      e     == Min({i \in DOMAIN t : t[i] = "e"} \cup {Len(t) + 1})
      p     == Min({i \in 1 .. e-1 : t[i] = "."} \cup {e})
      frac  == SubSeq(t, p + 1, e - 1)
      pow   == SubSeq(t, e + 1, Len(t))
      m     == StringToUInt(SubSeq(t, 1, p - 1) \o frac)
      x     == StringToUInt(SelectSeq(pow, LAMBDA c : c /= "-"))
  IN  IF Huge \in {m, x} THEN DblMax
      ELSE <<IF negative THEN -m ELSE m,
             (IF \E i \in DOMAIN pow : pow[i] = "-" THEN -x ELSE x) - Len(frac)>>

\* floor(v * 10^n) of a real v that is not negative, and the comparisons with it.
Floor(v, n)   == LET k == v[2] + n IN IF k >= 0 THEN v[1] * 10^k ELSE v[1] \div 10^(-k)
LessThanOne(v) == Floor(v, 0) < 1
MoreThanTen(v) == v[1] > (IF v[2] > 1 THEN 0 ELSE 10^(1 - v[2]))

-------------------------------------------------------------------------------

\* The last feature is written: what follows is done to its record.
Writing == given /= << >> /\ todo = << >> /\ call = NoCall /\ calls < MaxCalls
Record  == NextDbf - header.recordSize

\* The characters with text at offset "at" of field idx.
Put(idx, at, text) ==
  LET from == Record + 1 + Offset(idx) + at
  IN  [k \in DOMAIN data |-> IF k - from \in DOMAIN text THEN text[k - from] ELSE data[k]]

\* Field idx takes value v as text, offset "at" of its characters.
Accept(idx, v, at, text) ==
  /\ data' = Put(idx, at, text)
  /\ given' = [given EXCEPT ![Len(given)][idx] = Append(@, v)]

Refuse == UNCHANGED <<data, given>>

\* The call of an AddAttr...() that is done in one step.
Called == Writing /\ calls' = calls + 1 /\ UNCHANGED <<todo, fields, header, dbfSize, call>>

\* A string is copied over the start of the field; the rest is left.
AddAttrString(idx, s) ==
  /\ Called
  /\ IF fields[idx].type = "String" /\ Len(s) =< fields[idx].len
     THEN Accept(idx, s, 0, s) ELSE Refuse

IntSize(n) == NumberOfDigits(n) + (IF n < 0 THEN 1 ELSE 0)

AddAttrInteger(idx, n) ==
  /\ Called
  /\ IF fields[idx].type = "Integer" /\ IntSize(n) =< fields[idx].len
     THEN Accept(idx, n, 0, Blanks(fields[idx].len - IntSize(n)) \o IntToString(n))
     ELSE Refuse

AddAttrBoolean(idx, b) ==
  /\ Called
  /\ IF fields[idx].type = "Boolean" THEN Accept(idx, b, 0, <<IF b THEN "T" ELSE "F">>)
     ELSE Refuse

\* Mutant: a day below ten gets no zero.
TwoDigitsBare(n) == IntToString(n)

TwoDigits(n) == (IF n < 10 THEN <<"0">> ELSE << >>) \o IntToString(n)

\* The .dbf file counts years from 1900: earlier dates become the last day before.
StoredDate(d) == IF d[1] < 1900 THEN <<1899, 12, 31>> ELSE d

AddAttrDate(idx, d) ==
  /\ Called
  /\ IF fields[idx].type = "Date" /\ d[1] =< 9999 /\ d[2] =< 12 /\ d[3] =< 31
     THEN LET s == StoredDate(d)
          IN  Accept(idx, s, 0, IntToString(s[1]) \o TwoDigits(s[2]) \o TwoDigits(s[3]))
     ELSE Refuse

Lost == Huge + 1    \* the value of an Integer field after AddAttrReal()

(***************************************************************************)
(* A Real given to an Integer field is not refused.  With two bytes to     *)
(* spare its digits are written one byte before the end of the field, and  *)
(* the last byte stays; with less, the call fails when the blanks and the  *)
(* sign are already written.                                               *)
(***************************************************************************)
AddAttrRealToInteger(idx, r) ==
  LET len  == fields[idx].len
      size == NumberOfDigits(Floor(<<Abs(r[1]), r[2]>>, 0))
      more == Min({len - size, 2})
      pad  == Blanks(len - size - more) \o <<IF r[1] < 0 THEN "-" ELSE " ">>
  IN  /\ fields[idx].type = "Integer" /\ Called
      /\ IF size > len THEN Refuse
         ELSE Accept(idx, Lost, 0,
                     IF more = 2 THEN pad \o Digits(Floor(<<Abs(r[1]), r[2]>>, 0), size) ELSE pad)

AddAttrRealElsewhere(idx, r) ==
  /\ fields[idx].type \notin {"Integer", "Real"} /\ Called
  /\ Refuse

\* The decimals of a Real field: 8 characters are for sign, digit, point and exponent.
DecimalSize(idx) == Min({fields[idx].dec, fields[idx].len - 8})

\* The blanks and the sign are written, and the number is about to be scaled.
BeginReal(idx, r) ==
  /\ fields[idx].type = "Real" /\ Writing
  /\ calls' = calls + 1
  /\ data' = Put(idx, 0, Blanks(fields[idx].len - 8 - DecimalSize(idx))
                           \o <<IF r[1] < 0 THEN "-" ELSE " ">>)
  /\ call' = [at |-> fields[idx].len - 7 - DecimalSize(idx), field |-> idx, real |-> r,
              v |-> <<Abs(r[1]), r[2]>>, dec |-> DecimalSize(idx)]
  /\ UNCHANGED <<todo, fields, header, dbfSize, given>>

\* Mutant: a small number is multiplied, and the product not kept.
ScaledNotKept(v) == IF LessThanOne(v) THEN v ELSE <<v[1], v[2] - 1>>

\* One turn of the loops "while (Float < 1)" and "while (Float > 10)": zero stays
\* zero, and the loop goes on.
Scaled(v) == IF v[1] = 0 THEN v
             ELSE IF LessThanOne(v) THEN <<v[1], v[2] + 1>> ELSE <<v[1], v[2] - 1>>

ScaleReal ==
  /\ call /= NoCall
  /\ LessThanOne(call.v) \/ MoreThanTen(call.v)
  /\ call' = [call EXCEPT !.v = Scaled(@)]
  /\ UNCHANGED <<todo, fields, header, dbfSize, data, given, calls>>

\* Mutant: the sign of the exponent is left out as that of the number is.
RealTextNoSign(v, exp, dec) ==
  SubSeq(<<DigitChar[Floor(v, 0) + 1], ".">> \o Digits(Floor(v, dec), dec)
           \o <<"e", "+">> \o Digits(Abs(exp), 3),
         1, dec + 7)

\* The digits of the scaled number.  Without decimals a zero is put in their
\* place, and the last digit of the exponent does not fit.
RealText(v, exp, dec) ==
  SubSeq(<<DigitChar[Floor(v, 0) + 1], ".">>
           \o (IF dec = 0 THEN <<"0">> ELSE Digits(Floor(v, dec), dec))
           \o <<"e", IF exp < 0 THEN "-" ELSE "+">> \o Digits(Abs(exp), 3),
         1, dec + 7)

EndReal ==
  /\ call /= NoCall
  /\ ~LessThanOne(call.v) /\ ~MoreThanTen(call.v)
  /\ Accept(call.field, call.real, call.at,
            RealText(call.v, call.real[2] - call.v[2], call.dec))
  /\ call' = NoCall
  /\ UNCHANGED <<todo, fields, header, dbfSize, calls>>

AddAttr ==
  \E idx \in DOMAIN fields :
    \/ \E s \in Strings : AddAttrString(idx, s)
    \/ \E n \in Integers : AddAttrInteger(idx, n)
    \/ \E b \in BOOLEAN : AddAttrBoolean(idx, b)
    \/ \E d \in Dates : AddAttrDate(idx, d)
    \/ \E r \in Reals : \/ AddAttrRealToInteger(idx, r)
                        \/ AddAttrRealElsewhere(idx, r)
                        \/ BeginReal(idx, r)

Next == CreateField \/ AddFeature \/ AddAttr \/ ScaleReal \/ EndReal

\* A call that has begun goes on to its end.
Spec == Init /\ [][Next]_dbfVars /\ WF_dbfVars(ScaleReal \/ EndReal)

-------------------------------------------------------------------------------

\* The characters of record f from where GetFeature() looks for it.
RecordAt(f) == SubSeq(data, (f - 1) * header.recordSize + 1, f * header.recordSize)

TextOf(f, idx) == SubSeq(RecordAt(f), 2 + Offset(idx), 1 + Offset(idx) + fields[idx].len)

\* A text without the blanks before it, and a text up to its first blank.
SkipBlanks(s)   == SubSeq(s, Min({i \in DOMAIN s : s[i] /= " "} \cup {Len(s) + 1}), Len(s))
UntilBlank(s)   == SubSeq(s, 1, Min({i \in DOMAIN s : s[i] = " "} \cup {Len(s) + 1}) - 1)

\* The loop over the blanks of a Real goes past the character that ends it.
SkipBlanksAndOne(s) == IF SkipBlanks(s) = << >> THEN << >> ELSE Tail(SkipBlanks(s))

\* What GetFieldByIdx() gives for field idx of feature f.
GetFieldByIdx(f, idx) ==
  LET s == TextOf(f, idx)
  IN  CASE fields[idx].type = "String"  -> UntilBlank(s)
        [] fields[idx].type = "Integer" -> StringToInt(SkipBlanks(s))
        [] fields[idx].type = "Real"    -> StringToFloat(SkipBlanksAndOne(s))
        [] fields[idx].type = "Boolean" -> s[1] \in {"Y", "y", "T", "t"}
        [] fields[idx].type = "Date"    -> <<StringToUInt(SubSeq(s, 1, 4)),
                                             StringToUInt(SubSeq(s, 5, 6)),
                                             StringToUInt(SubSeq(s, 7, 8))>>

\* What a field that was never written reads as.
Null(type) == CASE type = "String" -> << >> [] type = "Integer" -> Huge [] type = "Real" -> DblMax
                [] type = "Boolean" -> FALSE [] type = "Date" -> <<0, 0, 0>>

\* The fields of the features, but the one that a call is writing.
Settled == {fi \in (DOMAIN given) \X (DOMAIN fields) :
              call = NoCall \/ fi /= <<Len(given), call.field>>}

(***************************************************************************)
(* The sizes that CreateField() and AddFeature() count separately agree:   *)
(* the file is its header, its records and one mark, the mark is its last  *)
(* character, and every record is where GetFeature() looks for it, marked  *)
(* as not deleted.                                                         *)
(***************************************************************************)
RecordsInPlace ==
  /\ header.size = 33 + 32 * Len(fields)
  /\ header.recordSize = 1 + Offset(Len(fields) + 1)
  /\ header.records = Len(given)
  /\ dbfSize = header.size + header.records * header.recordSize + 1
  /\ \A k \in DOMAIN data : data[k] = EndOfFile <=> k = Len(data)
  /\ \A f \in DOMAIN given : RecordAt(f)[1] = " "

\* Field idx of feature f, which is not Real, reads as the last value it accepted,
\* or as its null.  A String written over a longer one keeps the end of that.
ReadsBack(f, idx) ==
  LET values == given[f][idx]
      read   == GetFieldByIdx(f, idx)
  IN  CASE values = << >> -> read = Null(fields[idx].type)
        [] values /= << >> /\ fields[idx].type = "String" ->
             /\ IsPrefix(Last(values), read)
             /\ Len(read) = Max({Len(values[k]) : k \in DOMAIN values})
        [] values /= << >> /\ fields[idx].type \in {"Integer", "Boolean", "Date"} ->
             read = Last(values)
        [] OTHER -> TRUE

(***************************************************************************)
(* Whatever is written to the fields of a record, in whatever order, and   *)
(* whatever is refused, every field reads as what it accepted last: "the   *)
(* field must be of the same type as the version of AddAttr(...) used,     *)
(* else the function fails" (geotypes-shp.h:275-276).  AddAttrReal() does  *)
(* not fail for an Integer field, which then reads as something else.      *)
(***************************************************************************)
FieldsReadBack == \A fi \in Settled : ReadsBack(fi[1], fi[2])

(***************************************************************************)
(* The same of all fields but the Integer fields AddAttrReal() was called  *)
(* for.                                                                    *)
(***************************************************************************)
TypedFieldsReadBack ==
  \A fi \in Settled :
    (fields[fi[2]].type = "Integer" => Lost \notin ToSet(given[fi[1]][fi[2]]))
    => ReadsBack(fi[1], fi[2])

\* The number that the characters of a Real field stand for.
Denoted(s) == LET t == SkipBlanks(s) IN StringToFloat(SelectSeq(t, LAMBDA c : c /= "+"))

\* Whether a is b but for less than one unit of 10^k, on the side of zero.
TruncatedTo(a, b, k) ==
  LET unit == Min({a[2], b[2], k})
      x    == a[1] * 10^(a[2] - unit)
      y    == b[1] * 10^(b[2] - unit)
  IN  /\ Abs(x) =< Abs(y) /\ Abs(y) - Abs(x) < 10^(k - unit)
      /\ x /= 0 => (x > 0 <=> y > 0)

PowerOfTen(r) == \E e \in 1..5 : e >= r[2] /\ Abs(r[1]) = 10^(e - r[2])

\* Field idx of feature f, if it is a Real with decimals, has the text of the last
\* number it accepted, cut off behind its decimals.
IsTruncated(f, idx) ==
  LET values == given[f][idx]
      text   == Denoted(TextOf(f, idx))
  IN  fields[idx].type = "Real" /\ DecimalSize(idx) > 0 /\ values /= << >>
      => text /= DblMax /\ TruncatedTo(text, Last(values), text[2])

(***************************************************************************)
(* A Real field with decimals holds the number it accepted, in scientific  *)
(* notation, "(-)I.(D * DecimalPlaces)e(+/-)XXX" (tinybase-strings.c:708), *)
(* and cut off behind its decimals.  The code scales powers of ten to 10,  *)
(* and writes as the digit I the character behind "9".                     *)
(***************************************************************************)
RealsTruncated == \A fi \in Settled : IsTruncated(fi[1], fi[2])

(***************************************************************************)
(* The same of all Reals but 10, 100 and so on.                            *)
(***************************************************************************)
OtherRealsTruncated ==
  \A fi \in Settled :
    LET values == given[fi[1]][fi[2]]
    IN  fields[fi[2]].type = "Real" /\ values /= << >> /\ ~PowerOfTen(Last(values))
        => IsTruncated(fi[1], fi[2])

(***************************************************************************)
(* A Real is read as the number it accepted, as the values of all other    *)
(* fields are.  It is not: the reader skips the sign, and does not         *)
(* understand the "+" of the exponents the writer writes.                  *)
(***************************************************************************)
RealsReadBack ==
  \A fi \in Settled :
    LET values == given[fi[1]][fi[2]]
        read   == GetFieldByIdx(fi[1], fi[2])
    IN  fields[fi[2]].type = "Real" /\ values /= << >>
        => read /= DblMax /\ TruncatedTo(read, Last(values), read[2])

(***************************************************************************)
(* Every call of AddAttrReal() returns "true if successful, false          *)
(* otherwise" (geotypes-shp.h:277).  The call with zero does not: zero is  *)
(* less than one, however often it is multiplied by ten.                   *)
(***************************************************************************)
CallsReturn == call /= NoCall ~> call = NoCall

(***************************************************************************)
(* Every call of AddAttrReal() with another number does: it is scaled in   *)
(* finitely many steps.                                                    *)
(***************************************************************************)
OtherCallsReturn == (call /= NoCall /\ call.real[1] /= 0) ~> call = NoCall
===============================================================================
