---------------------------- MODULE MCDbfAttributes ----------------------------
(* Two records of all types of fields, with values that fit and that do not.  *)
EXTENDS DbfAttributes

Field(name, type, len, dec) == [name |-> name, type |-> type, len |-> len, dec |-> dec]

AllLayouts ==
  {<<Field(4, "String", 3, 0), Field(12, "Integer", 4, 0), Field(11, "Integer", 3, 0),
     Field(3, "Boolean", 7, 2)>>,
   <<Field(5, "Real", 11, 2), Field(4, "Date", 2, 0), Field(1, "Integer", 2, 0)>>,
   <<Field(5, "Real", 8, 3), Field(5, "Real", 11, 3)>>}

SomeStrings  == {<<"a">>, <<"b", "c", "d">>, <<"e", "f", "g", "h">>}
SomeIntegers == {0, -7, 42, -42, 999}
SomeReals    == {<<1, 0>>, <<-5, -1>>, <<1234, -1>>, <<1, 2>>, <<-9, -3>>, <<10, 0>>, <<0, 0>>}
SomeDates    == {<<2019, 9, 30>>, <<1850, 1, 1>>, <<2024, 12, 5>>, <<2000, 13, 1>>}
===============================================================================
