------------------------------- MODULE PixelTest -------------------------------
(***************************************************************************)
(* From pixel values to the booleans of EdgeSweep: the bleed value, the    *)
(* two lines RasterToOutline() holds of every band, and the test callbacks *)
(* of src/raster-outline-testblock.cpp.                                    *)
(*                                                                         *)
(* A double is counted in halves, so that a value can lie between two      *)
(* pixel values.  A pixel of an integer type is its pattern of Bits bits,  *)
(* and a float pixel is its number.                                        *)
(***************************************************************************)
EXTENDS BlockEdges, FiniteSetsExt

CONSTANTS
  Bits,          \* width of the integer types
  FloatPixels,   \* what a float pixel can be, infinities and NaN left out
  Kinds,         \* the <<data type, test type, number of bands>> of this instance
  Values,        \* Values[d]: what ValueA and ValueB can be for data type d, in halves
  Width, Height

\* The data types whose callbacks differ: GDT_Byte, the other unsigned integers,
\* the signed ones, and the floating ones.
DType == {"Byte", "UInt", "Int", "Float"}

\* enum test_type
TestType == {"Equal", "NotEqual", "BiggerThan", "BiggerOrEqualTo", "LessThan",
             "LessOrEqualTo", "Between"}

ASSUME BitsAssumption == Bits \in Nat \ {0}
\* So it is for every exponent above zero; the provers know nothing of powers.
ASSUME PowerAssumption == 2^Bits \in Nat /\ 2^Bits >= 2
ASSUME FloatAssumption ==
  FloatPixels \subseteq Int /\ IsFiniteSet(FloatPixels) /\ FloatPixels /= {}
ASSUME CallAssumption ==
  /\ Kinds \subseteq DType \X TestType \X (Nat \ {0})
  /\ Values \in [DType -> SUBSET Int]
  /\ Width \in Nat \ {0} /\ Height \in Nat \ {0}

VARIABLES
  dtype, testType, valueA, valueB, bandCount,   \* the call
  raster,    \* raster[row][band][x], the patterns of the pixels
  testPc,    \* "start", "read", "scan", "end" or "bbox"
  row,
  first,     \* FirstLine, all bands one after the other
  second     \* SecondLine

call     == <<dtype, testType, valueA, valueB, bandCount, raster>>
testVars == <<call, testPc, row, first, second>>

Pixels(d) == IF d = "Float" THEN FloatPixels ELSE 0 .. 2^Bits - 1

\* The number a pixel stands for, in halves.
Number(d, p) ==
  CASE d = "Float"                    -> p
    [] d = "Int" /\ p >= 2^(Bits - 1) -> 2 * (p - 2^Bits)
    [] OTHER                          -> 2 * p

MinValue(d) == Min({Number(d, p) : p \in Pixels(d)})
MaxValue(d) == Max({Number(d, p) : p \in Pixels(d)})

\* A double converted to a pixel: the fraction is cut off, and the x86-64
\* build keeps the low bits of what does not fit the type.
Convert(d, h) ==
  IF d = "Float" THEN h
  ELSE (IF h >= 0 THEN h \div 2 ELSE -((-h) \div 2)) % 2^Bits

\* Mutant: only the lower value of Between is looked at.
NoBleedValueEager ==
  CASE testType = "LessOrEqualTo" -> valueA >= MaxValue(dtype)
    [] testType \in {"BiggerOrEqualTo", "Between"} -> valueA =< MinValue(dtype)
    [] OTHER -> FALSE

\* No bleed value can fail the test: GetBleedValue() leaves it infinite.
NoBleedValue ==
  CASE testType = "BiggerOrEqualTo" -> valueA =< MinValue(dtype)
    [] testType = "LessOrEqualTo"   -> valueA >= MaxValue(dtype)
    [] testType = "Between"         -> valueA =< MinValue(dtype) /\ valueB >= MaxValue(dtype)
    [] OTHER                        -> FALSE

BleedValue ==
  CASE testType = "Equal"           -> valueA + 2
    [] testType = "BiggerOrEqualTo" -> MinValue(dtype)
    [] testType = "LessOrEqualTo"   -> MaxValue(dtype)
    [] testType = "Between"         -> IF valueA > MinValue(dtype) THEN MinValue(dtype)
                                       ELSE MaxValue(dtype)
    [] OTHER                        -> valueA

InspectWidth == Width + 2
LineCells    == 0 .. InspectWidth * bandCount - 1

\* SetBleedLine()
BleedCells == [k \in LineCells |-> Convert(dtype, BleedValue)]

TestInit ==
  /\ \E kind \in Kinds : dtype = kind[1] /\ testType = kind[2] /\ bandCount = kind[3]
  /\ valueA \in Values[dtype] /\ valueB \in Values[dtype]
  /\ raster \in [0..Height-1 -> [0..bandCount-1 -> [0..Width-1 -> Pixels(dtype)]]]
  /\ testPc = "start" /\ row = 0
  /\ first = << >> /\ second = << >>

\* All pixels would be selected: the outline of the raster is returned.
UseBBox ==
  /\ testPc = "start" /\ NoBleedValue
  /\ testPc' = "bbox"
  /\ UNCHANGED <<call, row, first, second>>

FillLines ==
  /\ testPc = "start" /\ ~NoBleedValue
  /\ testPc' = "read"
  /\ first' = BleedCells /\ second' = BleedCells
  /\ UNCHANGED <<call, row>>

\* A row of every band is read behind the first bleed cell of the band.
ReadBands ==
  /\ testPc = "read" /\ row < Height
  /\ testPc' = "scan"
  /\ second' = [k \in LineCells |->
                  IF k % InspectWidth \in 1..Width
                  THEN raster[row][k \div InspectWidth][(k % InspectWidth) - 1]
                  ELSE second[k]]
  /\ UNCHANGED <<call, row, first>>

LastLine ==
  /\ testPc = "read" /\ row = Height
  /\ testPc' = "scan"
  /\ second' = BleedCells
  /\ UNCHANGED <<call, row, first>>

\* The blocks of the two lines are tested, and the second becomes the first.
NextLine ==
  /\ testPc = "scan"
  /\ testPc' = IF row = Height THEN "end" ELSE "read"
  /\ row' = IF row = Height THEN row ELSE row + 1
  /\ first' = IF row = Height THEN first ELSE second
  /\ UNCHANGED <<call, second>>

TestOver == testPc \in {"bbox", "end"} /\ UNCHANGED testVars

TestNext == UseBBox \/ FillLines \/ ReadBands \/ LastLine \/ NextLine \/ TestOver

TestSpec == TestInit /\ [][TestNext]_testVars

\* TEST_FOR_...: how a callback compares a pixel, in unsigned arithmetic for
\* every integer type.  NotEqual compares as Equal does.
Compare(pixel) ==
  LET a == Convert(dtype, valueA)
      b == Convert(dtype, valueB)
  IN  CASE testType \in {"Equal", "NotEqual"} -> pixel = a
        [] testType = "BiggerThan"            -> pixel > a
        [] testType = "BiggerOrEqualTo"       -> pixel >= a
        [] testType = "LessThan"              -> pixel < a
        [] testType = "LessOrEqualTo"         -> pixel =< a
        [] testType = "Between"               -> pixel >= a /\ pixel =< b

\* The callbacks that negate what they compared: NotEqual and TestU8Between.
Negates == testType = "NotEqual" \/ (testType = "Between" /\ dtype = "Byte")

\* Mutant: the step to the next band leaves out the bleed cells.
TestCellNoBleed(line, k) ==
  (\A n \in 0..bandCount-1 : Compare(line[k + n * Width])) /= Negates

\* A cell of a line, band after band.
TestCell(line, k) ==
  (\A n \in 0..bandCount-1 : Compare(line[k + n * InspectWidth])) /= Negates

TestBlock(col) == GetBlockEdges(TestCell(first, col), TestCell(first, col + 1),
                                TestCell(second, col), TestCell(second, col + 1))

-------------------------------------------------------------------------------

\* The conditions in the comments of enum test_type (src/raster-outline.h).
Condition(number) ==
  CASE testType = "Equal"           -> number = valueA
    [] testType = "NotEqual"        -> number /= valueA
    [] testType = "BiggerThan"      -> number > valueA
    [] testType = "BiggerOrEqualTo" -> number >= valueA
    [] testType = "LessThan"        -> number < valueA
    [] testType = "LessOrEqualTo"   -> number =< valueA
    [] testType = "Between"         -> valueA =< number /\ number =< valueB

\* "Each pixel must pass the test on all specified bands to be eligible."
Eligible(r, x) ==
  /\ r \in 0..Height-1 /\ x \in 0..Width-1
  /\ \A n \in 0..bandCount-1 : Condition(Number(dtype, raster[r][n][x]))

(***************************************************************************)
(* What src/raster-outline.h says of every call: the edges are those of    *)
(* the eligible pixels.  For every block of the two lines the callback     *)
(* gives the type that the documented condition gives, and outside the     *)
(* raster nothing is eligible.  The code departs from it three times: with *)
(* signed types, with NotEqual on several bands, and with values that the  *)
(* type of the pixels cannot represent.                                    *)
(***************************************************************************)
BlocksAsDocumented ==
  testPc = "scan" =>
    \A col \in 0..Width :
      TestBlock(col) = GetBlockEdges(Eligible(row-1, col-1), Eligible(row-1, col),
                                     Eligible(row, col-1), Eligible(row, col))

\* A value that a pixel can have, and one between the lowest and the highest.
Represented(h) == dtype = "Float" \/ \E p \in Pixels(dtype) : h = Number(dtype, p)
WithinRange(h) == dtype = "Float" \/ (MinValue(dtype) =< h /\ h =< MaxValue(dtype))

\* The calls for which the code keeps what the header says.  A fraction that is
\* cut off does no harm where only the pixels above the value, or not, are asked for.
CallIsServed ==
  /\ dtype = "Int" => testType \in {"Equal", "NotEqual"}
  /\ testType = "NotEqual" => bandCount = 1
  /\ IF testType \in {"BiggerThan", "LessOrEqualTo"}
     THEN WithinRange(valueA) ELSE Represented(valueA)
  /\ testType = "Between" => WithinRange(valueB)

(***************************************************************************)
(* For all other calls the blocks are those of the header: the unsigned    *)
(* and floating types with values that their pixels can have, fractions    *)
(* where they do no harm, any number of bands, and Equal and NotEqual on   *)
(* signed pixels.  It is what EdgeSweep takes for granted when it reduces  *)
(* a pixel to a boolean and bleed to FALSE.                                *)
(***************************************************************************)
ServedBlocksAsDocumented == CallIsServed => BlocksAsDocumented

(***************************************************************************)
(* The outline of the whole raster is returned only if every pixel that    *)
(* the data type has is eligible.                                          *)
(***************************************************************************)
BBoxMeansAll ==
  testPc = "bbox" => \A p \in Pixels(dtype) : Condition(Number(dtype, p))
===============================================================================
