------------------------------ MODULE MCPixelTest ------------------------------
(* Pixels of two bits, or float pixels between -1 and 1 in steps of one half, *)
(* and values in, between and beyond those of the pixels.                     *)
EXTENDS PixelTest

SmallFloats == -2 .. 2

AllValues == [Byte |-> {-1, 0, 1, 2, 5, 6, 8}, UInt  |-> {-1, 0, 1, 2, 5, 6, 8},
              Int  |-> {-6, -4, -2, 0, 1, 2},  Float |-> -3 .. 3]

RangeValues == [Byte  |-> {0, 2, 4, 6}, UInt  |-> {0, 2, 4, 6},
                Int   |-> {-4, -2, 0, 2}, Float |-> SmallFloats]

\* One band of every type, and two bands of bytes.
AllKinds == (DType \X TestType \X {1}) \cup ({"Byte"} \X TestType \X {2})

SignedOnly == {"Int"} \X TestType \X {1}
===============================================================================
