-------------------------------- MODULE Outline --------------------------------
(***************************************************************************)
(* What RasterToOutline() promises its caller (src/raster-outline.h): one  *)
(* call ends with the outline of the selected pixels, or it is empty: when *)
(* nothing is selected, and on failure, which is that memory runs out or   *)
(* that the raster cannot be read.  An outline is known by its cover: for  *)
(* each pixel, how many outer rings go around it less how many inner rings *)
(* do.  Polygons that hold the selected pixels and no others, without      *)
(* overlap, cover them once.                                               *)
(***************************************************************************)
EXTENDS Integers

CONSTANTS Width, Height, Images, AllocMayFail, ReadMayFail

VARIABLES
  image,     \* the raster as read, each pixel TRUE when it passes the test
  misread,   \* whether a read of it has failed
  status,    \* "pending", "outline" or "empty"
  cover      \* the outline

Pixels == (0..Height-1) \X (0..Width-1)

SelectedPixels == {p \in Pixels : image[p[1]][p[2]]}

Init == /\ image \in Images /\ misread = FALSE
        /\ status = "pending" /\ cover = << >>

Deliver == /\ status = "pending" /\ status' = "outline"
           /\ ~misread
           /\ SelectedPixels /= {}
           /\ cover' = [p \in Pixels |-> IF p \in SelectedPixels THEN 1 ELSE 0]
           /\ UNCHANGED <<image, misread>>

GiveUp == /\ status = "pending" /\ status' = "empty"
          /\ SelectedPixels = {} \/ AllocMayFail \/ misread
          /\ UNCHANGED <<image, misread, cover>>

\* A read of the raster fails: what it has read may be anything.
Misread == /\ ReadMayFail /\ status = "pending"
           /\ misread' = TRUE
           /\ image' \in [0..Height-1 -> [0..Width-1 -> BOOLEAN]]
           /\ UNCHANGED <<status, cover>>

Next == Deliver \/ GiveUp \/ Misread

Ends == <>(status /= "pending")

Spec == Init /\ [][Next]_<<image, misread, status, cover>> /\ Ends
===============================================================================
