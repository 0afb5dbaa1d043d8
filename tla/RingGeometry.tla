------------------------------ MODULE RingGeometry ------------------------------
(***************************************************************************)
(* The geometry of an outline, apart from any state of the call: E is an   *)
(* edge list, S the selected pixels it is the outline of, with a border of *)
(* pixels that are not selected, and a picture is a black-and-white image  *)
(* of that size.  Every line of the outline runs along pixels of which the *)
(* ones on its left and the ones on its right agree; and a set of lines    *)
(* that has an even number of ends at every corner bounds a picture.       *)
(***************************************************************************)
EXTENDS RingTrace, EdgeSweepProofs, FiniteIntegers

PixRows == -1 .. Height
PixCols == -1 .. Width
Picture == [PixRows -> [PixCols -> BOOLEAN]]

\* The block of four pixels around a vertex.
Block(S, r, c) == GetBlockEdges(S[r-1][c-1], S[r-1][c], S[r][c-1], S[r][c])

\* The edges are the corners of S, all of them, in the order of the sweep ...
CornersOf(E, S) ==
  /\ Len(E) \in Nat
  /\ \A i \in 1..Len(E) : /\ E[i].row \in 0..Height /\ E[i].col \in 0..Width
                          /\ E[i].type \in EdgeType
                          /\ E[i].type = Block(S, E[i].row, E[i].col)
  /\ \A i \in 1..Len(E), j \in 1..Len(E) :
       i < j => Precedes(E[i].row, E[i].col, E[j].row, E[j].col)
  /\ \A r \in 0..Height, c \in 0..Width :
       Block(S, r, c) /= "None" =>
         \E i \in 1..Len(E) : E[i].row = r /\ E[i].col = c

\* ... and linked to the edges at the other ends of their lines.
LinesOfEdges(E) ==
  \A i \in 1..Len(E) :
    /\ HasAbove(E[i].type) => /\ E[i].above \in 1..Len(E)
                              /\ HasBelow(E[E[i].above].type)
                              /\ E[E[i].above].below = i
                              /\ E[E[i].above].col = E[i].col
                              /\ E[E[i].above].row < E[i].row
    /\ HasBelow(E[i].type) => /\ E[i].below \in 1..Len(E)
                              /\ HasAbove(E[E[i].below].type)
                              /\ E[E[i].below].above = i
                              /\ E[E[i].below].col = E[i].col
                              /\ E[E[i].below].row > E[i].row
    /\ HasRight(E[i].type) => /\ i+1 \in 1..Len(E)
                              /\ HasLeft(E[i+1].type)
                              /\ E[i+1].row = E[i].row
                              /\ E[i+1].col > E[i].col
    /\ HasLeft(E[i].type)  => /\ i-1 \in 1..Len(E)
                              /\ HasRight(E[i-1].type)
                              /\ E[i-1].row = E[i].row
                              /\ E[i-1].col < E[i].col

\* S is not selected on its upper and left border.
Bordered(S) == /\ \A c \in PixCols : S[-1][c] = FALSE
               /\ \A r \in PixRows : S[r][-1] = FALSE

OutlineOf(E, S) == /\ S \in Picture /\ Bordered(S)
                   /\ CornersOf(E, S) /\ LinesOfEdges(E)

\* The pixels around a vertex are in the picture.
LEMMA Grid ==
  /\ \A r \in 0..Height : r \in PixRows /\ r-1 \in PixRows
  /\ \A c \in 0..Width : c \in PixCols /\ c-1 \in PixCols
  BY SizeAssumption DEF PixRows, PixCols

-------------------------------------------------------------------------------

(***************************************************************************)
(* Units of lines.  The side of a pixel between pixels (r, c-1) and (r, c) *)
(* is covered by the line below an edge, the one between (r-1, c) and      *)
(* (r, c) by the line to the right of an edge.                             *)
(***************************************************************************)
VCovers(E, i, r, c) == /\ HasBelow(E[i].type)
                       /\ E[i].col = c /\ E[i].row =< r /\ r < E[E[i].below].row
HCovers(E, i, r, c) == /\ HasRight(E[i].type)
                       /\ E[i].row = r /\ E[i].col =< c /\ c < E[i+1].col

\* A corner has a line where the pixels beside it differ.
LEMMA CornerLines ==
  ASSUME NEW E, NEW S, OutlineOf(E, S), NEW i \in 1..Len(E),
         NEW r, NEW c, r = E[i].row, c = E[i].col
  PROVE  /\ HasAbove(E[i].type) <=> S[r-1][c-1] /= S[r-1][c]
         /\ HasBelow(E[i].type) <=> S[r][c-1] /= S[r][c]
         /\ HasLeft(E[i].type)  <=> S[r-1][c-1] /= S[r][c-1]
         /\ HasRight(E[i].type) <=> S[r-1][c] /= S[r][c]
<1>1. /\ r \in 0..Height /\ c \in 0..Width /\ E[i].type \in EdgeType
      /\ E[i].type = Block(S, r, c)
  BY DEF OutlineOf, CornersOf
<1>2. r-1 \in PixRows /\ r \in PixRows /\ c-1 \in PixCols /\ c \in PixCols
  BY <1>1, SizeAssumption DEF PixRows, PixCols
<1>3. /\ S[r-1][c-1] \in BOOLEAN /\ S[r-1][c] \in BOOLEAN
      /\ S[r][c-1] \in BOOLEAN /\ S[r][c] \in BOOLEAN
  BY <1>2 DEF OutlineOf, Picture
<1>4. E[i].type /= "None"
  BY <1>1 DEF EdgeType
<1> QED
  BY <1>1, <1>3, <1>4, BlockEdgesLines DEF Block

\* Where there is no corner, lines pass straight through, and only in one direction.
LEMMA NoCornerLines ==
  ASSUME NEW E, NEW S, OutlineOf(E, S), NEW r \in 0..Height, NEW c \in 0..Width,
         \A i \in 1..Len(E) : ~(E[i].row = r /\ E[i].col = c)
  PROVE  /\ S[r-1][c-1] /= S[r-1][c] <=> S[r][c-1] /= S[r][c]
         /\ S[r-1][c-1] /= S[r][c-1] <=> S[r-1][c] /= S[r][c]
         /\ S[r-1][c-1] = S[r-1][c] \/ S[r-1][c-1] = S[r][c-1]
<1>1. Block(S, r, c) = "None"
  BY DEF OutlineOf, CornersOf
<1>2. r-1 \in PixRows /\ r \in PixRows /\ c-1 \in PixCols /\ c \in PixCols
  BY SizeAssumption DEF PixRows, PixCols
<1>3. /\ S[r-1][c-1] \in BOOLEAN /\ S[r-1][c] \in BOOLEAN
      /\ S[r][c-1] \in BOOLEAN /\ S[r][c] \in BOOLEAN
  BY <1>2 DEF OutlineOf, Picture
<1> QED
  BY <1>1, <1>3, BlockEdgesTable DEF Block

\* Two edges at the same vertex are the same edge.
LEMMA OneEdge ==
  ASSUME NEW E, NEW S, OutlineOf(E, S), NEW i \in 1..Len(E), NEW j \in 1..Len(E),
         E[i].row = E[j].row, E[i].col = E[j].col
  PROVE  i = j
<1>1. /\ Len(E) \in Nat
      /\ E[i].row \in Int /\ E[i].col \in Int /\ E[j].row \in Int /\ E[j].col \in Int
  BY SizeAssumption DEF OutlineOf, CornersOf
<1>2. ~Precedes(E[i].row, E[i].col, E[j].row, E[j].col)
      /\ ~Precedes(E[j].row, E[j].col, E[i].row, E[i].col)
  BY <1>1 DEF Precedes
<1>3. ~(i < j) /\ ~(j < i)
  BY <1>2 DEF OutlineOf, CornersOf
<1> QED
  BY <1>1, <1>3

(***************************************************************************)
(* Going down a column, a side is covered where the pixels beside it       *)
(* differ, and by one line only.                                           *)
(***************************************************************************)
VSides(E, S, r, c) ==
  /\ S[r][c-1] /= S[r][c] <=> \E i \in 1..Len(E) : VCovers(E, i, r, c)
  /\ \A i, j \in 1..Len(E) : VCovers(E, i, r, c) /\ VCovers(E, j, r, c) => i = j

LEMMA VSidesStep ==
  ASSUME NEW E, NEW S, OutlineOf(E, S), NEW r \in 0..Height, NEW c \in 0..Width,
         VSides(E, S, r-1, c)
  PROVE  VSides(E, S, r, c)
<1>1. /\ r \in Int /\ c \in Int /\ Len(E) \in Nat
      /\ \A i \in 1..Len(E) : E[i].row \in Int /\ E[i].col \in Int
  BY SizeAssumption DEF OutlineOf, CornersOf
<1>2. \A i \in 1..Len(E) : HasBelow(E[i].type) =>
        /\ E[i].below \in 1..Len(E) /\ HasAbove(E[E[i].below].type)
        /\ E[E[i].below].above = i
        /\ E[E[i].below].col = E[i].col /\ E[E[i].below].row > E[i].row
  BY DEF OutlineOf, LinesOfEdges
<1>3. CASE \E j \in 1..Len(E) : E[j].row = r /\ E[j].col = c
  <2>1. PICK j \in 1..Len(E) : E[j].row = r /\ E[j].col = c
    BY <1>3
  <2>2. /\ HasAbove(E[j].type) <=> S[r-1][c-1] /= S[r-1][c]
        /\ HasBelow(E[j].type) <=> S[r][c-1] /= S[r][c]
    BY <2>1, CornerLines
  <2>3. ASSUME NEW i \in 1..Len(E), VCovers(E, i, r, c), i /= j
        PROVE  FALSE
    <3>1. E[i].col = c /\ E[i].row =< r /\ HasBelow(E[i].type) /\ E[E[i].below].row > r
      BY <2>3 DEF VCovers
    <3>2. E[i].row /= r
      BY <2>1, <2>3, <3>1, OneEdge
    <3>3. VCovers(E, i, r-1, c)
      BY <1>1, <1>2, <3>1, <3>2 DEF VCovers
    <3>4. HasAbove(E[j].type)
      BY <2>2, <3>3 DEF VSides
    <3>5. PICK a \in 1..Len(E) : /\ a = E[j].above
                                 /\ HasBelow(E[a].type) /\ E[a].below = j
                                 /\ E[a].col = E[j].col /\ E[a].row < E[j].row
      BY <3>4 DEF OutlineOf, LinesOfEdges
    <3>6. VCovers(E, a, r-1, c)
      BY <1>1, <2>1, <3>5 DEF VCovers
    <3>7. i = a
      BY <3>3, <3>6 DEF VSides
    <3> QED
      BY <1>1, <2>1, <3>1, <3>5, <3>7
  <2>4. HasBelow(E[j].type) => VCovers(E, j, r, c)
    BY <1>1, <1>2, <2>1 DEF VCovers
  <2>5. VCovers(E, j, r, c) => HasBelow(E[j].type)
    BY DEF VCovers
  <2> QED
    BY <2>2, <2>3, <2>4, <2>5 DEF VSides
<1>4. CASE \A j \in 1..Len(E) : ~(E[j].row = r /\ E[j].col = c)
  <2>1. S[r-1][c-1] /= S[r-1][c] <=> S[r][c-1] /= S[r][c]
    BY <1>4, NoCornerLines
  <2>2. ASSUME NEW i \in 1..Len(E)
        PROVE  VCovers(E, i, r, c) <=> VCovers(E, i, r-1, c)
    <3>1. CASE HasBelow(E[i].type) /\ E[i].col = c
      <4>1. E[i].row /= r
        BY <1>4, <3>1
      <4>2. PICK b \in 1..Len(E) : b = E[i].below /\ E[b].col = c
        BY <1>2, <3>1
      <4>3. E[b].row /= r /\ E[b].row \in Int /\ E[i].row \in Int
        BY <1>1, <1>4, <4>2
      <4> QED
        BY <1>1, <3>1, <4>1, <4>2, <4>3 DEF VCovers
    <3>2. CASE ~(HasBelow(E[i].type) /\ E[i].col = c)
      BY <3>2 DEF VCovers
    <3> QED
      BY <3>1, <3>2
  <2> QED
    BY <2>1, <2>2 DEF VSides
<1> QED
  BY <1>3, <1>4

LEMMA VSidesAll ==
  ASSUME NEW E, NEW S, OutlineOf(E, S)
  PROVE  \A r \in PixRows, c \in 0..Width : VSides(E, S, r, c)
<1> SUFFICES ASSUME NEW c \in 0..Width
             PROVE  \A r \in PixRows : VSides(E, S, r, c)
  OBVIOUS
<1> DEFINE T == {k \in Nat : k =< Height + 1 => VSides(E, S, k-1, c)}
<1>1. Height \in Nat /\ Width \in Nat /\ c-1 \in PixCols /\ c \in PixCols
  BY SizeAssumption DEF PixCols
<1>2. 0 \in T
  <2>1. S[-1][c-1] = FALSE /\ S[-1][c] = FALSE
    BY <1>1 DEF OutlineOf, Bordered
  <2>2. \A i \in 1..Len(E) : E[i].row >= 0 /\ E[i].row \in Int
    BY <1>1 DEF OutlineOf, CornersOf
  <2>3. \A i \in 1..Len(E) : ~VCovers(E, i, -1, c)
    BY <2>2 DEF VCovers
  <2>4. 0 - 1 = -1
    OBVIOUS
  <2> QED
    BY <2>1, <2>3, <2>4 DEF VSides
<1>3. ASSUME NEW k \in Nat, k \in T
      PROVE  k + 1 \in T
  <2>1. CASE k =< Height
    <3>1. VSides(E, S, k-1, c) /\ k \in 0..Height
      BY <1>1, <1>3, <2>1
    <3>2. VSides(E, S, k, c)
      BY <3>1, VSidesStep
    <3>3. k + 1 - 1 = k
      OBVIOUS
    <3> QED
      BY <3>2, <3>3
  <2>2. CASE ~(k =< Height)
    BY <1>1, <2>2
  <2> QED
    BY <2>1, <2>2
<1> HIDE DEF T
<1>4. \A k \in Nat : k \in T
  BY <1>2, <1>3, Induction
<1>5. ASSUME NEW r \in PixRows
      PROVE  VSides(E, S, r, c)
  <2>1. PICK k \in Nat : k = r + 1 /\ k =< Height + 1 /\ k - 1 = r
    BY <1>1 DEF PixRows
  <2>2. VSides(E, S, k-1, c)
    BY <1>4, <2>1 DEF T
  <2> QED
    BY <2>1, <2>2
<1> QED
  BY <1>5

(***************************************************************************)
(* The same for the sides of a row, going to the right.                    *)
(***************************************************************************)
HSides(E, S, r, c) ==
  /\ S[r-1][c] /= S[r][c] <=> \E i \in 1..Len(E) : HCovers(E, i, r, c)
  /\ \A i, j \in 1..Len(E) : HCovers(E, i, r, c) /\ HCovers(E, j, r, c) => i = j

LEMMA HSidesStep ==
  ASSUME NEW E, NEW S, OutlineOf(E, S), NEW r \in 0..Height, NEW c \in 0..Width,
         HSides(E, S, r, c-1)
  PROVE  HSides(E, S, r, c)
<1>1. /\ r \in Int /\ c \in Int /\ Len(E) \in Nat
      /\ \A i \in 1..Len(E) : E[i].row \in Int /\ E[i].col \in Int
  BY SizeAssumption DEF OutlineOf, CornersOf
<1>2. \A i \in 1..Len(E) : HasRight(E[i].type) =>
        /\ i+1 \in 1..Len(E) /\ HasLeft(E[i+1].type)
        /\ E[i+1].row = E[i].row /\ E[i+1].col > E[i].col
  BY DEF OutlineOf, LinesOfEdges
<1>3. CASE \E j \in 1..Len(E) : E[j].row = r /\ E[j].col = c
  <2>1. PICK j \in 1..Len(E) : E[j].row = r /\ E[j].col = c
    BY <1>3
  <2>2. /\ HasLeft(E[j].type) <=> S[r-1][c-1] /= S[r][c-1]
        /\ HasRight(E[j].type) <=> S[r-1][c] /= S[r][c]
    BY <2>1, CornerLines
  <2>3. ASSUME NEW i \in 1..Len(E), HCovers(E, i, r, c), i /= j
        PROVE  FALSE
    <3>1. E[i].row = r /\ E[i].col =< c /\ HasRight(E[i].type) /\ E[i+1].col > c
      BY <2>3 DEF HCovers
    <3>2. E[i].col /= c
      BY <2>1, <2>3, <3>1, OneEdge
    <3>3. HCovers(E, i, r, c-1)
      BY <1>1, <1>2, <3>1, <3>2 DEF HCovers
    <3>4. HasLeft(E[j].type)
      BY <2>2, <3>3 DEF HSides
    <3>5. PICK a \in 1..Len(E) : /\ a+1 = j
                                 /\ HasRight(E[a].type)
                                 /\ E[a].row = E[j].row /\ E[a].col < E[j].col
      BY <1>1, <3>4 DEF OutlineOf, LinesOfEdges
    <3>6. HCovers(E, a, r, c-1)
      BY <1>1, <2>1, <3>5 DEF HCovers
    <3>7. i = a
      BY <3>3, <3>6 DEF HSides
    <3> QED
      BY <1>1, <2>1, <3>1, <3>5, <3>7
  <2>4. HasRight(E[j].type) => HCovers(E, j, r, c)
    BY <1>1, <1>2, <2>1 DEF HCovers
  <2>5. HCovers(E, j, r, c) => HasRight(E[j].type)
    BY DEF HCovers
  <2> QED
    BY <2>2, <2>3, <2>4, <2>5 DEF HSides
<1>4. CASE \A j \in 1..Len(E) : ~(E[j].row = r /\ E[j].col = c)
  <2>1. S[r-1][c-1] /= S[r][c-1] <=> S[r-1][c] /= S[r][c]
    BY <1>4, NoCornerLines
  <2>2. ASSUME NEW i \in 1..Len(E)
        PROVE  HCovers(E, i, r, c) <=> HCovers(E, i, r, c-1)
    <3>1. CASE HasRight(E[i].type) /\ E[i].row = r
      <4>1. E[i].col /= c
        BY <1>4, <3>1
      <4>2. PICK b \in 1..Len(E) : b = i+1 /\ E[b].row = r
        BY <1>2, <3>1
      <4>3. E[b].col /= c /\ E[b].col \in Int /\ E[i].col \in Int
        BY <1>1, <1>4, <4>2
      <4> QED
        BY <1>1, <3>1, <4>1, <4>2, <4>3 DEF HCovers
    <3>2. CASE ~(HasRight(E[i].type) /\ E[i].row = r)
      BY <3>2 DEF HCovers
    <3> QED
      BY <3>1, <3>2
  <2> QED
    BY <2>1, <2>2 DEF HSides
<1> QED
  BY <1>3, <1>4

LEMMA HSidesAll ==
  ASSUME NEW E, NEW S, OutlineOf(E, S)
  PROVE  \A r \in 0..Height, c \in PixCols : HSides(E, S, r, c)
<1> SUFFICES ASSUME NEW r \in 0..Height
             PROVE  \A c \in PixCols : HSides(E, S, r, c)
  OBVIOUS
<1> DEFINE T == {k \in Nat : k =< Width + 1 => HSides(E, S, r, k-1)}
<1>1. Height \in Nat /\ Width \in Nat /\ r-1 \in PixRows /\ r \in PixRows
  BY SizeAssumption DEF PixRows
<1>2. 0 \in T
  <2>1. S[r-1][-1] = FALSE /\ S[r][-1] = FALSE
    BY <1>1 DEF OutlineOf, Bordered
  <2>2. \A i \in 1..Len(E) : E[i].col >= 0 /\ E[i].col \in Int
    BY <1>1 DEF OutlineOf, CornersOf
  <2>3. \A i \in 1..Len(E) : ~HCovers(E, i, r, -1)
    BY <2>2 DEF HCovers
  <2>4. 0 - 1 = -1
    OBVIOUS
  <2> QED
    BY <2>1, <2>3, <2>4 DEF HSides
<1>3. ASSUME NEW k \in Nat, k \in T
      PROVE  k + 1 \in T
  <2>1. CASE k =< Width
    <3>1. HSides(E, S, r, k-1) /\ k \in 0..Width
      BY <1>1, <1>3, <2>1
    <3>2. HSides(E, S, r, k)
      BY <3>1, HSidesStep
    <3>3. k + 1 - 1 = k
      OBVIOUS
    <3> QED
      BY <3>2, <3>3
  <2>2. CASE ~(k =< Width)
    BY <1>1, <2>2
  <2> QED
    BY <2>1, <2>2
<1> HIDE DEF T
<1>4. \A k \in Nat : k \in T
  BY <1>2, <1>3, Induction
<1>5. ASSUME NEW c \in PixCols
      PROVE  HSides(E, S, r, c)
  <2>1. PICK k \in Nat : k = c + 1 /\ k =< Width + 1 /\ k - 1 = c
    BY <1>1 DEF PixCols
  <2>2. HSides(E, S, r, k-1)
    BY <1>4, <2>1 DEF T
  <2> QED
    BY <2>1, <2>2
<1> QED
  BY <1>5

-------------------------------------------------------------------------------

(***************************************************************************)
(* Sets of lines.  A half-line is an edge and a direction in which a line  *)
(* leaves it; a line is two half-lines, each the other one reversed.       *)
(***************************************************************************)
HasDir(t, d) == \/ d = "Right" /\ HasRight(t)
                \/ d = "Left"  /\ HasLeft(t)
                \/ d = "Down"  /\ HasBelow(t)
                \/ d = "Up"    /\ HasAbove(t)

Opposite == [Right |-> "Left", Left |-> "Right", Down |-> "Up", Up |-> "Down"]

HalfLines(E) == {s \in (1..Len(E)) \X LineDir : HasDir(E[s[1]].type, s[2])}

\* The edge at the other end of the line that leaves edge i in direction d.
FarEnd(E, i, d) == CASE d = "Right" -> i + 1
                     [] d = "Left"  -> i - 1
                     [] d = "Down"  -> E[i].below
                     [] d = "Up"    -> E[i].above

Rev(E, s) == <<FarEnd(E, s[1], s[2]), Opposite[s[2]]>>

LineSet(E, M) == M \subseteq HalfLines(E) /\ \A s \in M : Rev(E, s) \in M

\* The sides that the lines of a set cover, and a picture that has them as its outline.
VEdge(E, M, r, c) == \E i \in 1..Len(E) : <<i, "Down">> \in M /\ VCovers(E, i, r, c)
HEdge(E, M, r, c) == \E i \in 1..Len(E) : <<i, "Right">> \in M /\ HCovers(E, i, r, c)

Bounds(E, X, M) ==
  /\ X \in Picture
  /\ \A r \in PixRows : X[r][-1] = FALSE
  /\ \A r \in PixRows, c \in 0..Width : X[r][c-1] /= X[r][c] <=> VEdge(E, M, r, c)
  /\ \A r \in 0..Height, c \in PixCols : X[r-1][c] /= X[r][c] <=> HEdge(E, M, r, c)

\* Membership, direction by direction.
LEMMA HalfLine ==
  ASSUME NEW E, NEW i, NEW d
  PROVE  <<i, d>> \in HalfLines(E) <=> /\ i \in 1..Len(E) /\ d \in LineDir
                                       /\ HasDir(E[i].type, d)
  BY DEF HalfLines

LEMMA LineEnds ==
  ASSUME NEW E, NEW M, LineSet(E, M), NEW i
  PROVE  /\ <<i, "Down">> \in M  => HasBelow(E[i].type) /\ <<E[i].below, "Up">> \in M
         /\ <<i, "Up">> \in M    => HasAbove(E[i].type) /\ <<E[i].above, "Down">> \in M
         /\ <<i, "Right">> \in M => HasRight(E[i].type) /\ <<i+1, "Left">> \in M
         /\ <<i, "Left">> \in M  => HasLeft(E[i].type) /\ <<i-1, "Right">> \in M
<1>1. \A d \in LineDir : <<i, d>> \in M =>
        HasDir(E[i].type, d) /\ <<FarEnd(E, i, d), Opposite[d]>> \in M
  <2> SUFFICES ASSUME NEW d \in LineDir, <<i, d>> \in M
               PROVE  HasDir(E[i].type, d) /\ <<FarEnd(E, i, d), Opposite[d]>> \in M
    OBVIOUS
  <2>1. <<i, d>> \in HalfLines(E) /\ Rev(E, <<i, d>>) \in M
    BY DEF LineSet
  <2> QED
    BY <2>1, HalfLine DEF Rev
<1>2. /\ Opposite["Down"] = "Up" /\ Opposite["Up"] = "Down"
      /\ Opposite["Right"] = "Left" /\ Opposite["Left"] = "Right"
  BY DEF Opposite
<1>3. /\ FarEnd(E, i, "Down") = E[i].below /\ FarEnd(E, i, "Up") = E[i].above
      /\ FarEnd(E, i, "Right") = i+1 /\ FarEnd(E, i, "Left") = i-1
  BY DEF FarEnd
<1>4. "Down" \in LineDir /\ "Up" \in LineDir /\ "Right" \in LineDir /\ "Left" \in LineDir
  BY DEF LineDir
<1> QED
  BY <1>1, <1>2, <1>3, <1>4 DEF HasDir

\* Where there is no corner the lines that cover the sides are the same before and behind.
LEMMA NoCornerCovers ==
  ASSUME NEW E, NEW S, OutlineOf(E, S), NEW r \in 0..Height, NEW c \in 0..Width,
         \A j \in 1..Len(E) : ~(E[j].row = r /\ E[j].col = c)
  PROVE  \A i \in 1..Len(E) : /\ VCovers(E, i, r, c) <=> VCovers(E, i, r-1, c)
                              /\ HCovers(E, i, r, c) <=> HCovers(E, i, r, c-1)
<1>1. /\ r \in Int /\ c \in Int /\ Len(E) \in Nat
      /\ \A i \in 1..Len(E) : E[i].row \in Int /\ E[i].col \in Int
  BY SizeAssumption DEF OutlineOf, CornersOf
<1>2. ASSUME NEW i \in 1..Len(E)
      PROVE  VCovers(E, i, r, c) <=> VCovers(E, i, r-1, c)
  <2>1. CASE HasBelow(E[i].type) /\ E[i].col = c
    <3>1. PICK b \in 1..Len(E) : b = E[i].below /\ E[b].col = c
      BY <2>1 DEF OutlineOf, LinesOfEdges
    <3>2. E[i].row /= r /\ E[b].row /= r /\ E[b].row \in Int /\ E[i].row \in Int
      BY <1>1, <2>1, <3>1
    <3> QED
      BY <1>1, <2>1, <3>1, <3>2 DEF VCovers
  <2>2. CASE ~(HasBelow(E[i].type) /\ E[i].col = c)
    BY <2>2 DEF VCovers
  <2> QED
    BY <2>1, <2>2
<1>3. ASSUME NEW i \in 1..Len(E)
      PROVE  HCovers(E, i, r, c) <=> HCovers(E, i, r, c-1)
  <2>1. CASE HasRight(E[i].type) /\ E[i].row = r
    <3>1. PICK b \in 1..Len(E) : b = i+1 /\ E[b].row = r
      BY <2>1 DEF OutlineOf, LinesOfEdges
    <3>2. E[i].col /= c /\ E[b].col /= c /\ E[b].col \in Int /\ E[i].col \in Int
      BY <1>1, <2>1, <3>1
    <3> QED
      BY <1>1, <2>1, <3>1, <3>2 DEF HCovers
  <2>2. CASE ~(HasRight(E[i].type) /\ E[i].row = r)
    BY <2>2 DEF HCovers
  <2> QED
    BY <2>1, <2>2
<1> QED
  BY <1>2, <1>3

\* Where there is no corner a line set passes straight through, in one direction at most.
LEMMA NoCornerSides ==
  ASSUME NEW E, NEW S, OutlineOf(E, S), NEW M, NEW r \in 0..Height, NEW c \in 0..Width,
         \A j \in 1..Len(E) : ~(E[j].row = r /\ E[j].col = c)
  PROVE  /\ VEdge(E, M, r, c) <=> VEdge(E, M, r-1, c)
         /\ HEdge(E, M, r, c) <=> HEdge(E, M, r, c-1)
         /\ ~(VEdge(E, M, r, c) /\ \E i \in 1..Len(E) : HCovers(E, i, r, c))
         /\ ~(HEdge(E, M, r, c) /\ \E i \in 1..Len(E) : VCovers(E, i, r, c))
<1>1. \A i \in 1..Len(E) : /\ VCovers(E, i, r, c) <=> VCovers(E, i, r-1, c)
                           /\ HCovers(E, i, r, c) <=> HCovers(E, i, r, c-1)
  BY NoCornerCovers
<1>2. r \in PixRows /\ r-1 \in PixRows /\ c \in PixCols /\ c-1 \in PixCols
  BY SizeAssumption DEF PixRows, PixCols
<1>3. /\ VSides(E, S, r, c) /\ HSides(E, S, r, c)
      /\ VSides(E, S, r-1, c) /\ HSides(E, S, r, c-1)
  BY <1>2, VSidesAll, HSidesAll
<1>4. ~(/\ \E i \in 1..Len(E) : VCovers(E, i, r, c)
        /\ \E i \in 1..Len(E) : HCovers(E, i, r, c))
  <2>1. S[r-1][c-1] = S[r-1][c] \/ S[r-1][c-1] = S[r][c-1]
    BY NoCornerLines
  <2> QED
    BY <1>1, <1>3, <2>1 DEF VSides, HSides
<1> QED
  BY <1>1, <1>4 DEF VEdge, HEdge

\* At a corner the covered sides are those of the lines that leave it.
LEMMA CornerSides ==
  ASSUME NEW E, NEW S, OutlineOf(E, S), NEW M, LineSet(E, M), NEW i \in 1..Len(E),
         NEW r, NEW c, r = E[i].row, c = E[i].col
  PROVE  /\ VEdge(E, M, r, c)   <=> <<i, "Down">> \in M
         /\ VEdge(E, M, r-1, c) <=> <<i, "Up">> \in M
         /\ HEdge(E, M, r, c)   <=> <<i, "Right">> \in M
         /\ HEdge(E, M, r, c-1) <=> <<i, "Left">> \in M
<1>1. /\ r \in 0..Height /\ c \in 0..Width /\ r \in Int /\ c \in Int /\ Len(E) \in Nat
      /\ \A k \in 1..Len(E) : E[k].row \in Int /\ E[k].col \in Int
  BY SizeAssumption DEF OutlineOf, CornersOf
<1>2. r \in PixRows /\ r-1 \in PixRows /\ c \in PixCols /\ c-1 \in PixCols
  BY <1>1, Grid
<1>3. /\ VSides(E, S, r, c) /\ HSides(E, S, r, c)
      /\ VSides(E, S, r-1, c) /\ HSides(E, S, r, c-1)
  BY <1>1, <1>2, VSidesAll, HSidesAll
<1>4. /\ <<i, "Down">> \in M  => HasBelow(E[i].type) /\ <<E[i].below, "Up">> \in M
      /\ <<i, "Up">> \in M    => HasAbove(E[i].type) /\ <<E[i].above, "Down">> \in M
      /\ <<i, "Right">> \in M => HasRight(E[i].type) /\ <<i+1, "Left">> \in M
      /\ <<i, "Left">> \in M  => HasLeft(E[i].type) /\ <<i-1, "Right">> \in M
  BY LineEnds
<1>5. VEdge(E, M, r, c) <=> <<i, "Down">> \in M
  <2>1. HasBelow(E[i].type) => VCovers(E, i, r, c)
    BY <1>1 DEF VCovers, OutlineOf, LinesOfEdges
  <2>2. \A k \in 1..Len(E) : VCovers(E, k, r, c) => k = i
    <3> SUFFICES ASSUME NEW k \in 1..Len(E), VCovers(E, k, r, c)
                 PROVE  k = i
      OBVIOUS
    <3>1. HasBelow(E[i].type)
      BY <1>3, CornerLines DEF VSides
    <3> QED
      BY <1>3, <2>1, <3>1 DEF VSides
  <2> QED
    BY <1>4, <2>1, <2>2 DEF VEdge
<1>6. HEdge(E, M, r, c) <=> <<i, "Right">> \in M
  <2>1. HasRight(E[i].type) => HCovers(E, i, r, c)
    BY <1>1 DEF HCovers, OutlineOf, LinesOfEdges
  <2>2. \A k \in 1..Len(E) : HCovers(E, k, r, c) => k = i
    <3> SUFFICES ASSUME NEW k \in 1..Len(E), HCovers(E, k, r, c)
                 PROVE  k = i
      OBVIOUS
    <3>1. HasRight(E[i].type)
      BY <1>3, CornerLines DEF HSides
    <3> QED
      BY <1>3, <2>1, <3>1 DEF HSides
  <2> QED
    BY <1>4, <2>1, <2>2 DEF HEdge
<1>7. VEdge(E, M, r-1, c) <=> <<i, "Up">> \in M
  <2>1. CASE HasAbove(E[i].type)
    <3>1. PICK a \in 1..Len(E) : /\ a = E[i].above /\ E[a].below = i
                                 /\ HasBelow(E[a].type)
                                 /\ E[a].col = E[i].col /\ E[a].row < E[i].row
      BY <2>1 DEF OutlineOf, LinesOfEdges
    <3>2. VCovers(E, a, r-1, c)
      BY <1>1, <3>1 DEF VCovers
    <3>3. \A k \in 1..Len(E) : VCovers(E, k, r-1, c) => k = a
      BY <1>3, <3>2 DEF VSides
    <3>4. VEdge(E, M, r-1, c) <=> <<a, "Down">> \in M
      BY <3>2, <3>3 DEF VEdge
    <3>5. <<a, "Down">> \in M => <<i, "Up">> \in M
      BY <3>1, LineEnds
    <3> QED
      BY <1>4, <3>1, <3>4, <3>5
  <2>2. CASE ~HasAbove(E[i].type)
    <3>1. \A k \in 1..Len(E) : ~VCovers(E, k, r-1, c)
      BY <1>3, <2>2, CornerLines DEF VSides
    <3> QED
      BY <1>4, <2>2, <3>1 DEF VEdge
  <2> QED
    BY <2>1, <2>2
<1>8. HEdge(E, M, r, c-1) <=> <<i, "Left">> \in M
  <2>1. CASE HasLeft(E[i].type)
    <3>1. PICK a \in 1..Len(E) : /\ a = i-1 /\ a+1 = i
                                 /\ HasRight(E[a].type)
                                 /\ E[a].row = E[i].row /\ E[a].col < E[i].col
      BY <1>1, <2>1 DEF OutlineOf, LinesOfEdges
    <3>2. HCovers(E, a, r, c-1)
      BY <1>1, <3>1 DEF HCovers
    <3>3. \A k \in 1..Len(E) : HCovers(E, k, r, c-1) => k = a
      BY <1>3, <3>2 DEF HSides
    <3>4. HEdge(E, M, r, c-1) <=> <<a, "Right">> \in M
      BY <3>2, <3>3 DEF HEdge
    <3>5. <<a, "Right">> \in M => <<i, "Left">> \in M
      BY <3>1, LineEnds
    <3> QED
      BY <1>4, <3>1, <3>4, <3>5
  <2>2. CASE ~HasLeft(E[i].type)
    <3>1. \A k \in 1..Len(E) : ~HCovers(E, k, r, c-1)
      BY <1>3, <2>2, CornerLines DEF HSides
    <3> QED
      BY <1>4, <2>2, <3>1 DEF HEdge
  <2> QED
    BY <2>1, <2>2
<1> QED
  BY <1>5, <1>6, <1>7, <1>8

-------------------------------------------------------------------------------

(***************************************************************************)
(* A line set with an even number of lines at every corner bounds a        *)
(* picture: each row changes colour where a vertical line crosses it, and  *)
(* then neighbouring rows differ where a horizontal line parts them.       *)
(***************************************************************************)
Even(E, M) ==
  \A i \in 1..Len(E) :
    (<<i, "Up">> \in M <=> <<i, "Down">> \in M)
      <=> (<<i, "Left">> \in M <=> <<i, "Right">> \in M)

\* The rows of the picture, as far as vertical lines make them.
LEMMA RowsExist ==
  ASSUME NEW E, NEW M
  PROVE  \E X \in Picture :
           /\ \A r \in PixRows : X[r][-1] = FALSE
           /\ \A r \in PixRows, c \in 0..Width :
                X[r][c-1] /= X[r][c] <=> VEdge(E, M, r, c)
<1>1. Height \in Nat /\ Width \in Nat
  BY SizeAssumption
<1>2. PICK D : D = [PixRows -> BOOLEAN]
  OBVIOUS
<1>3. PICK none : none = [r \in PixRows |-> FALSE]
  OBVIOUS
<1>4. PICK V : V = [r \in PixRows |-> [c \in Nat |-> VEdge(E, M, r, c)]]
  OBVIOUS
<1>5. PICK G : G = [p \in Nat \X D |-> [r \in PixRows |-> IF V[r][p[1]] THEN ~p[2][r] ELSE p[2][r]]]
  OBVIOUS
<1>6. \A k \in Nat, x \in D :
        /\ G[<<k, x>>] \in D
        /\ \A r \in PixRows : x[r] /= G[<<k, x>>][r] <=> VEdge(E, M, r, k)
  <2> SUFFICES ASSUME NEW k \in Nat, NEW x \in D
               PROVE  /\ G[<<k, x>>] \in D
                      /\ \A r \in PixRows : x[r] /= G[<<k, x>>][r] <=> VEdge(E, M, r, k)
    OBVIOUS
  <2>1. G[<<k, x>>] = [r \in PixRows |-> IF V[r][k] THEN ~x[r] ELSE x[r]]
    BY <1>5
  <2>2. PICK y : y = G[<<k, x>>]
    OBVIOUS
  <2>3. y = [r \in PixRows |-> IF V[r][k] THEN ~x[r] ELSE x[r]]
    BY <2>1, <2>2
  <2>4. \A r \in PixRows : x[r] \in BOOLEAN
    BY <1>2
  <2>5. \A r \in PixRows : y[r] = IF V[r][k] THEN ~x[r] ELSE x[r]
    BY <2>3
  <2>6. \A r \in PixRows : y[r] \in BOOLEAN
    BY <2>4, <2>5
  <2>7. y \in D
    BY <1>2, <2>3, <2>6
  <2>8. \A r \in PixRows : V[r][k] <=> VEdge(E, M, r, k)
    BY <1>4
  <2>9. \A r \in PixRows : x[r] /= y[r] <=> V[r][k]
    BY <2>4, <2>5
  <2> QED
    BY <2>2, <2>7, <2>8, <2>9
<1>7. none \in D /\ Steps(G, D)
  <2>1. none \in D
    BY <1>2, <1>3
  <2> QED
    BY <1>6, <2>1 DEF Steps
<1>8. PICK f : /\ f \in [Nat -> D] /\ f[0] = none
               /\ \A k \in Nat : f[k+1] = G[<<k, f[k]>>]
  BY <1>7, Recursion
<1>9. PICK X : X = [r \in PixRows |-> [c \in PixCols |-> f[c+1][r]]]
  OBVIOUS
<1>10. \A c \in PixCols : c + 1 \in Nat
  BY <1>1 DEF PixCols
<1>11. \A r \in PixRows, c \in PixCols : X[r][c] = f[c+1][r]
  BY <1>9
<1>12. X \in Picture
  <2>1. \A r \in PixRows, c \in PixCols : f[c+1][r] \in BOOLEAN
    BY <1>2, <1>8, <1>10
  <2>2. \A r \in PixRows : [c \in PixCols |-> f[c+1][r]] \in [PixCols -> BOOLEAN]
    BY <2>1
  <2> QED
    BY <1>9, <2>2 DEF Picture
<1>13. \A r \in PixRows : X[r][-1] = FALSE
  <2>1. -1 \in PixCols /\ -1 + 1 = 0
    BY <1>1 DEF PixCols
  <2> QED
    BY <1>3, <1>8, <1>11, <2>1
<1>14. ASSUME NEW r \in PixRows, NEW c \in 0..Width
       PROVE  X[r][c-1] /= X[r][c] <=> VEdge(E, M, r, c)
  <2>1. c \in Nat /\ c \in PixCols /\ c-1 \in PixCols /\ c-1+1 = c
    BY <1>1 DEF PixCols
  <2>2. X[r][c-1] = f[c][r] /\ X[r][c] = f[c+1][r]
    BY <1>11, <2>1
  <2>3. PICK x : x = f[c] /\ x \in D
    BY <1>8, <2>1
  <2>4. f[c+1] = G[<<c, x>>]
    BY <1>8, <2>1, <2>3
  <2>5. x[r] /= G[<<c, x>>][r] <=> VEdge(E, M, r, c)
    BY <1>6, <2>1, <2>3
  <2> QED
    BY <2>2, <2>3, <2>4, <2>5
<1> QED
  BY <1>12, <1>13, <1>14

LEMMA PictureExists ==
  ASSUME NEW E, NEW S, OutlineOf(E, S), NEW M, LineSet(E, M), Even(E, M)
  PROVE  \E X : Bounds(E, X, M)
<1>1. Height \in Nat /\ Width \in Nat /\ Len(E) \in Nat
  BY SizeAssumption DEF OutlineOf, CornersOf
<1>2. PICK X \in Picture :
        /\ \A r \in PixRows : X[r][-1] = FALSE
        /\ \A r \in PixRows, c \in 0..Width :
             X[r][c-1] /= X[r][c] <=> VEdge(E, M, r, c)
  BY RowsExist
<1>3. ASSUME NEW r \in 0..Height, NEW c \in 0..Width
      PROVE  (VEdge(E, M, r-1, c) <=> VEdge(E, M, r, c))
               <=> (HEdge(E, M, r, c-1) <=> HEdge(E, M, r, c))
  <2>1. CASE \E j \in 1..Len(E) : E[j].row = r /\ E[j].col = c
    <3>1. PICK j \in 1..Len(E) : E[j].row = r /\ E[j].col = c
      BY <2>1
    <3>2. /\ VEdge(E, M, r, c)   <=> <<j, "Down">> \in M
          /\ VEdge(E, M, r-1, c) <=> <<j, "Up">> \in M
          /\ HEdge(E, M, r, c)   <=> <<j, "Right">> \in M
          /\ HEdge(E, M, r, c-1) <=> <<j, "Left">> \in M
      BY <3>1, CornerSides
    <3> QED
      BY <3>2 DEF Even
  <2>2. CASE \A j \in 1..Len(E) : ~(E[j].row = r /\ E[j].col = c)
    BY <2>2, NoCornerSides
  <2> QED
    BY <2>1, <2>2
<1>4. ASSUME NEW r \in 0..Height
      PROVE  \A c \in PixCols : X[r-1][c] /= X[r][c] <=> HEdge(E, M, r, c)
  <2> DEFINE T == {k \in Nat : k =< Width + 1 =>
                     (X[r-1][k-1] /= X[r][k-1] <=> HEdge(E, M, r, k-1))}
  <2>1. r-1 \in PixRows /\ r \in PixRows
    BY <1>1 DEF PixRows
  <2>2. 0 \in T
    <3>1. X[r-1][-1] = FALSE /\ X[r][-1] = FALSE
      BY <1>2, <2>1
    <3>2. \A i \in 1..Len(E) : E[i].col >= 0 /\ E[i].col \in Int
      BY <1>1 DEF OutlineOf, CornersOf
    <3>3. \A i \in 1..Len(E) : ~HCovers(E, i, r, -1)
      BY <3>2 DEF HCovers
    <3>4. ~HEdge(E, M, r, -1)
      BY <3>3 DEF HEdge
    <3>5. 0 - 1 = -1
      OBVIOUS
    <3> QED
      BY <3>1, <3>5, <3>4
  <2>3. ASSUME NEW k \in Nat, k \in T
        PROVE  k + 1 \in T
    <3>1. CASE k =< Width
      <4>1. k \in 0..Width /\ k \in PixCols /\ k-1 \in PixCols
        BY <1>1, <3>1 DEF PixCols
      <4>2. /\ X[r-1][k-1] /= X[r-1][k] <=> VEdge(E, M, r-1, k)
            /\ X[r][k-1] /= X[r][k] <=> VEdge(E, M, r, k)
        BY <1>2, <2>1, <4>1
      <4>3. X[r-1][k-1] /= X[r][k-1] <=> HEdge(E, M, r, k-1)
        BY <1>1, <2>3, <3>1
      <4>4. (VEdge(E, M, r-1, k) <=> VEdge(E, M, r, k))
              <=> (HEdge(E, M, r, k-1) <=> HEdge(E, M, r, k))
        BY <1>3, <4>1
      <4>5. /\ X[r-1][k-1] \in BOOLEAN /\ X[r-1][k] \in BOOLEAN
            /\ X[r][k-1] \in BOOLEAN /\ X[r][k] \in BOOLEAN
        BY <2>1, <4>1 DEF Picture
      <4>6. X[r-1][k] /= X[r][k] <=> HEdge(E, M, r, k)
        BY <4>2, <4>3, <4>4, <4>5
      <4>7. k + 1 - 1 = k
        OBVIOUS
      <4> QED
        BY <4>6, <4>7
    <3>2. CASE ~(k =< Width)
      BY <1>1, <3>2
    <3> QED
      BY <3>1, <3>2
  <2> HIDE DEF T
  <2>4. \A k \in Nat : k \in T
    BY <2>2, <2>3, Induction
  <2>5. ASSUME NEW c \in PixCols
        PROVE  X[r-1][c] /= X[r][c] <=> HEdge(E, M, r, c)
    <3>1. PICK k \in Nat : k = c + 1 /\ k =< Width + 1 /\ k - 1 = c
      BY <1>1 DEF PixCols
    <3>2. X[r-1][k-1] /= X[r][k-1] <=> HEdge(E, M, r, k-1)
      BY <2>4, <3>1 DEF T
    <3> QED
      BY <3>1, <3>2
  <2> QED
    BY <2>5
<1> QED
  BY <1>2, <1>4 DEF Bounds

\* All lines of the outline together bound the selected pixels.
LEMMA AllLines ==
  ASSUME NEW E, NEW S, OutlineOf(E, S)
  PROVE  LineSet(E, HalfLines(E)) /\ Bounds(E, S, HalfLines(E))
<1>1. LineSet(E, HalfLines(E))
  <2> SUFFICES ASSUME NEW i \in 1..Len(E), NEW d \in LineDir, HasDir(E[i].type, d)
               PROVE  <<FarEnd(E, i, d), Opposite[d]>> \in HalfLines(E)
    <3>1. \A s \in HalfLines(E) : /\ s = <<s[1], s[2]>>
                                  /\ s[1] \in 1..Len(E) /\ s[2] \in LineDir
                                  /\ HasDir(E[s[1]].type, s[2])
      BY DEF HalfLines
    <3> QED
      BY <3>1 DEF LineSet, Rev
  <2>1. \A k \in 1..Len(E) :
          /\ HasBelow(E[k].type) => <<k, "Down">> \in HalfLines(E)
          /\ HasAbove(E[k].type) => <<k, "Up">> \in HalfLines(E)
          /\ HasRight(E[k].type) => <<k, "Right">> \in HalfLines(E)
          /\ HasLeft(E[k].type)  => <<k, "Left">> \in HalfLines(E)
    BY HalfLine DEF HasDir, LineDir
  <2>2. CASE d = "Right"
    <3>1. i+1 \in 1..Len(E) /\ HasLeft(E[i+1].type)
      BY <2>2 DEF OutlineOf, LinesOfEdges, HasDir
    <3>2. FarEnd(E, i, d) = i+1 /\ Opposite[d] = "Left"
      BY <2>2 DEF FarEnd, Opposite
    <3> QED
      BY <2>1, <3>1, <3>2
  <2>3. CASE d = "Left"
    <3>1. i-1 \in 1..Len(E) /\ HasRight(E[i-1].type)
      BY <2>3 DEF OutlineOf, LinesOfEdges, HasDir
    <3>2. FarEnd(E, i, d) = i-1 /\ Opposite[d] = "Right"
      BY <2>3 DEF FarEnd, Opposite
    <3> QED
      BY <2>1, <3>1, <3>2
  <2>4. CASE d = "Down"
    <3>1. E[i].below \in 1..Len(E) /\ HasAbove(E[E[i].below].type)
      BY <2>4 DEF OutlineOf, LinesOfEdges, HasDir
    <3>2. FarEnd(E, i, d) = E[i].below /\ Opposite[d] = "Up"
      BY <2>4 DEF FarEnd, Opposite
    <3> QED
      BY <2>1, <3>1, <3>2
  <2>5. CASE d = "Up"
    <3>1. E[i].above \in 1..Len(E) /\ HasBelow(E[E[i].above].type)
      BY <2>5 DEF OutlineOf, LinesOfEdges, HasDir
    <3>2. FarEnd(E, i, d) = E[i].above /\ Opposite[d] = "Down"
      BY <2>5 DEF FarEnd, Opposite
    <3> QED
      BY <2>1, <3>1, <3>2
  <2> QED
    BY <2>2, <2>3, <2>4, <2>5 DEF LineDir
<1>2. \A i \in 1..Len(E) : \A r, c :
        /\ VCovers(E, i, r, c) => <<i, "Down">> \in HalfLines(E)
        /\ HCovers(E, i, r, c) => <<i, "Right">> \in HalfLines(E)
  BY HalfLine DEF VCovers, HCovers, HasDir, LineDir
<1>3. /\ \A r \in PixRows, c \in 0..Width :
           S[r][c-1] /= S[r][c] <=> VEdge(E, HalfLines(E), r, c)
      /\ \A r \in 0..Height, c \in PixCols :
           S[r-1][c] /= S[r][c] <=> HEdge(E, HalfLines(E), r, c)
  <2>1. PICK M : M = HalfLines(E)
    OBVIOUS
  <2>2. \A r, c : /\ VEdge(E, M, r, c) <=> \E i \in 1..Len(E) : VCovers(E, i, r, c)
                  /\ HEdge(E, M, r, c) <=> \E i \in 1..Len(E) : HCovers(E, i, r, c)
    BY <1>2, <2>1 DEF VEdge, HEdge
  <2>3. \A r \in PixRows, c \in 0..Width : S[r][c-1] /= S[r][c] <=> VEdge(E, M, r, c)
    BY <2>2, VSidesAll DEF VSides
  <2>4. \A r \in 0..Height, c \in PixCols : S[r-1][c] /= S[r][c] <=> HEdge(E, M, r, c)
    BY <2>2, HSidesAll DEF HSides
  <2> QED
    BY <2>1, <2>3, <2>4
<1> QED
  BY <1>1, <1>3 DEF Bounds, OutlineOf, Bordered

-------------------------------------------------------------------------------

(***************************************************************************)
(* The pixels beside a line.  Of the four pixels around a vertex a line    *)
(* that leaves it has one on its right and one on its left.                *)
(***************************************************************************)
QuadRight(d, nw, ne, sw, se) == CASE d = "Right" -> se [] d = "Left" -> nw
                                  [] d = "Down" -> sw [] d = "Up" -> ne
QuadLeft(d, nw, ne, sw, se)  == CASE d = "Right" -> ne [] d = "Left" -> sw
                                  [] d = "Down" -> se [] d = "Up" -> nw

RightOf(E, X, s) == LET r == E[s[1]].row
                        c == E[s[1]].col
                    IN  QuadRight(s[2], X[r-1][c-1], X[r-1][c], X[r][c-1], X[r][c])
LeftOf(E, X, s)  == LET r == E[s[1]].row
                        c == E[s[1]].col
                    IN  QuadLeft(s[2], X[r-1][c-1], X[r-1][c], X[r][c-1], X[r][c])

\* Values that do not change from one to the next are all the same.
LEMMA NoChange ==
  ASSUME NEW f, NEW a \in Int, NEW b \in Int, a =< b,
         \A k \in a+1 .. b : f[k-1] = f[k]
  PROVE  f[a] = f[b]
<1> DEFINE T == {n \in Nat : a + n =< b => f[a+n] = f[a]}
<1>1. 0 \in T
  OBVIOUS
<1>2. ASSUME NEW n \in Nat, n \in T
      PROVE  n + 1 \in T
  <2>1. CASE a + (n + 1) =< b
    <3>1. f[a+n] = f[a]
      BY <1>2, <2>1
    <3>2. PICK k \in a+1 .. b : k = a + (n + 1) /\ k - 1 = a + n
      BY <2>1
    <3>3. f[k-1] = f[k]
      BY <3>2
    <3> QED
      BY <3>1, <3>2, <3>3
  <2>2. CASE ~(a + (n + 1) =< b)
    BY <2>2
  <2> QED
    BY <2>1, <2>2
<1> HIDE DEF T
<1>3. \A n \in Nat : n \in T
  BY <1>1, <1>2, Induction
<1>4. PICK n \in Nat : a + n = b
  <2>1. b - a \in Nat /\ a + (b - a) = b
    OBVIOUS
  <2> QED
    BY <2>1
<1> QED
  BY <1>3, <1>4 DEF T

\* No corner lies on a line, between its ends.
LEMMA NoCornerOnLine ==
  ASSUME NEW E, NEW S, OutlineOf(E, S), NEW i \in 1..Len(E)
  PROVE  /\ HasRight(E[i].type) => \A c \in E[i].col+1 .. E[i+1].col-1, j \in 1..Len(E) :
                                     ~(E[j].row = E[i].row /\ E[j].col = c)
         /\ HasBelow(E[i].type) => \A r \in E[i].row+1 .. E[E[i].below].row-1, j \in 1..Len(E) :
                                     ~(E[j].row = r /\ E[j].col = E[i].col)
<1>1. /\ Len(E) \in Nat
      /\ \A k \in 1..Len(E) : E[k].row \in 0..Height /\ E[k].col \in 0..Width
      /\ \A k \in 1..Len(E) : E[k].row \in Int /\ E[k].col \in Int
  BY SizeAssumption DEF OutlineOf, CornersOf
<1>2. ASSUME HasRight(E[i].type), NEW c \in E[i].col+1 .. E[i+1].col-1, NEW j \in 1..Len(E),
             E[j].row = E[i].row, E[j].col = c
      PROVE  FALSE
  <2>1. PICK b \in 1..Len(E) : b = i+1 /\ E[b].row = E[i].row
    BY <1>2 DEF OutlineOf, LinesOfEdges
  <2>2. E[i].col < E[j].col /\ E[j].col < E[b].col
    BY <1>1, <1>2, <2>1
  <2>3. ~Precedes(E[j].row, E[j].col, E[i].row, E[i].col)
        /\ ~Precedes(E[b].row, E[b].col, E[j].row, E[j].col)
    BY <1>1, <1>2, <2>1, <2>2 DEF Precedes
  <2>4. ~(j < i) /\ ~(b < j)
    BY <2>3 DEF OutlineOf, CornersOf
  <2>5. j = i \/ j = b
    BY <1>1, <2>1, <2>4
  <2> QED
    BY <1>1, <2>2, <2>5
<1>3. ASSUME HasBelow(E[i].type), NEW r \in E[i].row+1 .. E[E[i].below].row-1,
             NEW j \in 1..Len(E), E[j].row = r, E[j].col = E[i].col
      PROVE  FALSE
  <2>1. PICK b \in 1..Len(E) : b = E[i].below /\ E[b].row > E[i].row
    BY <1>3 DEF OutlineOf, LinesOfEdges
  <2>2. PICK c : c = E[i].col /\ c \in 0..Width
    BY <1>1
  <2>3. r \in Int /\ E[i].row < r /\ r < E[b].row
    BY <1>1, <1>3, <2>1
  <2>4. VCovers(E, i, r, c)
    BY <1>1, <1>3, <2>1, <2>2, <2>3 DEF VCovers
  <2>5. r \in PixRows
    BY <1>1, <1>3 DEF PixRows
  <2>6. VSides(E, S, r, c)
    BY <2>2, <2>5, VSidesAll
  <2>7. HasBelow(E[j].type)
    BY <1>3, <2>2, <2>4, <2>6, CornerLines DEF VSides
  <2>8. VCovers(E, j, r, c)
    BY <1>1, <1>3, <2>2, <2>7 DEF VCovers, OutlineOf, LinesOfEdges
  <2>9. i = j
    BY <2>4, <2>6, <2>8 DEF VSides
  <2> QED
    BY <1>1, <1>3, <2>3, <2>9
<1> QED
  BY <1>2, <1>3

\* A picture that a line set bounds is constant along both sides of every line of the
\* outline, whether or not the line is in the set.
LEMMA AlongRight ==
  ASSUME NEW E, NEW S, OutlineOf(E, S), NEW M, NEW X, Bounds(E, X, M),
         NEW i \in 1..Len(E), HasRight(E[i].type),
         NEW r, NEW a, NEW b, r = E[i].row, a = E[i].col, b = E[i+1].col
  PROVE  X[r][a] = X[r][b-1] /\ X[r-1][a] = X[r-1][b-1]
<1>1. /\ i+1 \in 1..Len(E)
      /\ r \in 0..Height /\ a \in 0..Width /\ b \in 0..Width
      /\ r \in Int /\ a \in Int /\ b \in Int /\ b > a
  BY SizeAssumption DEF OutlineOf, CornersOf, LinesOfEdges
<1>2. ASSUME NEW c \in a+1 .. b-1
      PROVE  X[r][c-1] = X[r][c] /\ X[r-1][c-1] = X[r-1][c]
  <2>1. /\ c \in 0..Width /\ c \in Int
        /\ r \in PixRows /\ r-1 \in PixRows
    <3>1. c \in 0..Width /\ c \in Int
      BY <1>1, SizeAssumption
    <3>2. r \in PixRows /\ r-1 \in PixRows
      BY <1>1, Grid
    <3> QED
      BY <3>1, <3>2
  <2>2. \A j \in 1..Len(E) : ~(E[j].row = r /\ E[j].col = c)
    BY NoCornerOnLine
  <2>3. HCovers(E, i, r, c)
    BY <1>1, <2>1 DEF HCovers
  <2>4. ~VEdge(E, M, r, c) /\ ~VEdge(E, M, r-1, c)
    BY <1>1, <2>1, <2>2, <2>3, NoCornerSides
  <2> QED
    BY <2>1, <2>4 DEF Bounds
<1>3. \A q \in {r, r-1} : X[q][a] = X[q][b-1]
  <2> SUFFICES ASSUME NEW q \in {r, r-1}
               PROVE  X[q][a] = X[q][b-1]
    OBVIOUS
  <2>1. PICK f, m : f = X[q] /\ m = b - 1 /\ m \in Int /\ a =< m
    BY <1>1
  <2>2. \A c \in a+1 .. m : f[c-1] = f[c]
    BY <1>2, <2>1
  <2>3. f[a] = f[m]
    BY <1>1, <2>1, <2>2, NoChange
  <2> QED
    BY <2>1, <2>3
<1> QED
  BY <1>3

LEMMA AlongDown ==
  ASSUME NEW E, NEW S, OutlineOf(E, S), NEW M, NEW X, Bounds(E, X, M),
         NEW i \in 1..Len(E), HasBelow(E[i].type),
         NEW c, NEW a, NEW b, c = E[i].col, a = E[i].row, b = E[E[i].below].row
  PROVE  X[a][c] = X[b-1][c] /\ X[a][c-1] = X[b-1][c-1]
<1>1. /\ E[i].below \in 1..Len(E)
      /\ c \in 0..Width /\ a \in 0..Height /\ b \in 0..Height
      /\ c \in Int /\ a \in Int /\ b \in Int /\ b > a
  BY SizeAssumption DEF OutlineOf, CornersOf, LinesOfEdges
<1>2. ASSUME NEW r \in a+1 .. b-1
      PROVE  X[r-1][c] = X[r][c] /\ X[r-1][c-1] = X[r][c-1]
  <2>1. r \in 0..Height /\ c \in PixCols /\ c-1 \in PixCols /\ r \in Int
    <3>1. c \in PixCols /\ c-1 \in PixCols
      BY <1>1, Grid
    <3>2. Height \in Int /\ a \in 0..Height /\ b \in 0..Height
      BY <1>1, SizeAssumption
    <3>3. r \in 0..Height /\ r \in Int
      BY SMTT(30), <3>2
    <3> QED
      BY <3>1, <3>2, <3>3
  <2>2. \A j \in 1..Len(E) : ~(E[j].row = r /\ E[j].col = c)
    BY NoCornerOnLine
  <2>3. VCovers(E, i, r, c)
    BY <1>1, <2>1 DEF VCovers
  <2>4. ~HEdge(E, M, r, c) /\ ~HEdge(E, M, r, c-1)
    BY <1>1, <2>1, <2>2, <2>3, NoCornerSides
  <2> QED
    BY <2>1, <2>4 DEF Bounds
<1>3. \A q \in {c, c-1} : X[a][q] = X[b-1][q]
  <2> SUFFICES ASSUME NEW q \in {c, c-1}
               PROVE  X[a][q] = X[b-1][q]
    OBVIOUS
  <2>1. PICK m : m = b - 1 /\ m \in Int /\ a =< m
    BY <1>1
  <2>2. PICK f : f = [r \in Int |-> X[r][q]]
    OBVIOUS
  <2>3. \A r \in Int : f[r] = X[r][q]
    BY <2>2
  <2>4. \A r \in a+1 .. m : f[r-1] = f[r]
    <3> SUFFICES ASSUME NEW r \in a+1 .. m
                 PROVE  f[r-1] = f[r]
      OBVIOUS
    <3>1. r \in Int /\ r-1 \in Int /\ r \in a+1 .. b-1
      BY <1>1, <2>1
    <3>2. X[r-1][q] = X[r][q]
      BY <1>2, <3>1
    <3> QED
      BY <2>3, <3>1, <3>2
  <2>5. f[a] = f[m]
    BY <1>1, <2>1, <2>4, NoChange
  <2> QED
    BY <1>1, <2>1, <2>3, <2>5
<1> QED
  BY <1>3

LEMMA AlongLine ==
  ASSUME NEW E, NEW S, OutlineOf(E, S), NEW M, NEW X, Bounds(E, X, M),
         NEW s \in HalfLines(E)
  PROVE  /\ RightOf(E, X, s) = LeftOf(E, X, Rev(E, s))
         /\ LeftOf(E, X, s) = RightOf(E, X, Rev(E, s))
<1>1. PICK i \in 1..Len(E), d \in LineDir : s = <<i, d>> /\ HasDir(E[i].type, d)
  BY DEF HalfLines
<1>2. CASE d = "Right"
  <2>1. PICK n : n = i+1 /\ E[n].row = E[i].row
    BY <1>1, <1>2 DEF OutlineOf, LinesOfEdges, HasDir
  <2>2. Rev(E, s) = <<n, "Left">>
    BY <1>1, <1>2, <2>1 DEF Rev, FarEnd, Opposite
  <2>3. PICK r, a, b : r = E[i].row /\ a = E[i].col /\ b = E[n].col
    OBVIOUS
  <2>4. X[r][a] = X[r][b-1] /\ X[r-1][a] = X[r-1][b-1]
    <3>1. HasRight(E[i].type)
      BY <1>1, <1>2 DEF HasDir
    <3>2. b = E[i+1].col
      BY <2>1, <2>3
    <3> QED
      BY <2>3, <3>1, <3>2, AlongRight
  <2>5. RightOf(E, X, s) = X[r][a] /\ LeftOf(E, X, s) = X[r-1][a]
    BY <1>1, <1>2, <2>1, <2>3 DEF RightOf, LeftOf, QuadRight, QuadLeft
  <2>6. RightOf(E, X, Rev(E, s)) = X[r-1][b-1] /\ LeftOf(E, X, Rev(E, s)) = X[r][b-1]
    BY <2>1, <2>2, <2>3 DEF RightOf, LeftOf, QuadRight, QuadLeft
  <2> QED
    BY <2>4, <2>5, <2>6
<1>3. CASE d = "Left"
  <2>1. PICK n \in 1..Len(E) : n = i-1 /\ n+1 = i /\ E[n].row = E[i].row /\ HasRight(E[n].type)
    BY <1>1, <1>3 DEF OutlineOf, LinesOfEdges, HasDir, CornersOf
  <2>2. Rev(E, s) = <<n, "Right">>
    BY <1>1, <1>3, <2>1 DEF Rev, FarEnd, Opposite
  <2>3. PICK r, a, b : r = E[n].row /\ a = E[n].col /\ b = E[i].col
    OBVIOUS
  <2>4. X[r][a] = X[r][b-1] /\ X[r-1][a] = X[r-1][b-1]
    <3>1. b = E[n+1].col
      BY <2>1, <2>3
    <3> QED
      BY <2>1, <2>3, <3>1, AlongRight
  <2>5. RightOf(E, X, s) = X[r-1][b-1] /\ LeftOf(E, X, s) = X[r][b-1]
    BY <1>1, <1>3, <2>1, <2>3 DEF RightOf, LeftOf, QuadRight, QuadLeft
  <2>6. RightOf(E, X, Rev(E, s)) = X[r][a] /\ LeftOf(E, X, Rev(E, s)) = X[r-1][a]
    BY <2>1, <2>2, <2>3 DEF RightOf, LeftOf, QuadRight, QuadLeft
  <2> QED
    BY <2>4, <2>5, <2>6
<1>4. CASE d = "Down"
  <2>1. PICK n : n = E[i].below /\ E[n].col = E[i].col
    BY <1>1, <1>4 DEF OutlineOf, LinesOfEdges, HasDir
  <2>2. Rev(E, s) = <<n, "Up">>
    BY <1>1, <1>4, <2>1 DEF Rev, FarEnd, Opposite
  <2>3. PICK c, a, b : c = E[i].col /\ a = E[i].row /\ b = E[n].row
    OBVIOUS
  <2>4. X[a][c] = X[b-1][c] /\ X[a][c-1] = X[b-1][c-1]
    <3>1. HasBelow(E[i].type)
      BY <1>1, <1>4 DEF HasDir
    <3>2. b = E[E[i].below].row
      BY <2>1, <2>3
    <3> QED
      BY <2>3, <3>1, <3>2, AlongDown
  <2>5. RightOf(E, X, s) = X[a][c-1] /\ LeftOf(E, X, s) = X[a][c]
    BY <1>1, <1>4, <2>1, <2>3 DEF RightOf, LeftOf, QuadRight, QuadLeft
  <2>6. RightOf(E, X, Rev(E, s)) = X[b-1][c] /\ LeftOf(E, X, Rev(E, s)) = X[b-1][c-1]
    BY <2>1, <2>2, <2>3 DEF RightOf, LeftOf, QuadRight, QuadLeft
  <2> QED
    BY <2>4, <2>5, <2>6
<1>5. CASE d = "Up"
  <2>1. PICK n \in 1..Len(E) : /\ n = E[i].above /\ E[n].below = i
                               /\ E[n].col = E[i].col /\ HasBelow(E[n].type)
    BY <1>1, <1>5 DEF OutlineOf, LinesOfEdges, HasDir
  <2>2. Rev(E, s) = <<n, "Down">>
    BY <1>1, <1>5, <2>1 DEF Rev, FarEnd, Opposite
  <2>3. PICK c, a, b : c = E[n].col /\ a = E[n].row /\ b = E[i].row
    OBVIOUS
  <2>4. X[a][c] = X[b-1][c] /\ X[a][c-1] = X[b-1][c-1]
    BY <2>1, <2>3, AlongDown
  <2>5. RightOf(E, X, s) = X[b-1][c] /\ LeftOf(E, X, s) = X[b-1][c-1]
    BY <1>1, <1>5, <2>1, <2>3 DEF RightOf, LeftOf, QuadRight, QuadLeft
  <2>6. RightOf(E, X, Rev(E, s)) = X[a][c-1] /\ LeftOf(E, X, Rev(E, s)) = X[a][c]
    BY <2>1, <2>2, <2>3 DEF RightOf, LeftOf, QuadRight, QuadLeft
  <2> QED
    BY <2>4, <2>5, <2>6
<1> QED
  BY <1>2, <1>3, <1>4, <1>5 DEF LineDir

-------------------------------------------------------------------------------

(***************************************************************************)
(* The turns of a walk.  "has" says which of the four lines that meet at a *)
(* vertex belong to a set: neighbouring pixels around the vertex differ    *)
(* where the line between them does.                                       *)
(***************************************************************************)
Colours(has, nw, ne, sw, se) == /\ has["Up"]    <=> nw /= ne
                                /\ has["Down"]  <=> sw /= se
                                /\ has["Left"]  <=> nw /= sw
                                /\ has["Right"] <=> ne /= se

LEMMA OppositeDirs ==
  /\ Opposite["Down"] = "Up" /\ Opposite["Up"] = "Down"
  /\ Opposite["Right"] = "Left" /\ Opposite["Left"] = "Right"
  /\ \A d \in LineDir : Opposite[d] \in LineDir /\ Opposite[d] /= d /\ Opposite[Opposite[d]] = d
  BY DEF Opposite, LineDir

\* The turns, one by one.
LEMMA TurnTable ==
  ASSUME NEW d \in LineDir, NEW t \in DOMAIN Turn[d]
  PROVE  \/ d = "Right" /\ \/ t = "BottomLeft" /\ Turn[d][t] = "Down"
                           \/ t = "TopLeft"    /\ Turn[d][t] = "Up"
                           \/ t = "Cross"      /\ Turn[d][t] = "Down"
         \/ d = "Left"  /\ \/ t = "BottomRight" /\ Turn[d][t] = "Down"
                           \/ t = "TopRight"    /\ Turn[d][t] = "Up"
                           \/ t = "Cross"       /\ Turn[d][t] = "Up"
         \/ d = "Down"  /\ \/ t = "TopLeft"  /\ Turn[d][t] = "Left"
                           \/ t = "TopRight" /\ Turn[d][t] = "Right"
                           \/ t = "Cross"    /\ Turn[d][t] = "Left"
         \/ d = "Up"    /\ \/ t = "BottomLeft"  /\ Turn[d][t] = "Left"
                           \/ t = "BottomRight" /\ Turn[d][t] = "Right"
                           \/ t = "Cross"       /\ Turn[d][t] = "Right"
  BY DEF Turn, LineDir

\* The lines of an edge, one by one.
LEMMA TypeTable ==
  ASSUME NEW d \in LineDir
  PROVE  /\ HasDir("TopLeft", d)     <=> d \in {"Up", "Left"}
         /\ HasDir("TopRight", d)    <=> d \in {"Up", "Right"}
         /\ HasDir("BottomLeft", d)  <=> d \in {"Down", "Left"}
         /\ HasDir("BottomRight", d) <=> d \in {"Down", "Right"}
         /\ HasDir("Cross", d)
  BY DEF HasDir, HasAbove, HasBelow, HasLeft, HasRight, LineDir

\* A turn keeps the selected pixels on its right as they are.
LEMMA TurnKeepsRight ==
  ASSUME NEW d \in LineDir, NEW t \in DOMAIN Turn[d],
         NEW nw \in BOOLEAN, NEW ne \in BOOLEAN, NEW sw \in BOOLEAN, NEW se \in BOOLEAN,
         NEW has, \A x \in LineDir : has[x] <=> HasDir(t, x),
         Colours(has, nw, ne, sw, se)
  PROVE  QuadRight(Turn[d][t], nw, ne, sw, se) = QuadLeft(Opposite[d], nw, ne, sw, se)
  BY TurnTable, TypeTable, OppositeDirs DEF Colours, QuadRight, QuadLeft, LineDir

\* A turn past lines of a set that it does not follow meets one colour only.
LEMMA TurnKeepsColour ==
  ASSUME NEW d \in LineDir, NEW t \in DOMAIN Turn[d],
         NEW nw \in BOOLEAN, NEW ne \in BOOLEAN, NEW sw \in BOOLEAN, NEW se \in BOOLEAN,
         NEW has, \A x \in LineDir : has[x] => HasDir(t, x),
         Colours(has, nw, ne, sw, se),
         ~has[Opposite[d]], ~has[Turn[d][t]]
  PROVE  LET v == QuadLeft(Opposite[d], nw, ne, sw, se)
         IN  /\ QuadRight(Turn[d][t], nw, ne, sw, se) = v
             /\ QuadLeft(Turn[d][t], nw, ne, sw, se) = v
  BY TurnTable, TypeTable, OppositeDirs DEF Colours, QuadRight, QuadLeft, LineDir

\* A turn goes into a direction the edge has a line in.
LEMMA TurnHasLine ==
  ASSUME NEW d \in LineDir, NEW t \in DOMAIN Turn[d]
  PROVE  Turn[d][t] \in LineDir /\ HasDir(t, Turn[d][t])
  BY DEF LineDir, Turn, HasDir, HasRight, HasLeft, HasBelow, HasAbove

\* Where a line comes in, the walk can turn: nothing is left out of Turn.
LEMMA LineHasTurn ==
  ASSUME NEW t \in EdgeType, NEW d \in LineDir,
         \/ d = "Right" /\ HasLeft(t)
         \/ d = "Left"  /\ HasRight(t)
         \/ d = "Down"  /\ HasAbove(t)
         \/ d = "Up"    /\ HasBelow(t)
  PROVE  t \in DOMAIN Turn[d]
  BY DEF EdgeType, LineDir, Turn, HasRight, HasLeft, HasBelow, HasAbove

-------------------------------------------------------------------------------

(***************************************************************************)
(* The step of a walk from a half-line to the next, and paths of steps.    *)
(***************************************************************************)
Succ(E, s) == LET n == FarEnd(E, s[1], s[2]) IN <<n, Turn[s[2]][E[n].type]>>

Path(E, p) == /\ p \in Seq(HalfLines(E)) /\ Len(p) > 0
              /\ p[1][2] = "Right"
              /\ \A k \in 1 .. Len(p)-1 : p[k+1] = Succ(E, p[k])

\* A step of a walk, its reverse, and its continuation, end by end.
LEMMA StepEnds ==
  ASSUME NEW E, NEW S, OutlineOf(E, S), NEW i \in 1..Len(E), NEW d \in LineDir,
         HasDir(E[i].type, d)
  PROVE  LET n == FarEnd(E, i, d)
         IN  /\ n \in 1..Len(E) /\ E[n].type \in DOMAIN Turn[d] /\ n /= i
             /\ HasDir(E[n].type, Opposite[d]) /\ FarEnd(E, n, Opposite[d]) = i
<1>1. /\ Len(E) \in Nat /\ \A k \in 1..Len(E) : E[k].type \in EdgeType
      /\ \A k \in 1..Len(E) : E[k].row \in Int
  BY SizeAssumption DEF OutlineOf, CornersOf
<1>2. CASE d = "Right"
  <2>1. PICK n \in 1..Len(E) : n = i+1 /\ n-1 = i /\ HasLeft(E[n].type)
    BY <1>1, <1>2 DEF OutlineOf, LinesOfEdges, HasDir
  <2> QED
    BY <1>1, <1>2, <2>1, LineHasTurn, OppositeDirs DEF FarEnd, HasDir
<1>3. CASE d = "Left"
  <2>1. PICK n \in 1..Len(E) : n = i-1 /\ n+1 = i /\ HasRight(E[n].type)
    BY <1>1, <1>3 DEF OutlineOf, LinesOfEdges, HasDir
  <2> QED
    BY <1>1, <1>3, <2>1, LineHasTurn, OppositeDirs DEF FarEnd, HasDir
<1>4. CASE d = "Down"
  <2>1. PICK n \in 1..Len(E) : /\ n = E[i].below /\ E[n].above = i /\ HasAbove(E[n].type)
                               /\ E[n].row > E[i].row
    BY <1>1, <1>4 DEF OutlineOf, LinesOfEdges, HasDir
  <2> QED
    BY <1>1, <1>4, <2>1, LineHasTurn, OppositeDirs DEF FarEnd, HasDir
<1>5. CASE d = "Up"
  <2>1. PICK n \in 1..Len(E) : /\ n = E[i].above /\ E[n].below = i /\ HasBelow(E[n].type)
                               /\ E[n].row < E[i].row
    BY <1>1, <1>5 DEF OutlineOf, LinesOfEdges, HasDir
  <2> QED
    BY <1>1, <1>5, <2>1, LineHasTurn, OppositeDirs DEF FarEnd, HasDir
<1> QED
  BY <1>2, <1>3, <1>4, <1>5 DEF LineDir

LEMMA StepTypes ==
  ASSUME NEW E, NEW S, OutlineOf(E, S), NEW s \in HalfLines(E)
  PROVE  /\ s = <<s[1], s[2]>> /\ s[1] \in 1..Len(E) /\ s[2] \in LineDir
         /\ Rev(E, s) \in HalfLines(E) /\ Rev(E, Rev(E, s)) = s /\ Rev(E, s) /= s
         /\ Rev(E, s)[1] /= s[1]
         /\ Succ(E, s) \in HalfLines(E) /\ Succ(E, s)[1] = Rev(E, s)[1]
         /\ E[Rev(E, s)[1]].type \in DOMAIN Turn[s[2]]
<1>1. PICK i \in 1..Len(E), d \in LineDir : s = <<i, d>> /\ HasDir(E[i].type, d)
  BY DEF HalfLines
<1>2. PICK n : n = FarEnd(E, i, d)
  OBVIOUS
<1>3. /\ n \in 1..Len(E) /\ E[n].type \in DOMAIN Turn[d] /\ n /= i
      /\ HasDir(E[n].type, Opposite[d]) /\ FarEnd(E, n, Opposite[d]) = i
  BY <1>1, <1>2, StepEnds
<1>4. Rev(E, s) = <<n, Opposite[d]>> /\ Succ(E, s) = <<n, Turn[d][E[n].type]>>
  BY <1>1, <1>2 DEF Rev, Succ
<1>5. Rev(E, s) \in HalfLines(E) /\ Succ(E, s) \in HalfLines(E)
  BY <1>3, <1>4, HalfLine, OppositeDirs, TurnHasLine
<1>6. Rev(E, Rev(E, s)) = s
  BY <1>1, <1>3, <1>4, OppositeDirs DEF Rev
<1> QED
  BY <1>1, <1>3, <1>4, <1>5, <1>6

\* What the first half-line of a path has, and every step hands on, all of them have.
LEMMA PathInduction ==
  ASSUME NEW E, NEW p, Path(E, p), NEW A, p[1] \in A,
         \A k \in 1 .. Len(p)-1 : p[k] \in A => p[k+1] \in A
  PROVE  \A k \in 1..Len(p) : p[k] \in A
<1> DEFINE T == {n \in Nat : n + 1 =< Len(p) => p[n+1] \in A}
<1>1. Len(p) \in Nat
  BY DEF Path
<1>2. 0 \in T
  OBVIOUS
<1>3. ASSUME NEW n \in Nat, n \in T
      PROVE  n + 1 \in T
  <2>1. CASE (n + 1) + 1 =< Len(p)
    <3>1. PICK k \in 1 .. Len(p)-1 : k = n + 1
      BY <1>1, <2>1
    <3>2. p[k] \in A
      BY <1>1, <1>3, <2>1, <3>1
    <3> QED
      BY <3>1, <3>2
  <2>2. CASE ~((n + 1) + 1 =< Len(p))
    BY <2>2
  <2> QED
    BY <2>1, <2>2
<1> HIDE DEF T
<1>4. \A n \in Nat : n \in T
  BY <1>2, <1>3, Induction
<1>5. ASSUME NEW k \in 1..Len(p)
      PROVE  p[k] \in A
  <2>1. PICK n \in Nat : n + 1 = k
    <3>1. k-1 \in Nat /\ (k-1) + 1 = k
      OBVIOUS
    <3> QED
      BY <3>1
  <2>2. n + 1 =< Len(p) => p[n+1] \in A
    BY <1>4 DEF T
  <2>3. k =< Len(p)
    BY <1>1
  <2> QED
    BY <2>1, <2>2, <2>3
<1> QED
  BY <1>5

LEMMA PathSteps ==
  ASSUME NEW E, NEW p, Path(E, p)
  PROVE  Len(p) \in Nat /\ \A k \in 1..Len(p) : p[k] \in HalfLines(E)
  BY DEF Path

-------------------------------------------------------------------------------

(***************************************************************************)
(* The pixels around a corner and the lines of a set that part them.       *)
(***************************************************************************)
LEMMA CornerColours ==
  ASSUME NEW E, NEW S, OutlineOf(E, S), NEW M, LineSet(E, M), NEW X, Bounds(E, X, M),
         NEW i \in 1..Len(E), NEW r, NEW c, r = E[i].row, c = E[i].col
  PROVE  /\ X[r-1][c-1] \in BOOLEAN /\ X[r-1][c] \in BOOLEAN
         /\ X[r][c-1] \in BOOLEAN /\ X[r][c] \in BOOLEAN
         /\ Colours([d \in LineDir |-> <<i, d>> \in M],
                    X[r-1][c-1], X[r-1][c], X[r][c-1], X[r][c])
         /\ \A d \in LineDir : <<i, d>> \in M => HasDir(E[i].type, d)
<1>1. r \in 0..Height /\ c \in 0..Width
  BY DEF OutlineOf, CornersOf
<1>2. r \in PixRows /\ r-1 \in PixRows /\ c \in PixCols /\ c-1 \in PixCols
  BY <1>1, Grid
<1>3. /\ X[r-1][c-1] \in BOOLEAN /\ X[r-1][c] \in BOOLEAN
      /\ X[r][c-1] \in BOOLEAN /\ X[r][c] \in BOOLEAN
  BY <1>2 DEF Bounds, Picture
<1>4. /\ X[r][c-1] /= X[r][c] <=> <<i, "Down">> \in M
      /\ X[r-1][c-1] /= X[r-1][c] <=> <<i, "Up">> \in M
      /\ X[r-1][c] /= X[r][c] <=> <<i, "Right">> \in M
      /\ X[r-1][c-1] /= X[r][c-1] <=> <<i, "Left">> \in M
  <2>1. /\ VEdge(E, M, r, c)   <=> <<i, "Down">> \in M
        /\ VEdge(E, M, r-1, c) <=> <<i, "Up">> \in M
        /\ HEdge(E, M, r, c)   <=> <<i, "Right">> \in M
        /\ HEdge(E, M, r, c-1) <=> <<i, "Left">> \in M
    BY CornerSides
  <2>2. /\ X[r][c-1] /= X[r][c] <=> VEdge(E, M, r, c)
        /\ X[r-1][c-1] /= X[r-1][c] <=> VEdge(E, M, r-1, c)
        /\ X[r-1][c] /= X[r][c] <=> HEdge(E, M, r, c)
        /\ X[r-1][c-1] /= X[r][c-1] <=> HEdge(E, M, r, c-1)
    BY <1>1, <1>2 DEF Bounds
  <2> QED
    BY <2>1, <2>2
<1>5. Colours([d \in LineDir |-> <<i, d>> \in M],
              X[r-1][c-1], X[r-1][c], X[r][c-1], X[r][c])
  BY <1>4 DEF Colours, LineDir
<1>6. \A d \in LineDir : <<i, d>> \in M => HasDir(E[i].type, d)
  BY HalfLine DEF LineSet
<1> QED
  BY <1>3, <1>5, <1>6

\* A step keeps the selected pixels on its right as they are.
LEMMA StepKeepsRight ==
  ASSUME NEW E, NEW S, OutlineOf(E, S), NEW s \in HalfLines(E)
  PROVE  RightOf(E, S, Succ(E, s)) = RightOf(E, S, s)
<1>1. PICK n, d, M : n = Rev(E, s)[1] /\ d = s[2] /\ M = HalfLines(E)
  OBVIOUS
<1>2. /\ n \in 1..Len(E) /\ d \in LineDir /\ E[n].type \in DOMAIN Turn[d]
      /\ Rev(E, s) = <<n, Opposite[d]>> /\ Succ(E, s) = <<n, Turn[d][E[n].type]>>
  BY <1>1, StepTypes DEF Rev, Succ
<1>3. LineSet(E, M) /\ Bounds(E, S, M)
  BY <1>1, AllLines
<1>4. RightOf(E, S, s) = LeftOf(E, S, Rev(E, s))
  BY <1>3, AlongLine
<1>5. PICK r, c : r = E[n].row /\ c = E[n].col
  OBVIOUS
<1>6. PICK nw, ne, sw, se : /\ nw = S[r-1][c-1] /\ ne = S[r-1][c]
                            /\ sw = S[r][c-1] /\ se = S[r][c]
  OBVIOUS
<1>7. PICK has : has = [x \in LineDir |-> <<n, x>> \in M]
  OBVIOUS
<1>8. nw \in BOOLEAN /\ ne \in BOOLEAN /\ sw \in BOOLEAN /\ se \in BOOLEAN
      /\ Colours(has, nw, ne, sw, se)
  BY <1>2, <1>3, <1>5, <1>6, <1>7, CornerColours
<1>9. \A x \in LineDir : has[x] <=> HasDir(E[n].type, x)
  BY <1>1, <1>2, <1>7, HalfLine
<1>10. QuadRight(Turn[d][E[n].type], nw, ne, sw, se) = QuadLeft(Opposite[d], nw, ne, sw, se)
  BY <1>2, <1>8, <1>9, TurnKeepsRight
<1> QED
  BY SMTT(30), <1>2, <1>4, <1>5, <1>6, <1>10 DEF RightOf, LeftOf

\* A step past a set of lines keeps the one colour beside it.
LEMMA StepKeepsColour ==
  ASSUME NEW E, NEW S, OutlineOf(E, S), NEW M, LineSet(E, M), NEW X, Bounds(E, X, M),
         NEW s \in HalfLines(E), Rev(E, s) \notin M, Succ(E, s) \notin M,
         LeftOf(E, X, s) = RightOf(E, X, s)
  PROVE  /\ RightOf(E, X, Succ(E, s)) = RightOf(E, X, s)
         /\ LeftOf(E, X, Succ(E, s)) = RightOf(E, X, s)
<1>1. PICK n, d : n = Rev(E, s)[1] /\ d = s[2]
  OBVIOUS
<1>2. /\ n \in 1..Len(E) /\ d \in LineDir /\ E[n].type \in DOMAIN Turn[d]
      /\ Rev(E, s) = <<n, Opposite[d]>> /\ Succ(E, s) = <<n, Turn[d][E[n].type]>>
  BY <1>1, StepTypes DEF Rev, Succ
<1>3. RightOf(E, X, s) = LeftOf(E, X, Rev(E, s))
  BY AlongLine
<1>4. PICK r, c : r = E[n].row /\ c = E[n].col
  OBVIOUS
<1>5. PICK nw, ne, sw, se : /\ nw = X[r-1][c-1] /\ ne = X[r-1][c]
                            /\ sw = X[r][c-1] /\ se = X[r][c]
  OBVIOUS
<1>6. PICK has : has = [x \in LineDir |-> <<n, x>> \in M]
  OBVIOUS
<1>7. nw \in BOOLEAN /\ ne \in BOOLEAN /\ sw \in BOOLEAN /\ se \in BOOLEAN
      /\ Colours(has, nw, ne, sw, se)
      /\ \A x \in LineDir : <<n, x>> \in M => HasDir(E[n].type, x)
  BY <1>2, <1>4, <1>5, <1>6, CornerColours
<1>8. /\ \A x \in LineDir : has[x] => HasDir(E[n].type, x)
      /\ ~has[Opposite[d]] /\ ~has[Turn[d][E[n].type]]
  BY <1>2, <1>6, <1>7, OppositeDirs, TurnHasLine
<1>9. PICK v : v = QuadLeft(Opposite[d], nw, ne, sw, se)
  OBVIOUS
<1>10. /\ QuadRight(Turn[d][E[n].type], nw, ne, sw, se) = v
       /\ QuadLeft(Turn[d][E[n].type], nw, ne, sw, se) = v
  BY <1>2, <1>7, <1>8, <1>9, TurnKeepsColour
<1>11. LeftOf(E, X, Rev(E, s)) = v
  <2>1. Rev(E, s)[1] = n /\ Rev(E, s)[2] = Opposite[d]
    BY <1>2
  <2> QED
    BY <1>4, <1>5, <1>9, <2>1 DEF LeftOf
<1>12. RightOf(E, X, Succ(E, s)) = v /\ LeftOf(E, X, Succ(E, s)) = v
  <2>1. Succ(E, s)[1] = n /\ Succ(E, s)[2] = Turn[d][E[n].type]
    BY <1>2
  <2> QED
    BY <1>4, <1>5, <1>10, <2>1 DEF RightOf, LeftOf
<1> QED
  BY <1>3, <1>11, <1>12

\* Whether a picture agrees with another beside a half-line.
Agree(E, X, S, s) == /\ RightOf(E, X, s) = RightOf(E, S, s)
                     /\ LeftOf(E, X, s) = LeftOf(E, S, s)

\* A step along lines of the set keeps the agreement with the selected pixels.
LEMMA StepKeepsAgreement ==
  ASSUME NEW E, NEW S, OutlineOf(E, S), NEW M, LineSet(E, M), NEW X, Bounds(E, X, M),
         NEW s \in HalfLines(E), Rev(E, s) \in M, Succ(E, s) \in M, Agree(E, X, S, s)
  PROVE  Agree(E, X, S, Rev(E, s)) /\ Agree(E, X, S, Succ(E, s))
<1>1. PICK n, d, A : n = Rev(E, s)[1] /\ d = s[2] /\ A = HalfLines(E)
  OBVIOUS
<1>2. /\ n \in 1..Len(E) /\ d \in LineDir /\ E[n].type \in DOMAIN Turn[d]
      /\ Rev(E, s) = <<n, Opposite[d]>> /\ Succ(E, s) = <<n, Turn[d][E[n].type]>>
  BY <1>1, StepTypes DEF Rev, Succ
<1>3. LineSet(E, A) /\ Bounds(E, S, A)
  BY <1>1, AllLines
<1>4. Agree(E, X, S, Rev(E, s))
  <2>1. /\ RightOf(E, X, s) = LeftOf(E, X, Rev(E, s))
        /\ LeftOf(E, X, s) = RightOf(E, X, Rev(E, s))
    BY AlongLine
  <2>2. /\ RightOf(E, S, s) = LeftOf(E, S, Rev(E, s))
        /\ LeftOf(E, S, s) = RightOf(E, S, Rev(E, s))
    BY <1>3, AlongLine
  <2> QED
    BY <2>1, <2>2 DEF Agree
<1>5. PICK r, c : r = E[n].row /\ c = E[n].col
  OBVIOUS
<1>6. PICK nw, ne, sw, se : /\ nw = X[r-1][c-1] /\ ne = X[r-1][c]
                            /\ sw = X[r][c-1] /\ se = X[r][c]
  OBVIOUS
<1>7. PICK has : has = [x \in LineDir |-> <<n, x>> \in M]
  OBVIOUS
<1>8. nw \in BOOLEAN /\ ne \in BOOLEAN /\ sw \in BOOLEAN /\ se \in BOOLEAN
      /\ Colours(has, nw, ne, sw, se)
      /\ \A x \in LineDir : <<n, x>> \in M => HasDir(E[n].type, x)
  BY <1>2, <1>5, <1>6, <1>7, CornerColours
<1>9. /\ \A x \in LineDir : has[x] => HasDir(E[n].type, x)
      /\ has[Opposite[d]] /\ has[Turn[d][E[n].type]]
  BY <1>2, <1>7, <1>8, OppositeDirs, TurnHasLine
<1>10. PICK snw, sne, ssw, sse : /\ snw = S[r-1][c-1] /\ sne = S[r-1][c]
                                 /\ ssw = S[r][c-1] /\ sse = S[r][c]
  OBVIOUS
<1>11. PICK all : all = [x \in LineDir |-> <<n, x>> \in A]
  OBVIOUS
<1>12. snw \in BOOLEAN /\ sne \in BOOLEAN /\ ssw \in BOOLEAN /\ sse \in BOOLEAN
       /\ Colours(all, snw, sne, ssw, sse)
  BY <1>2, <1>3, <1>5, <1>10, <1>11, CornerColours
<1>13. \A x \in LineDir : all[x] <=> HasDir(E[n].type, x)
  BY <1>1, <1>2, <1>11, HalfLine
<1>14. /\ QuadLeft(Opposite[d], nw, ne, sw, se) = QuadLeft(Opposite[d], snw, sne, ssw, sse)
       /\ QuadRight(Opposite[d], nw, ne, sw, se) = QuadRight(Opposite[d], snw, sne, ssw, sse)
  <2>1. Rev(E, s)[1] = n /\ Rev(E, s)[2] = Opposite[d]
    BY <1>2
  <2>2. /\ LeftOf(E, X, Rev(E, s)) = QuadLeft(Opposite[d], nw, ne, sw, se)
        /\ RightOf(E, X, Rev(E, s)) = QuadRight(Opposite[d], nw, ne, sw, se)
    BY <1>5, <1>6, <2>1 DEF RightOf, LeftOf
  <2>3. /\ LeftOf(E, S, Rev(E, s)) = QuadLeft(Opposite[d], snw, sne, ssw, sse)
        /\ RightOf(E, S, Rev(E, s)) = QuadRight(Opposite[d], snw, sne, ssw, sse)
    BY <1>5, <1>10, <2>1 DEF RightOf, LeftOf
  <2> QED
    BY <1>4, <2>2, <2>3 DEF Agree
<1>15. PICK t : t = E[n].type /\ t \in DOMAIN Turn[d]
  BY <1>2
<1>16. /\ d \in LineDir /\ has[Opposite[d]] /\ has[Turn[d][t]]
       /\ \A x \in LineDir : has[x] => HasDir(t, x)
       /\ nw \in BOOLEAN /\ ne \in BOOLEAN /\ sw \in BOOLEAN /\ se \in BOOLEAN
       /\ Colours(has, nw, ne, sw, se)
  BY <1>2, <1>8, <1>9, <1>15
<1>17. \A x \in LineDir : all[x] <=> HasDir(t, x)
  BY <1>13, <1>15
<1>18. /\ QuadLeft(Turn[d][t], nw, ne, sw, se) = QuadLeft(Turn[d][t], snw, sne, ssw, sse)
       /\ QuadRight(Turn[d][t], nw, ne, sw, se) = QuadRight(Turn[d][t], snw, sne, ssw, sse)
  <2>1. t \in DOMAIN Turn[d]
    BY <1>15
  <2>2. CASE d \in {"Left", "Right"}
    BY <1>12, <1>14, <1>16, <1>17, <2>1, <2>2, TurnTable, TypeTable, OppositeDirs
    DEF Colours, QuadRight, QuadLeft, LineDir
  <2>3. CASE d \in {"Up", "Down"}
    BY SMTT(30), <1>12, <1>14, <1>16, <1>17, <2>1, <2>3, TurnTable, TypeTable, OppositeDirs
    DEF Colours, QuadRight, QuadLeft, LineDir
  <2> QED
    BY <1>16, <2>2, <2>3 DEF LineDir
<1>19. Agree(E, X, S, Succ(E, s))
  BY SMTT(30), <1>2, <1>5, <1>6, <1>10, <1>15, <1>18 DEF Agree, RightOf, LeftOf
<1> QED
  BY <1>4, <1>19

-------------------------------------------------------------------------------

(***************************************************************************)
(* Above a corner behind which all lines down are in the set, the picture  *)
(* of the set is the selected pixels: every line that crosses the row      *)
(* above the corner starts at an edge before it.                           *)
(***************************************************************************)
LEMMA RowAbove ==
  ASSUME NEW E, NEW S, OutlineOf(E, S), NEW M, LineSet(E, M), NEW X, Bounds(E, X, M),
         NEW e \in 1..Len(E),
         \A j \in 1..Len(E) : j < e /\ HasBelow(E[j].type) => <<j, "Down">> \in M
  PROVE  \A c \in PixCols : X[E[e].row - 1][c] = S[E[e].row - 1][c]
<1>1. /\ Width \in Nat /\ Height \in Nat /\ Len(E) \in Nat /\ E[e].row \in 0..Height
      /\ \A k \in 1..Len(E) : E[k].row \in Int /\ E[k].col \in Int
  BY SizeAssumption DEF OutlineOf, CornersOf
<1>2. PICK r : r = E[e].row - 1 /\ r \in PixRows /\ r \in Int
  BY <1>1, Grid
<1>3. ASSUME NEW c \in 0..Width
      PROVE  VEdge(E, M, r, c) <=> VEdge(E, HalfLines(E), r, c)
  <2>1. ASSUME NEW i \in 1..Len(E), VCovers(E, i, r, c)
        PROVE  <<i, "Down">> \in M
    <3>1. E[i].row < E[e].row /\ HasBelow(E[i].type)
      BY <1>1, <1>2, <2>1 DEF VCovers
    <3>2. i /= e /\ ~Precedes(E[e].row, E[e].col, E[i].row, E[i].col)
      BY <1>1, <3>1 DEF Precedes
    <3>3. ~(e < i)
      BY <3>2 DEF OutlineOf, CornersOf
    <3> QED
      BY <1>1, <3>1, <3>2, <3>3
  <2>2. M \subseteq HalfLines(E)
    BY DEF LineSet
  <2> QED
    BY <2>1, <2>2 DEF VEdge
<1>4. Bounds(E, S, HalfLines(E))
  BY AllLines
<1> DEFINE T == {k \in Nat : k =< Width + 1 => X[r][k-1] = S[r][k-1]}
<1>5. 0 \in T
  <2>1. X[r][-1] = FALSE /\ S[r][-1] = FALSE
    BY <1>2, <1>4 DEF Bounds
  <2>2. 0 - 1 = -1
    OBVIOUS
  <2> QED
    BY <2>1, <2>2
<1>6. ASSUME NEW k \in Nat, k \in T
      PROVE  k + 1 \in T
  <2>1. CASE k =< Width
    <3>1. k \in 0..Width /\ k \in PixCols /\ k-1 \in PixCols
      BY <1>1, <2>1, Grid
    <3>2. X[r][k-1] = S[r][k-1]
      BY <1>1, <1>6, <2>1
    <3>3. /\ X[r][k-1] /= X[r][k] <=> VEdge(E, M, r, k)
          /\ S[r][k-1] /= S[r][k] <=> VEdge(E, HalfLines(E), r, k)
      BY <1>2, <1>4, <3>1 DEF Bounds
    <3>4. X[r][k-1] \in BOOLEAN /\ X[r][k] \in BOOLEAN /\ S[r][k] \in BOOLEAN
      BY <1>2, <1>4, <3>1 DEF Bounds, Picture
    <3>5. X[r][k] = S[r][k]
      BY <1>3, <3>1, <3>2, <3>3, <3>4
    <3>6. k + 1 - 1 = k
      OBVIOUS
    <3> QED
      BY <3>5, <3>6
  <2>2. CASE ~(k =< Width)
    BY <1>1, <2>2
  <2> QED
    BY <2>1, <2>2
<1> HIDE DEF T
<1>7. \A k \in Nat : k \in T
  BY <1>5, <1>6, Induction
<1>8. ASSUME NEW c \in PixCols
      PROVE  X[r][c] = S[r][c]
  <2>1. PICK k \in Nat : k = c + 1 /\ k =< Width + 1 /\ k - 1 = c
    BY <1>1 DEF PixCols
  <2>2. X[r][k-1] = S[r][k-1]
    BY <1>7, <2>1 DEF T
  <2> QED
    BY <2>1, <2>2
<1> QED
  BY <1>2, <1>8

\* A ring starts to the right of an edge behind which all lines down are in the set: if
\* its first line is, too, the picture agrees there, and if not, both of its sides have
\* the colour of the pixel above.
LEMMA StartColours ==
  ASSUME NEW E, NEW S, OutlineOf(E, S), NEW M, LineSet(E, M), NEW X, Bounds(E, X, M),
         NEW e \in 1..Len(E), HasRight(E[e].type),
         \A j \in 1..Len(E) : j < e /\ HasBelow(E[j].type) => <<j, "Down">> \in M
  PROVE  LET s == <<e, "Right">>
         IN  /\ s \in M => Agree(E, X, S, s)
             /\ s \notin M => /\ RightOf(E, X, s) = LeftOf(E, X, s)
                              /\ RightOf(E, X, s) /= RightOf(E, S, s)
<1>1. PICK r, c : r = E[e].row /\ c = E[e].col
  OBVIOUS
<1>2. c \in PixCols
  BY <1>1, Grid DEF OutlineOf, CornersOf
<1>3. X[r-1][c] = S[r-1][c]
  BY <1>1, <1>2, RowAbove
<1>4. PICK A : A = HalfLines(E)
  OBVIOUS
<1>5. LineSet(E, A) /\ Bounds(E, S, A)
  BY <1>4, AllLines
<1>6. "Right" \in LineDir
  BY DEF LineDir
<1>7. /\ X[r-1][c] \in BOOLEAN /\ X[r][c] \in BOOLEAN
      /\ X[r-1][c] /= X[r][c] <=> <<e, "Right">> \in M
  <2>1. PICK nw, ne, sw, se : /\ nw = X[r-1][c-1] /\ ne = X[r-1][c]
                              /\ sw = X[r][c-1] /\ se = X[r][c]
    OBVIOUS
  <2>2. PICK has : has = [d \in LineDir |-> <<e, d>> \in M]
    OBVIOUS
  <2>3. ne \in BOOLEAN /\ se \in BOOLEAN /\ Colours(has, nw, ne, sw, se)
    BY <1>1, <2>1, <2>2, CornerColours
  <2>4. ne /= se <=> has["Right"]
    BY <2>3 DEF Colours
  <2>5. has["Right"] <=> <<e, "Right">> \in M
    BY <1>6, <2>2
  <2> QED
    BY <2>1, <2>3, <2>4, <2>5
<1>8. /\ S[r-1][c] \in BOOLEAN /\ S[r][c] \in BOOLEAN
      /\ S[r-1][c] /= S[r][c] <=> <<e, "Right">> \in A
  <2>1. PICK nw, ne, sw, se : /\ nw = S[r-1][c-1] /\ ne = S[r-1][c]
                              /\ sw = S[r][c-1] /\ se = S[r][c]
    OBVIOUS
  <2>2. PICK has : has = [d \in LineDir |-> <<e, d>> \in A]
    OBVIOUS
  <2>3. ne \in BOOLEAN /\ se \in BOOLEAN /\ Colours(has, nw, ne, sw, se)
    BY <1>1, <1>5, <2>1, <2>2, CornerColours
  <2>4. ne /= se <=> has["Right"]
    BY <2>3 DEF Colours
  <2>5. has["Right"] <=> <<e, "Right">> \in A
    BY <1>6, <2>2
  <2> QED
    BY <2>1, <2>3, <2>4, <2>5
<1>9. <<e, "Right">> \in A
  BY <1>4, <1>6, HalfLine DEF HasDir
<1>10. /\ RightOf(E, X, <<e, "Right">>) = X[r][c] /\ LeftOf(E, X, <<e, "Right">>) = X[r-1][c]
       /\ RightOf(E, S, <<e, "Right">>) = S[r][c] /\ LeftOf(E, S, <<e, "Right">>) = S[r-1][c]
  BY <1>1 DEF RightOf, LeftOf, QuadRight, QuadLeft
<1> QED
  BY <1>3, <1>7, <1>8, <1>9, <1>10 DEF Agree

(***************************************************************************)
(* The walked lines of closed rings bound a picture that agrees with the   *)
(* selected pixels beside all of them.                                     *)
(***************************************************************************)
LEMMA RingAgrees ==
  ASSUME NEW E, NEW S, OutlineOf(E, S), NEW M, LineSet(E, M), NEW X, Bounds(E, X, M),
         NEW p, Path(E, p), \A k \in 1..Len(p) : p[k] \in M,
         \A j \in 1..Len(E) : j < p[1][1] /\ HasBelow(E[j].type) => <<j, "Down">> \in M
  PROVE  \A k \in 1..Len(p) : Agree(E, X, S, p[k]) /\ Agree(E, X, S, Rev(E, p[k]))
<1>1. Len(p) \in Nat /\ Len(p) > 0 /\ \A k \in 1..Len(p) : p[k] \in HalfLines(E)
  BY PathSteps DEF Path
<1>2. PICK A : A = {s \in HalfLines(E) : Agree(E, X, S, s)}
  OBVIOUS
<1>3. p[1] \in A
  <2>1. p[1] \in HalfLines(E) /\ p[1] \in M
    BY <1>1
  <2>2. PICK e \in 1..Len(E) : p[1] = <<e, "Right">> /\ e = p[1][1]
    <3>1. p[1] = <<p[1][1], p[1][2]>> /\ p[1][1] \in 1..Len(E)
      BY <2>1, StepTypes
    <3>2. p[1][2] = "Right"
      BY DEF Path
    <3> QED
      BY <3>1, <3>2
  <2>3. HasRight(E[e].type)
    BY <2>1, <2>2, HalfLine DEF HasDir
  <2>4. Agree(E, X, S, <<e, "Right">>)
    BY <2>1, <2>2, <2>3, StartColours
  <2> QED
    BY <1>2, <2>1, <2>2, <2>4
<1>4. ASSUME NEW k \in 1 .. Len(p)-1, p[k] \in A
      PROVE  p[k+1] \in A
  <2>1. k \in 1..Len(p) /\ k+1 \in 1..Len(p)
    BY <1>1
  <2>2. p[k] \in M /\ p[k+1] \in M /\ p[k+1] = Succ(E, p[k])
    BY <2>1 DEF Path
  <2>3. Rev(E, p[k]) \in M
    BY <2>2 DEF LineSet
  <2>4. p[k] \in HalfLines(E) /\ Agree(E, X, S, p[k])
    BY <1>2, <1>4
  <2>5. Agree(E, X, S, Succ(E, p[k])) /\ Succ(E, p[k]) \in HalfLines(E)
    BY <2>2, <2>3, <2>4, StepKeepsAgreement, StepTypes
  <2> QED
    BY <1>2, <2>2, <2>5
<1>5. \A k \in 1..Len(p) : p[k] \in A
  BY <1>3, <1>4, PathInduction
<1>6. ASSUME NEW s \in HalfLines(E), Agree(E, X, S, s)
      PROVE  Agree(E, X, S, Rev(E, s))
  <2>1. /\ RightOf(E, X, s) = LeftOf(E, X, Rev(E, s))
        /\ LeftOf(E, X, s) = RightOf(E, X, Rev(E, s))
    BY AlongLine
  <2>2. Bounds(E, S, HalfLines(E))
    BY AllLines
  <2>3. /\ RightOf(E, S, s) = LeftOf(E, S, Rev(E, s))
        /\ LeftOf(E, S, s) = RightOf(E, S, Rev(E, s))
    BY <2>2, AlongLine
  <2> QED
    BY <1>6, <2>1, <2>3 DEF Agree
<1> QED
  BY <1>2, <1>5, <1>6

\* The selected pixels on the right of a path are all alike.
LEMMA PathRight ==
  ASSUME NEW E, NEW S, OutlineOf(E, S), NEW p, Path(E, p)
  PROVE  \A k \in 1..Len(p) : RightOf(E, S, p[k]) = RightOf(E, S, p[1])
<1>1. Len(p) \in Nat /\ Len(p) > 0 /\ \A k \in 1..Len(p) : p[k] \in HalfLines(E)
  BY PathSteps DEF Path
<1>2. PICK A : A = {s \in HalfLines(E) : RightOf(E, S, s) = RightOf(E, S, p[1])}
  OBVIOUS
<1>3. p[1] \in A
  BY <1>1, <1>2
<1>4. ASSUME NEW k \in 1 .. Len(p)-1, p[k] \in A
      PROVE  p[k+1] \in A
  <2>1. k+1 \in 1..Len(p) /\ p[k+1] = Succ(E, p[k])
    BY <1>1 DEF Path
  <2>2. RightOf(E, S, Succ(E, p[k])) = RightOf(E, S, p[k])
    BY <1>2, <1>4, StepKeepsRight
  <2> QED
    BY <1>1, <1>2, <1>4, <2>1, <2>2
<1>5. \A k \in 1..Len(p) : p[k] \in A
  BY <1>3, <1>4, PathInduction
<1> QED
  BY <1>2, <1>5

\* Beside a path off the lines of the set, the picture has one colour, and it is not the
\* colour of the selected pixels on the right of the path.
LEMMA PathColour ==
  ASSUME NEW E, NEW S, OutlineOf(E, S), NEW M, LineSet(E, M), NEW X, Bounds(E, X, M),
         NEW q, Path(E, q), \A k \in 1..Len(q) : q[k] \notin M,
         \A j \in 1..Len(E) : j < q[1][1] /\ HasBelow(E[j].type) => <<j, "Down">> \in M
  PROVE  \A k \in 1..Len(q) : /\ RightOf(E, X, q[k]) = LeftOf(E, X, q[k])
                              /\ RightOf(E, X, q[k]) /= RightOf(E, S, q[k])
<1>1. Len(q) \in Nat /\ Len(q) > 0 /\ \A k \in 1..Len(q) : q[k] \in HalfLines(E)
  BY PathSteps DEF Path
<1>2. PICK A : A = {s \in HalfLines(E) : /\ RightOf(E, X, s) = LeftOf(E, X, s)
                                         /\ RightOf(E, X, s) /= RightOf(E, S, s)}
  OBVIOUS
<1>3. q[1] \in A
  <2>1. q[1] \in HalfLines(E) /\ q[1] \notin M
    BY <1>1
  <2>2. PICK e \in 1..Len(E) : q[1] = <<e, "Right">> /\ e = q[1][1]
    <3>1. q[1] = <<q[1][1], q[1][2]>> /\ q[1][1] \in 1..Len(E)
      BY <2>1, StepTypes
    <3>2. q[1][2] = "Right"
      BY DEF Path
    <3> QED
      BY <3>1, <3>2
  <2>3. HasRight(E[e].type)
    BY <2>1, <2>2, HalfLine DEF HasDir
  <2>4. /\ RightOf(E, X, <<e, "Right">>) = LeftOf(E, X, <<e, "Right">>)
        /\ RightOf(E, X, <<e, "Right">>) /= RightOf(E, S, <<e, "Right">>)
    BY <2>1, <2>2, <2>3, StartColours
  <2> QED
    BY <1>2, <2>1, <2>2, <2>4
<1>4. ASSUME NEW k \in 1 .. Len(q)-1, q[k] \in A
      PROVE  q[k+1] \in A
  <2>1. k \in 1..Len(q) /\ k+1 \in 1..Len(q)
    BY <1>1
  <2>2. q[k] \notin M /\ q[k+1] \notin M /\ q[k+1] = Succ(E, q[k])
    BY <2>1 DEF Path
  <2>3. q[k] \in HalfLines(E) /\ RightOf(E, X, q[k]) = LeftOf(E, X, q[k])
        /\ RightOf(E, X, q[k]) /= RightOf(E, S, q[k])
    BY <1>2, <1>4
  <2>4. Rev(E, q[k]) \notin M
    BY <2>2, <2>3, StepTypes DEF LineSet
  <2>5. /\ RightOf(E, X, Succ(E, q[k])) = RightOf(E, X, q[k])
        /\ LeftOf(E, X, Succ(E, q[k])) = RightOf(E, X, q[k])
    BY <2>2, <2>3, <2>4, StepKeepsColour
  <2>6. RightOf(E, S, Succ(E, q[k])) = RightOf(E, S, q[k]) /\ Succ(E, q[k]) \in HalfLines(E)
    BY <2>3, StepKeepsRight, StepTypes
  <2> QED
    BY <1>2, <2>2, <2>3, <2>5, <2>6
<1>5. \A k \in 1..Len(q) : q[k] \in A
  BY <1>3, <1>4, PathInduction
<1> QED
  BY <1>2, <1>5

\* What closed rings are to the set of their lines, when a walk starts at edge e: paths
\* that started before e.
RingsOf(E, M, e) ==
  \A s \in M : \E p : /\ Path(E, p) /\ p[1][1] < e
                      /\ \A k \in 1..Len(p) : p[k] \in M
                      /\ \E k \in 1..Len(p) : s = p[k] \/ s = Rev(E, p[k])

(***************************************************************************)
(* A walk that comes to a cross never turns into a line of an older ring.  *)
(* The picture of the older rings has on the right of the walk another     *)
(* colour than the selected pixels; beside the lines of the older rings it *)
(* agrees with them; and the pixel in the turn is beside both.             *)
(***************************************************************************)
LEMMA OldRingsApart ==
  ASSUME NEW E, NEW S, OutlineOf(E, S), NEW M, LineSet(E, M), Even(E, M),
         NEW q, Path(E, q), RingsOf(E, M, q[1][1]),
         \A k \in 1..Len(q) : q[k] \notin M,
         \A j \in 1..Len(E) : j < q[1][1] /\ HasBelow(E[j].type) => <<j, "Down">> \in M,
         NEW s, s = q[Len(q)], E[Rev(E, s)[1]].type = "Cross"
  PROVE  Succ(E, s) \notin M
<1> SUFFICES ASSUME Succ(E, s) \in M
             PROVE  FALSE
  OBVIOUS
<1>1. Len(q) \in 1..Len(q) /\ s \in HalfLines(E) /\ Len(E) \in Nat
  BY PathSteps DEF Path, OutlineOf, CornersOf
<1>2. PICK X : Bounds(E, X, M)
  BY PictureExists
<1>3. RightOf(E, X, s) /= RightOf(E, S, s)
  BY <1>1, <1>2, PathColour
<1>4. PICK p : /\ Path(E, p) /\ p[1][1] < q[1][1]
               /\ \A k \in 1..Len(p) : p[k] \in M
               /\ \E k \in 1..Len(p) : Succ(E, s) = p[k] \/ Succ(E, s) = Rev(E, p[k])
  BY DEF RingsOf
<1>5. \A j \in 1..Len(E) : j < p[1][1] /\ HasBelow(E[j].type) => <<j, "Down">> \in M
  <2>1. p[1] \in HalfLines(E) /\ q[1] \in HalfLines(E)
    BY <1>4, PathSteps DEF Path
  <2>2. p[1][1] \in 1..Len(E) /\ q[1][1] \in 1..Len(E)
    BY <2>1, StepTypes
  <2> QED
    BY <1>1, <1>4, <2>2
<1>6. Agree(E, X, S, Succ(E, s))
  BY <1>2, <1>4, <1>5, RingAgrees
<1>7. RightOf(E, S, Succ(E, s)) = RightOf(E, S, s)
  BY <1>1, StepKeepsRight
<1>8. RightOf(E, X, Succ(E, s)) = RightOf(E, X, s)
  <2>1. PICK n, d : n = Rev(E, s)[1] /\ d = s[2]
    OBVIOUS
  <2>2. /\ d \in LineDir /\ "Cross" \in DOMAIN Turn[d]
        /\ Rev(E, s) = <<n, Opposite[d]>> /\ Succ(E, s) = <<n, Turn[d]["Cross"]>>
    <3>1. /\ d \in LineDir /\ E[n].type \in DOMAIN Turn[d]
          /\ Rev(E, s) = <<n, Opposite[d]>> /\ Succ(E, s) = <<n, Turn[d][E[n].type]>>
      BY <1>1, <2>1, StepTypes DEF Rev, Succ
    <3>2. E[n].type = "Cross"
      BY <2>1
    <3> QED
      BY <3>1, <3>2
  <2>3. RightOf(E, X, s) = LeftOf(E, X, Rev(E, s))
    BY <1>1, <1>2, AlongLine
  <2>4. \A nw, ne, sw, se :
          QuadRight(Turn[d]["Cross"], nw, ne, sw, se) = QuadLeft(Opposite[d], nw, ne, sw, se)
    BY <2>2, TurnTable, OppositeDirs DEF QuadRight, QuadLeft
  <2>5. RightOf(E, X, Succ(E, s)) = LeftOf(E, X, Rev(E, s))
    BY <2>2, <2>4 DEF RightOf, LeftOf
  <2> QED
    BY <2>3, <2>5
<1> QED
  BY <1>3, <1>6, <1>7, <1>8 DEF Agree

-------------------------------------------------------------------------------

(***************************************************************************)
(* The lines at an edge and its TimesChecked.  T holds the half-lines that *)
(* walks have touched.  A visit to an edge touches two of its half-lines,  *)
(* the one it comes along, against its direction, and the one it turns     *)
(* into.                                                                   *)
(***************************************************************************)
At(T, j) == {d \in LineDir : <<j, d>> \in T}

\* An edge of type t with TimesChecked c, and walked lines in the directions of P.
Fits(t, c, P) ==
  \/ c = PushedTimesChecked(t) /\ \A x \in LineDir : x \notin P
  \/ c = 1 /\ \A x \in LineDir : HasDir(t, x) => x \in P
  \/ /\ t = "Cross" /\ c = 0
     /\ \E d \in LineDir : \A x \in LineDir :
          x \in P <=> x = Opposite[d] \/ x = Turn[d]["Cross"]

Counted(E, c, T) ==
  /\ c \in [1..Len(E) -> Int]
  /\ \A j \in 1..Len(E) : Fits(E[j].type, c[j], At(T, j))

LEMMA AtIs ==
  ASSUME NEW T, NEW j, NEW d \in LineDir
  PROVE  d \in At(T, j) <=> <<j, d>> \in T
  BY DEF At

\* A visit that touches two new lines counts one.
LEMMA VisitFits ==
  ASSUME NEW t \in EdgeType, NEW c, NEW d \in LineDir, t \in DOMAIN Turn[d], NEW P,
         Fits(t, c, P), Opposite[d] \notin P, Turn[d][t] \notin P,
         NEW Q, \A x \in LineDir : x \in Q <=> x \in P \/ x = Opposite[d] \/ x = Turn[d][t]
  PROVE  Fits(t, c+1, Q)
<1>1. /\ Opposite[d] \in LineDir /\ Turn[d][t] \in LineDir /\ HasDir(t, Turn[d][t])
      /\ HasDir(t, Opposite[d])
  <2>1. HasDir(t, Opposite[d])
    BY TurnTable, TypeTable, OppositeDirs DEF LineDir
  <2> QED
    BY <2>1, OppositeDirs, TurnHasLine
<1>2. CASE t /= "Cross"
  <2>1. c = 0 /\ \A x \in LineDir : x \notin P
    BY <1>1, <1>2 DEF Fits, PushedTimesChecked
  <2>2. \A x \in LineDir : HasDir(t, x) => x = Opposite[d] \/ x = Turn[d][t]
    BY <1>2, TurnTable, TypeTable, OppositeDirs DEF LineDir
  <2>3. c + 1 = 1
    BY <2>1
  <2> QED
    BY <2>2, <2>3 DEF Fits
<1>3. CASE t = "Cross" /\ c = -1
  <2>1. \A x \in LineDir : x \notin P
    BY <1>3 DEF Fits, PushedTimesChecked
  <2>2. \A x \in LineDir : x \in Q <=> x = Opposite[d] \/ x = Turn[d]["Cross"]
    BY <1>3, <2>1
  <2>3. c + 1 = 0
    BY <1>3
  <2> QED
    BY <1>3, <2>2, <2>3 DEF Fits
<1>4. CASE t = "Cross" /\ c = 0
  <2>1. PICK b \in LineDir : \A x \in LineDir :
                               x \in P <=> x = Opposite[b] \/ x = Turn[b]["Cross"]
    BY <1>4 DEF Fits, PushedTimesChecked
  <2>2. "Cross" \in DOMAIN Turn[b] /\ "Cross" \in DOMAIN Turn[d]
    BY DEF Turn, LineDir
  <2>3. \A x \in LineDir : x \in P \/ x = Opposite[d] \/ x = Turn[d]["Cross"]
    BY <1>1, <1>4, <2>1, <2>2, TurnTable, OppositeDirs DEF LineDir
  <2>4. c + 1 = 1
    BY <1>4
  <2> QED
    BY <1>4, <2>3, <2>4 DEF Fits
<1>5. CASE t = "Cross" /\ c = 1
  BY <1>1, <1>5 DEF Fits, PushedTimesChecked
<1> QED
  BY <1>2, <1>3, <1>4, <1>5 DEF Fits, PushedTimesChecked

\* Other edges keep their count.
LEMMA SameFits ==
  ASSUME NEW t, NEW c, NEW P, Fits(t, c, P), NEW Q, \A x \in LineDir : x \in Q <=> x \in P
  PROVE  Fits(t, c, Q)
  BY DEF Fits

\* Touched lines that fit the counts are even in number.
LEMMA FitsEven ==
  ASSUME NEW t \in EdgeType, NEW c, NEW P, Fits(t, c, P),
         \A x \in LineDir : x \in P => HasDir(t, x)
  PROVE  ("Up" \in P <=> "Down" \in P) <=> ("Left" \in P <=> "Right" \in P)
<1>1. /\ "Up" \in LineDir /\ "Down" \in LineDir /\ "Left" \in LineDir /\ "Right" \in LineDir
      /\ t \in {"TopLeft", "TopRight", "BottomLeft", "BottomRight", "Cross"}
  BY DEF LineDir, EdgeType
<1>2. CASE \A x \in LineDir : x \notin P
  BY <1>1, <1>2
<1>3. CASE \A x \in LineDir : HasDir(t, x) => x \in P
  BY <1>1, <1>3, TypeTable
<1>4. CASE \E d \in LineDir : \A x \in LineDir :
             x \in P <=> x = Opposite[d] \/ x = Turn[d]["Cross"]
  <2>1. PICK d \in LineDir : \A x \in LineDir :
                               x \in P <=> x = Opposite[d] \/ x = Turn[d]["Cross"]
    BY <1>4
  <2>2. "Cross" \in DOMAIN Turn[d]
    BY DEF Turn, LineDir
  <2> QED
    BY <1>1, <2>1, <2>2, TurnTable, OppositeDirs DEF LineDir
<1> QED
  BY <1>2, <1>3, <1>4 DEF Fits

-------------------------------------------------------------------------------

(***************************************************************************)
(* A walk among closed rings.  M holds the lines of the closed rings, all  *)
(* of the lines at edges before e, and q is the path of a walk that        *)
(* started at e; what it has touched includes the line down from e, along  *)
(* which it will come back.                                                *)
(***************************************************************************)
Settled(E, M, e) ==
  \A j \in 1..Len(E), d \in LineDir : j < e /\ HasDir(E[j].type, d) => <<j, d>> \in M

ClosedRings(E, S, M, e) ==
  OutlineOf(E, S) /\ LineSet(E, M) /\ Even(E, M) /\ RingsOf(E, M, e) /\ Settled(E, M, e)

Touched(E, M, q) == M \cup {<<q[1][1], "Down">>} \cup {q[k] : k \in 1..Len(q)}
                      \cup {Rev(E, q[k]) : k \in 1 .. Len(q)-1}

NoLineTwice(E, q) == \A i \in 1..Len(q), k \in 1..Len(q) :
                       (q[i] = q[k] => i = k) /\ q[i] /= Rev(E, q[k])

OpenRing(E, S, M, q) ==
  /\ ClosedRings(E, S, M, q[1][1])
  /\ Path(E, q) /\ NoLineTwice(E, q)
  /\ \A k \in 1..Len(q) : q[k] \notin M
  /\ \A d \in LineDir : HasDir(E[q[1][1]].type, d) => <<q[1][1], d>> \in Touched(E, M, q)

LEMMA TouchedIs ==
  ASSUME NEW E, NEW M, NEW q, NEW s
  PROVE  s \in Touched(E, M, q) <=> \/ s \in M \/ s = <<q[1][1], "Down">>
                                    \/ \E k \in 1..Len(q) : s = q[k]
                                    \/ \E k \in 1 .. Len(q)-1 : s = Rev(E, q[k])
  BY DEF Touched

LEMMA SettledDown ==
  ASSUME NEW E, NEW M, NEW e, Settled(E, M, e)
  PROVE  \A j \in 1..Len(E) : j < e /\ HasBelow(E[j].type) => <<j, "Down">> \in M
  BY DEF Settled, HasDir, LineDir

\* The line a walk goes along is new where it ends, unless it is the line it comes back by.
LEMMA ArrivalIsNew ==
  ASSUME NEW E, NEW S, NEW M, NEW q, OpenRing(E, S, M, q), NEW s, s = q[Len(q)],
         Rev(E, s) \in Touched(E, M, q)
  PROVE  Rev(E, s) = <<q[1][1], "Down">>
<1>1. Len(q) \in 1..Len(q) /\ Len(q) \in Nat /\ \A k \in 1..Len(q) : q[k] \in HalfLines(E)
  BY PathSteps DEF Path, OpenRing
<1>2. OutlineOf(E, S) /\ s \in HalfLines(E) /\ s \notin M /\ LineSet(E, M)
  BY <1>1 DEF OpenRing, ClosedRings
<1>3. Rev(E, Rev(E, s)) = s
  BY <1>2, StepTypes
<1>4. Rev(E, s) \notin M
  BY <1>2, <1>3 DEF LineSet
<1>5. \A k \in 1..Len(q) : Rev(E, s) /= q[k]
  BY <1>1 DEF OpenRing, NoLineTwice
<1>6. ASSUME NEW k \in 1 .. Len(q)-1, Rev(E, s) = Rev(E, q[k])
      PROVE  FALSE
  <2>1. k \in 1..Len(q) /\ k /= Len(q)
    BY <1>1
  <2>2. Rev(E, Rev(E, q[k])) = q[k]
    BY <1>1, <1>2, <2>1, StepTypes
  <2>3. q[k] = q[Len(q)]
    BY <1>3, <1>6, <2>2
  <2> QED
    BY <1>1, <2>1, <2>3 DEF OpenRing, NoLineTwice
<1> QED
  BY <1>4, <1>5, <1>6, TouchedIs

\* A walk that is back at its start has come up the line below it.
LEMMA ArrivalAtStart ==
  ASSUME NEW E, NEW S, NEW M, NEW q, OpenRing(E, S, M, q), NEW s, s = q[Len(q)],
         Rev(E, s)[1] = q[1][1]
  PROVE  Rev(E, s) = <<q[1][1], "Down">>
<1>1. s \in HalfLines(E) /\ OutlineOf(E, S)
  BY PathSteps DEF Path, OpenRing, ClosedRings
<1>2. PICK d \in LineDir : Rev(E, s) = <<q[1][1], d>> /\ HasDir(E[q[1][1]].type, d)
  <2>1. Rev(E, s) \in HalfLines(E)
    BY <1>1, StepTypes
  <2> QED
    BY <2>1 DEF HalfLines
<1>3. Rev(E, s) \in Touched(E, M, q)
  BY <1>2 DEF OpenRing
<1> QED
  BY <1>3, ArrivalIsNew

\* At a cross two walks that turn into the same line have come along the same line.
LEMMA CrossTurns ==
  ASSUME NEW d \in LineDir, NEW b \in LineDir
  PROVE  /\ "Cross" \in DOMAIN Turn[d]
         /\ Turn[d]["Cross"] = Turn[b]["Cross"] => d = b
         /\ Turn[d]["Cross"] = Opposite[b] =>
              \A nw, ne, sw, se : LET v == QuadRight(Turn[d]["Cross"], nw, ne, sw, se)
                                      w == QuadRight(Turn[b]["Cross"], nw, ne, sw, se)
                                  IN  \/ v = nw /\ w = sw
                                      \/ v = sw /\ w = se
                                      \/ v = se /\ w = ne
                                      \/ v = ne /\ w = nw
<1>1. "Cross" \in DOMAIN Turn[d] /\ "Cross" \in DOMAIN Turn[b]
  BY DEF Turn, LineDir
<1> QED
  BY <1>1, TurnTable, OppositeDirs DEF LineDir, QuadRight

\* A walk never turns into a line it or an older ring has touched.
LEMMA TurnIsNew ==
  ASSUME NEW E, NEW S, NEW M, NEW q, OpenRing(E, S, M, q), NEW s, s = q[Len(q)],
         NEW n, n = Rev(E, s)[1], n /= q[1][1],
         NEW c, Fits(E[n].type, c, At(Touched(E, M, q), n))
  PROVE  Rev(E, s) \notin Touched(E, M, q) /\ Succ(E, s) \notin Touched(E, M, q)
<1>1. Len(q) \in 1..Len(q) /\ Len(q) \in Nat /\ \A k \in 1..Len(q) : q[k] \in HalfLines(E)
  BY PathSteps DEF Path, OpenRing
<1>2. OutlineOf(E, S) /\ s \in HalfLines(E) /\ LineSet(E, M) /\ Path(E, q)
  BY <1>1 DEF OpenRing, ClosedRings
<1>3. PICK d : d = s[2]
  OBVIOUS
<1>4. PICK t : t = E[n].type
  OBVIOUS
<1>5. /\ n \in 1..Len(E) /\ d \in LineDir /\ t \in DOMAIN Turn[d] /\ t \in EdgeType
      /\ Rev(E, s) = <<n, Opposite[d]>> /\ Succ(E, s) = <<n, Turn[d][t]>>
  <2>1. /\ n \in 1..Len(E) /\ d \in LineDir /\ E[n].type \in DOMAIN Turn[d]
        /\ Rev(E, s) = <<n, Opposite[d]>> /\ Succ(E, s) = <<n, Turn[d][E[n].type]>>
    BY <1>2, <1>3, StepTypes DEF Rev, Succ
  <2>2. E[n].type \in EdgeType
    BY <1>2, <2>1 DEF OutlineOf, CornersOf
  <2> QED
    BY <1>4, <2>1, <2>2
<1>6. Rev(E, s) \notin Touched(E, M, q)
  <2>1. Rev(E, s) /= <<q[1][1], "Down">>
    BY <1>5
  <2> QED
    BY <2>1, ArrivalIsNew
<1>7. CASE t /= "Cross"
  <2>1. PICK P : P = At(Touched(E, M, q), n) /\ Fits(t, c, P)
    BY <1>4
  <2>2. /\ Turn[d][t] \in LineDir /\ Opposite[d] \in LineDir
        /\ Turn[d][t] \in P <=> Succ(E, s) \in Touched(E, M, q)
        /\ Opposite[d] \notin P
    BY <1>5, <1>6, <2>1, AtIs, TurnHasLine, OppositeDirs
  <2>3. HasDir(t, Opposite[d])
    BY <1>5, TurnTable, TypeTable, OppositeDirs DEF LineDir
  <2>4. \A x \in LineDir : x \notin P
    BY <1>7, <2>1, <2>2, <2>3 DEF Fits
  <2> QED
    BY <1>6, <2>2, <2>4
<1>8. CASE t = "Cross"
  <2>1. PICK u : u = <<n, Turn[d]["Cross"]>> /\ u = Succ(E, s)
    BY <1>5, <1>8
  <2>2. u \notin M
    <3>1. E[Rev(E, s)[1]].type = "Cross"
      BY <1>4, <1>8
    <3>2. \A j \in 1..Len(E) : j < q[1][1] /\ HasBelow(E[j].type) => <<j, "Down">> \in M
      BY SettledDown DEF OpenRing, ClosedRings
    <3>3. Even(E, M) /\ RingsOf(E, M, q[1][1]) /\ \A k \in 1..Len(q) : q[k] \notin M
      BY DEF OpenRing, ClosedRings
    <3>4. Succ(E, s) \notin M
      BY <1>2, <3>1, <3>2, <3>3, OldRingsApart
    <3> QED
      BY <2>1, <3>4
  <2>3. u /= <<q[1][1], "Down">>
    BY <2>1
  <2>4. ASSUME NEW k \in 1..Len(q)
        PROVE  LET b == q[k][2]
               IN  /\ b \in LineDir /\ Rev(E, q[k]) = <<Rev(E, q[k])[1], Opposite[b]>>
                   /\ Rev(E, q[k])[1] = n => Succ(E, q[k]) = <<n, Turn[b]["Cross"]>>
    <3>1. q[k] \in HalfLines(E)
      BY <1>1
    <3>2. E[n].type = "Cross"
      BY <1>4, <1>8
    <3> QED
      BY <1>2, <3>1, <3>2, StepTypes DEF Rev, Succ
  <2>5. ASSUME NEW k \in 1..Len(q), u = q[k]
        PROVE  FALSE
    <3>1. k /= 1
      BY <2>1, <2>5
    <3>2. PICK i \in 1 .. Len(q)-1 : i + 1 = k
      <4>1. k-1 \in 1 .. Len(q)-1 /\ (k-1) + 1 = k
        BY <1>1, <3>1
      <4> QED
        BY <4>1
    <3>3. i \in 1..Len(q) /\ i /= Len(q) /\ u = Succ(E, q[i])
      BY <1>1, <1>2, <2>5, <3>2 DEF Path
    <3>4. q[i] \in HalfLines(E) /\ Rev(E, q[i])[1] = n
      <4>1. q[i] \in HalfLines(E)
        BY <1>1, <3>3
      <4>2. Succ(E, q[i])[1] = Rev(E, q[i])[1]
        BY <1>2, <4>1, StepTypes
      <4>3. u[1] = n
        BY <2>1
      <4> QED
        BY <3>3, <4>1, <4>2, <4>3
    <3>5. PICK b \in LineDir : u = <<n, Turn[b]["Cross"]>> /\ Rev(E, q[i]) = <<n, Opposite[b]>>
      BY <2>4, <3>3, <3>4
    <3>6. b = d
      BY <1>5, <2>1, <3>5, CrossTurns
    <3>7. Rev(E, q[i]) = Rev(E, s)
      BY <1>5, <3>5, <3>6
    <3>8. q[i] = s
      <4>1. Rev(E, Rev(E, q[i])) = q[i] /\ Rev(E, Rev(E, s)) = s
        BY <1>2, <3>4, StepTypes
      <4> QED
        BY <3>7, <4>1
    <3> QED
      BY <1>1, <3>3, <3>8 DEF OpenRing, NoLineTwice
  <2>6. ASSUME NEW k \in 1 .. Len(q)-1, u = Rev(E, q[k])
        PROVE  FALSE
    <3>1. k \in 1..Len(q) /\ k+1 \in 1..Len(q) /\ q[k+1] = Succ(E, q[k])
      <4>1. k \in 1..Len(q) /\ k+1 \in 1..Len(q)
        BY <1>1
      <4> QED
        BY <1>2, <4>1 DEF Path
    <3>2. Rev(E, q[k])[1] = n
      BY <2>1, <2>6
    <3>3. PICK b \in LineDir : q[k+1] = <<n, Turn[b]["Cross"]>> /\ u = <<n, Opposite[b]>>
      BY <2>4, <2>6, <3>1, <3>2
    <3>4. Turn[d]["Cross"] = Opposite[b]
      BY <2>1, <3>3
    <3>5. PICK r, x : r = E[n].row /\ x = E[n].col
      OBVIOUS
    <3>6. PICK nw, ne, sw, se : /\ nw = S[r-1][x-1] /\ ne = S[r-1][x]
                                /\ sw = S[r][x-1] /\ se = S[r][x]
      OBVIOUS
    <3>7. PICK A : A = HalfLines(E)
      OBVIOUS
    <3>8. PICK has : has = [y \in LineDir |-> <<n, y>> \in A]
      OBVIOUS
    <3>9. Colours(has, nw, ne, sw, se)
      <4>1. LineSet(E, A) /\ Bounds(E, S, A)
        BY <1>2, <3>7, AllLines
      <4>2. n \in 1..Len(E) /\ OutlineOf(E, S)
        BY <1>2, <1>5
      <4>3. Colours([y \in LineDir |-> <<n, y>> \in A],
                    S[r-1][x-1], S[r-1][x], S[r][x-1], S[r][x])
        BY SMTT(30), <3>5, <4>1, <4>2, CornerColours
      <4> QED
        BY <3>6, <3>8, <4>3
    <3>10. \A e \in LineDir : has[e]
      <4> SUFFICES ASSUME NEW e \in LineDir
                   PROVE  has[e]
        OBVIOUS
      <4>1. n \in 1..Len(E) /\ E[n].type = "Cross"
        BY <1>4, <1>5, <1>8
      <4>2. HasDir(E[n].type, e)
        BY <4>1, TypeTable
      <4>3. <<n, e>> \in A
        BY <3>7, <4>1, <4>2, HalfLine
      <4> QED
        BY <3>8, <4>3
    <3>11. nw /= ne /\ sw /= se /\ nw /= sw /\ ne /= se
      BY <3>9, <3>10 DEF Colours, LineDir
    <3>12. /\ RightOf(E, S, u) = QuadRight(Turn[d]["Cross"], nw, ne, sw, se)
           /\ RightOf(E, S, q[k+1]) = QuadRight(Turn[b]["Cross"], nw, ne, sw, se)
      BY SMTT(30), <2>1, <3>3, <3>5, <3>6 DEF RightOf
    <3>13. RightOf(E, S, u) = RightOf(E, S, s)
      BY <1>2, <2>1, StepKeepsRight
    <3>14. RightOf(E, S, s) = RightOf(E, S, q[k+1])
      BY <1>1, <1>2, <3>1, PathRight
    <3>15. \/ RightOf(E, S, u) = nw /\ RightOf(E, S, q[k+1]) = sw
           \/ RightOf(E, S, u) = sw /\ RightOf(E, S, q[k+1]) = se
           \/ RightOf(E, S, u) = se /\ RightOf(E, S, q[k+1]) = ne
           \/ RightOf(E, S, u) = ne /\ RightOf(E, S, q[k+1]) = nw
      BY <1>5, <3>4, <3>12, CrossTurns
    <3> QED
      BY <3>11, <3>13, <3>14, <3>15
  <2> QED
    BY <1>6, <2>1, <2>2, <2>3, <2>5, <2>6, TouchedIs
<1> QED
  BY <1>7, <1>8

\* What a path touches that is longer by one.
LEMMA TouchedGrows ==
  ASSUME NEW E, NEW M, NEW q, Len(q) \in Nat, Len(q) > 0, NEW u, NEW p,
         Len(p) = Len(q) + 1, p[Len(q) + 1] = u, \A k \in 1..Len(q) : p[k] = q[k]
  PROVE  \A x : x \in Touched(E, M, p)
                <=> x \in Touched(E, M, q) \/ x = Rev(E, q[Len(q)]) \/ x = u
<1> SUFFICES ASSUME NEW x
             PROVE  x \in Touched(E, M, p)
                    <=> x \in Touched(E, M, q) \/ x = Rev(E, q[Len(q)]) \/ x = u
  OBVIOUS
<1>1. (\E k \in 1..Len(p) : x = p[k]) <=> (\E k \in 1..Len(q) : x = q[k]) \/ x = u
  <2>1. /\ Len(q) + 1 \in 1..Len(p) /\ \A k \in 1..Len(q) : k \in 1..Len(p)
        /\ \A k \in 1..Len(p) : k \in 1..Len(q) \/ k = Len(q) + 1
    OBVIOUS
  <2> QED
    BY <2>1
<1>2. (\E k \in 1 .. Len(p)-1 : x = Rev(E, p[k]))
        <=> (\E k \in 1 .. Len(q)-1 : x = Rev(E, q[k])) \/ x = Rev(E, q[Len(q)])
  <2>1. /\ \A k \in 1 .. Len(p)-1 : k \in 1..Len(q) /\ (k \in 1 .. Len(q)-1 \/ k = Len(q))
        /\ \A k \in 1 .. Len(q)-1 : k \in 1 .. Len(p)-1 /\ k \in 1..Len(q)
        /\ Len(q) \in 1 .. Len(p)-1 /\ Len(q) \in 1..Len(q)
    OBVIOUS
  <2> QED
    BY <2>1
<1>3. x = <<p[1][1], "Down">> <=> x = <<q[1][1], "Down">>
  <2>1. p[1] = q[1]
    OBVIOUS
  <2> QED
    BY <2>1
<1>4. PICK A, B : A = Touched(E, M, p) /\ B = Touched(E, M, q)
  OBVIOUS
<1>5. x \in A <=> \/ x \in M \/ x = <<p[1][1], "Down">>
                  \/ \E k \in 1..Len(p) : x = p[k]
                  \/ \E k \in 1 .. Len(p)-1 : x = Rev(E, p[k])
  BY <1>4 DEF Touched
<1>6. x \in B <=> \/ x \in M \/ x = <<q[1][1], "Down">>
                  \/ \E k \in 1..Len(q) : x = q[k]
                  \/ \E k \in 1 .. Len(q)-1 : x = Rev(E, q[k])
  BY <1>4 DEF Touched
<1>7. PICK U \in BOOLEAN : U <=> \E k \in 1..Len(p) : x = p[k]
  OBVIOUS
<1>8. PICK V \in BOOLEAN : V <=> \E k \in 1 .. Len(p)-1 : x = Rev(E, p[k])
  OBVIOUS
<1>9. x \in A <=> x \in M \/ x = <<q[1][1], "Down">> \/ U \/ V
  BY <1>3, <1>5, <1>7, <1>8
<1>10. x \in A <=> x \in B \/ x = Rev(E, q[Len(q)]) \/ x = u
  BY <1>1, <1>2, <1>6, <1>7, <1>8, <1>9
<1> QED
  BY <1>4, <1>10

\* A step of the walk: the path grows by lines that nothing has touched.
LEMMA PathGrows ==
  ASSUME NEW E, NEW S, NEW M, NEW q, OpenRing(E, S, M, q), NEW s, s = q[Len(q)],
         Rev(E, s) \notin Touched(E, M, q), Succ(E, s) \notin Touched(E, M, q),
         NEW u, u = Succ(E, s), NEW p \in Seq(HalfLines(E)), Len(p) = Len(q) + 1,
         p[Len(q) + 1] = u, \A k \in 1..Len(q) : p[k] = q[k]
  PROVE  /\ OpenRing(E, S, M, p) /\ p[1] = q[1]
         /\ \A x : x \in Touched(E, M, p) <=> x \in Touched(E, M, q) \/ x = Rev(E, s) \/ x = u
<1>1. /\ Len(q) \in 1..Len(q) /\ Len(q) \in Nat /\ q \in Seq(HalfLines(E))
      /\ \A k \in 1..Len(q) : q[k] \in HalfLines(E)
  BY PathSteps DEF Path, OpenRing
<1>2. /\ OutlineOf(E, S) /\ s \in HalfLines(E) /\ LineSet(E, M) /\ Path(E, q)
      /\ ClosedRings(E, S, M, q[1][1]) /\ NoLineTwice(E, q)
      /\ \A k \in 1..Len(q) : q[k] \notin M
  BY <1>1 DEF OpenRing, ClosedRings
<1>3. u \in HalfLines(E) /\ Rev(E, Rev(E, u)) = u /\ Rev(E, u) /= u
  BY <1>2, StepTypes
<1>4. /\ p \in Seq(HalfLines(E)) /\ Len(p) = Len(q) + 1 /\ p[Len(q) + 1] = u
      /\ \A k \in 1..Len(q) : p[k] = q[k]
  OBVIOUS
<1>5. \A k \in 1..Len(p) : k \in 1..Len(q) \/ k = Len(q) + 1
  BY <1>1, <1>4
<1>6. p[1] = q[1]
  BY <1>1, <1>4
<1>7. Path(E, p)
  <2>1. ASSUME NEW k \in 1 .. Len(p)-1
        PROVE  p[k+1] = Succ(E, p[k])
    <3>1. CASE k = Len(q)
      BY <1>1, <1>4, <3>1
    <3>2. CASE k /= Len(q)
      <4>1. k \in 1 .. Len(q)-1 /\ k \in 1..Len(q) /\ k+1 \in 1..Len(q)
        BY <1>1, <1>4, <3>2
      <4>2. q[k+1] = Succ(E, q[k])
        BY <1>2, <4>1 DEF Path
      <4> QED
        BY <1>4, <4>1, <4>2
    <3> QED
      BY <3>1, <3>2
  <2>2. p[1][2] = "Right" /\ Len(p) > 0
    BY <1>1, <1>2, <1>4, <1>6 DEF Path
  <2> QED
    BY <1>4, <2>1, <2>2 DEF Path
<1>8. ASSUME NEW k \in 1..Len(q)
      PROVE  u /= q[k] /\ u /= Rev(E, q[k]) /\ q[k] /= Rev(E, u)
  <2>1. u /= q[k]
    BY TouchedIs
  <2>2. u /= Rev(E, q[k])
    <3>1. CASE k = Len(q)
      <4>1. s[2] \in LineDir /\ E[Rev(E, s)[1]].type \in DOMAIN Turn[s[2]]
        BY <1>2, StepTypes
      <4>2. Rev(E, s)[2] = Opposite[s[2]] /\ u[2] = Turn[s[2]][E[Rev(E, s)[1]].type]
        BY DEF Rev, Succ
      <4>3. u[2] /= Rev(E, s)[2]
        BY <4>1, <4>2, TurnTable, OppositeDirs
      <4> QED
        BY <3>1, <4>3
    <3>2. CASE k /= Len(q)
      <4>1. k \in 1 .. Len(q)-1
        BY <1>1, <3>2
      <4> QED
        BY <4>1, TouchedIs
    <3> QED
      BY <3>1, <3>2
  <2>3. Rev(E, Rev(E, q[k])) = q[k]
    BY <1>1, <1>2, StepTypes
  <2> QED
    BY <1>3, <2>1, <2>2, <2>3
<1>9. NoLineTwice(E, p)
  <2> SUFFICES ASSUME NEW i \in 1..Len(p), NEW k \in 1..Len(p)
               PROVE  (p[i] = p[k] => i = k) /\ p[i] /= Rev(E, p[k])
    BY DEF NoLineTwice
  <2>1. CASE i \in 1..Len(q) /\ k \in 1..Len(q)
    BY <1>2, <1>4, <2>1 DEF NoLineTwice
  <2>2. CASE i = Len(q) + 1 /\ k \in 1..Len(q)
    BY <1>4, <1>8, <2>2
  <2>3. CASE i \in 1..Len(q) /\ k = Len(q) + 1
    BY <1>4, <1>8, <2>3
  <2>4. CASE i = Len(q) + 1 /\ k = Len(q) + 1
    BY <1>3, <1>4, <2>4
  <2> QED
    BY <1>5, <2>1, <2>2, <2>3, <2>4
<1>10. \A x : x \in Touched(E, M, p) <=> x \in Touched(E, M, q) \/ x = Rev(E, s) \/ x = u
  BY <1>1, <1>4, TouchedGrows
<1>11. \A k \in 1..Len(p) : p[k] \notin M
  <2>1. u \notin M
    BY TouchedIs
  <2> QED
    BY <1>2, <1>4, <1>5, <2>1
<1>12. \A d \in LineDir : HasDir(E[p[1][1]].type, d) => <<p[1][1], d>> \in Touched(E, M, p)
  BY <1>6, <1>10 DEF OpenRing
<1> QED
  BY <1>2, <1>4, <1>6, <1>7, <1>9, <1>10, <1>11, <1>12 DEF OpenRing

\* A line that leads up from an edge is there when all lines before the edge are.
LEMMA LineFromAbove ==
  ASSUME NEW E, NEW S, OutlineOf(E, S), NEW M, LineSet(E, M), NEW j \in 1..Len(E),
         Settled(E, M, j), HasAbove(E[j].type)
  PROVE  <<j, "Up">> \in M
<1>1. Len(E) \in Nat /\ \A k \in 1..Len(E) : E[k].row \in Int /\ E[k].col \in Int
  BY SizeAssumption DEF OutlineOf, CornersOf
<1>2. PICK n \in 1..Len(E) : HasBelow(E[n].type) /\ E[n].below = j /\ E[n].row < E[j].row
  BY DEF OutlineOf, LinesOfEdges
<1>3. n /= j /\ ~Precedes(E[j].row, E[j].col, E[n].row, E[n].col)
  BY <1>1, <1>2 DEF Precedes
<1>4. ~(j < n)
  BY <1>1, <1>3 DEF OutlineOf, CornersOf
<1>5. <<n, "Down">> \in M
  <2>1. n < j
    BY <1>1, <1>3, <1>4
  <2> QED
    BY <1>2, <2>1, SettledDown
<1> QED
  BY <1>2, <1>5, LineEnds

\* The start of a ring: an edge that is counted out for one visit, behind which nothing is
\* left to walk, has new lines to the right and down.
LEMMA StartIsNew ==
  ASSUME NEW E, NEW S, NEW M, NEW e \in 1..Len(E), ClosedRings(E, S, M, e),
         Fits(E[e].type, 0, At(M, e))
  PROVE  /\ HasDir(E[e].type, "Right") /\ HasDir(E[e].type, "Down")
         /\ <<e, "Right">> \notin M /\ <<e, "Down">> \notin M
         /\ \A d \in LineDir : HasDir(E[e].type, d) =>
              d = "Right" \/ d = "Down" \/ <<e, d>> \in M
<1>1. /\ OutlineOf(E, S) /\ LineSet(E, M) /\ Settled(E, M, e) /\ Len(E) \in Nat
      /\ \A k \in 1..Len(E) : E[k].row \in Int /\ E[k].col \in Int
  BY SizeAssumption DEF ClosedRings, OutlineOf, CornersOf
<1>2. PICK t \in EdgeType : t = E[e].type
  BY <1>1 DEF OutlineOf, CornersOf
<1>3. PICK P : P = At(M, e)
  OBVIOUS
<1>4. \A d \in LineDir : d \in P <=> <<e, d>> \in M
  BY <1>3, AtIs
<1>5. /\ "Up" \in LineDir /\ "Down" \in LineDir /\ "Left" \in LineDir /\ "Right" \in LineDir
      /\ \A d \in LineDir : d \in {"Up", "Down", "Left", "Right"}
  BY DEF LineDir
<1>6. HasDir(t, "Left") => "Left" \in P
  <2> SUFFICES ASSUME HasDir(t, "Left")
               PROVE  "Left" \in P
    OBVIOUS
  <2>1. PICK n \in 1..Len(E) : n + 1 = e /\ n < e /\ HasRight(E[n].type)
    <3>1. HasLeft(E[e].type)
      BY <1>2 DEF HasDir
    <3>2. e-1 \in 1..Len(E) /\ HasRight(E[e-1].type) /\ (e-1) + 1 = e /\ e-1 < e
      BY <1>1, <3>1 DEF OutlineOf, LinesOfEdges
    <3> QED
      BY <3>2
  <2>2. <<n, "Right">> \in M
    BY <1>1, <1>5, <2>1 DEF Settled, HasDir
  <2>3. <<e, "Left">> \in M
    BY <1>1, <2>1, <2>2, LineEnds
  <2> QED
    BY <1>4, <1>5, <2>3
<1>7. HasDir(t, "Up") => "Up" \in P
  <2> SUFFICES ASSUME HasDir(t, "Up")
               PROVE  "Up" \in P
    OBVIOUS
  <2>1. HasAbove(E[e].type)
    BY <1>2 DEF HasDir
  <2>2. <<e, "Up">> \in M
    BY <1>1, <2>1, LineFromAbove
  <2> QED
    BY <1>4, <1>5, <2>2
<1>8. Fits(t, 0, P)
  BY <1>2, <1>3
<1>9. CASE t /= "Cross"
  <2>1. \A x \in LineDir : x \notin P
    BY <1>8, <1>9 DEF Fits, PushedTimesChecked
  <2>2. t = "BottomRight"
    BY <1>5, <1>6, <1>7, <1>9, <2>1, TypeTable DEF EdgeType
  <2> QED
    BY <1>2, <1>4, <1>5, <2>1, <2>2, TypeTable
<1>10. CASE t = "Cross"
  <2>1. PICK d \in LineDir : \A x \in LineDir :
                               x \in P <=> x = Opposite[d] \/ x = Turn[d]["Cross"]
    BY <1>8, <1>10 DEF Fits, PushedTimesChecked
  <2>2. "Cross" \in DOMAIN Turn[d]
    BY CrossTurns
  <2>3. "Left" \in P /\ "Up" \in P
    BY <1>5, <1>6, <1>7, <1>10, TypeTable
  <2>4. "Right" \notin P /\ "Down" \notin P
    BY <1>5, <2>1, <2>2, <2>3, TurnTable, OppositeDirs
  <2> QED
    BY <1>2, <1>4, <1>5, <1>10, <2>3, <2>4, TypeTable
<1> QED
  BY <1>9, <1>10

\* What a path of one half-line touches.
LEMMA TouchedFirst ==
  ASSUME NEW E, NEW M, NEW q, Len(q) \in Nat, Len(q) > 0, Len(q) =< 1
  PROVE  \A x : x \in Touched(E, M, q) <=> x \in M \/ x = <<q[1][1], "Down">> \/ x = q[1]
<1> SUFFICES ASSUME NEW x
             PROVE  x \in Touched(E, M, q) <=> x \in M \/ x = <<q[1][1], "Down">> \/ x = q[1]
  OBVIOUS
<1>1. x \in Touched(E, M, q) <=> \/ x \in M \/ x = <<q[1][1], "Down">>
                                 \/ \E k \in 1..Len(q) : x = q[k]
                                 \/ \E k \in 1 .. Len(q)-1 : x = Rev(E, q[k])
  BY TouchedIs
<1>2. \A k : (k \in 1..Len(q) <=> k = 1) /\ k \notin 1 .. Len(q)-1
  OBVIOUS
<1> QED
  BY <1>1, <1>2

\* A ring begins with a visit to its start.
LEMMA RingBegins ==
  ASSUME NEW E, NEW S, NEW M, NEW e \in 1..Len(E), ClosedRings(E, S, M, e),
         Fits(E[e].type, 0, At(M, e)),
         NEW q \in Seq({<<e, "Right">>}), Len(q) > 0, Len(q) =< 1
  PROVE  /\ OpenRing(E, S, M, q)
         /\ \A x : x \in Touched(E, M, q) <=> x \in M \/ x = <<e, "Down">> \/ x = <<e, "Right">>
<1>1. /\ HasDir(E[e].type, "Right") /\ HasDir(E[e].type, "Down")
      /\ <<e, "Right">> \notin M /\ <<e, "Down">> \notin M
      /\ \A d \in LineDir : HasDir(E[e].type, d) => d = "Right" \/ d = "Down" \/ <<e, d>> \in M
  BY StartIsNew
<1>2. <<e, "Right">> \in HalfLines(E)
  BY <1>1, HalfLine DEF LineDir
<1>3. Len(q) \in Nat /\ 1 \in 1..Len(q) /\ \A k \in 1..Len(q) : k = 1 /\ q[k] = <<e, "Right">>
  BY ElementOfSeq
<1>4. OutlineOf(E, S)
  BY DEF ClosedRings
<1>5. Path(E, q)
  <2>1. q \in Seq(HalfLines(E))
    <3>1. q \in [1..Len(q) -> HalfLines(E)]
      BY <1>3, <1>2
    <3> QED
      BY <1>3, <3>1, SeqDef
  <2> QED
    BY <1>3, <2>1 DEF Path
<1>6. NoLineTwice(E, q)
  <2>1. PICK s \in HalfLines(E) : s = <<e, "Right">>
    BY <1>2
  <2>2. Rev(E, s) /= s
    BY <1>4, StepTypes
  <2>3. \A k \in 1..Len(q) : k = 1 /\ q[k] = s
    BY <1>3, <2>1
  <2> QED
    BY <2>2, <2>3 DEF NoLineTwice
<1>7. \A k \in 1..Len(q) : q[k] \notin M
  BY <1>3, <1>1
<1>8. \A x : x \in Touched(E, M, q) <=> x \in M \/ x = <<e, "Down">> \/ x = <<e, "Right">>
  <2>1. \A x : x \in Touched(E, M, q) <=> x \in M \/ x = <<q[1][1], "Down">> \/ x = q[1]
    BY <1>3, TouchedFirst
  <2>2. q[1] = <<e, "Right">> /\ q[1][1] = e
    BY <1>3
  <2> QED
    BY <2>1, <2>2
<1>9. \A d \in LineDir : HasDir(E[q[1][1]].type, d) => <<q[1][1], d>> \in Touched(E, M, q)
  BY <1>3, <1>1, <1>8
<1>10. ClosedRings(E, S, M, q[1][1])
  BY <1>3
<1> QED
  BY <1>5, <1>6, <1>7, <1>8, <1>9, <1>10 DEF OpenRing

\* A visit to edge n, in terms of the counts of all edges.
LEMMA VisitCounted ==
  ASSUME NEW E, NEW c, NEW T, Counted(E, c, T), NEW n \in 1..Len(E), NEW d \in LineDir,
         E[n].type \in EdgeType, E[n].type \in DOMAIN Turn[d],
         <<n, Opposite[d]>> \notin T, <<n, Turn[d][E[n].type]>> \notin T,
         NEW U, \A x : x \in U <=> x \in T \/ x = <<n, Opposite[d]>>
                                           \/ x = <<n, Turn[d][E[n].type]>>
  PROVE  Counted(E, [c EXCEPT ![n] = @ + 1], U)
<1>1. PICK t \in EdgeType : t = E[n].type
  OBVIOUS
<1>2. Opposite[d] \in LineDir /\ Turn[d][t] \in LineDir
  BY <1>1, OppositeDirs, TurnHasLine
<1>3. c \in [1..Len(E) -> Int]
  BY DEF Counted
<1>4. PICK b : b = [c EXCEPT ![n] = @ + 1]
  OBVIOUS
<1>5. b \in [1..Len(E) -> Int] /\ b[n] = c[n] + 1 /\ \A j \in 1..Len(E) : j /= n => b[j] = c[j]
  BY <1>3, <1>4
<1>6. ASSUME NEW j \in 1..Len(E)
      PROVE  Fits(E[j].type, b[j], At(U, j))
  <2>1. PICK P, Q : P = At(T, j) /\ Q = At(U, j)
    OBVIOUS
  <2>2. \A x \in LineDir : /\ x \in P <=> <<j, x>> \in T
                           /\ x \in Q <=> <<j, x>> \in U
    BY <2>1, AtIs
  <2>3. Fits(E[j].type, c[j], P)
    BY <2>1 DEF Counted
  <2>4. CASE j = n
    <3>1. \A x \in LineDir : x \in Q <=> x \in P \/ x = Opposite[d] \/ x = Turn[d][t]
      BY <1>1, <2>2, <2>4
    <3>2. Opposite[d] \notin P /\ Turn[d][t] \notin P
      BY <1>1, <1>2, <2>2, <2>4
    <3>3. t \in DOMAIN Turn[d] /\ Fits(t, c[j], P)
      BY <1>1, <2>3, <2>4
    <3>4. Fits(t, c[j] + 1, Q)
      BY <3>1, <3>2, <3>3, VisitFits
    <3> QED
      BY <1>1, <1>5, <2>1, <2>4, <3>4
  <2>5. CASE j /= n
    <3>1. \A x \in LineDir : x \in Q <=> x \in P
      BY <2>2, <2>5
    <3>2. Fits(E[j].type, c[j], Q)
      BY <2>3, <3>1, SameFits
    <3> QED
      BY <1>5, <2>1, <2>5, <3>2
  <2> QED
    BY <2>4, <2>5
<1> QED
  BY <1>4, <1>5, <1>6 DEF Counted

\* The counts of a line set are even.
LEMMA CountedEven ==
  ASSUME NEW E, NEW S, OutlineOf(E, S), NEW c, NEW M, M \subseteq HalfLines(E), Counted(E, c, M)
  PROVE  Even(E, M)
<1> SUFFICES ASSUME NEW i \in 1..Len(E)
             PROVE  (<<i, "Up">> \in M <=> <<i, "Down">> \in M)
                      <=> (<<i, "Left">> \in M <=> <<i, "Right">> \in M)
  BY DEF Even
<1>1. PICK P : P = At(M, i)
  OBVIOUS
<1>2. \A x \in LineDir : x \in P <=> <<i, x>> \in M
  BY <1>1, AtIs
<1>3. E[i].type \in EdgeType /\ Fits(E[i].type, c[i], P)
  BY <1>1 DEF OutlineOf, CornersOf, Counted
<1>4. \A x \in LineDir : x \in P => HasDir(E[i].type, x)
  BY <1>2, HalfLine
<1>5. ("Up" \in P <=> "Down" \in P) <=> ("Left" \in P <=> "Right" \in P)
  BY <1>3, <1>4, FitsEven
<1> QED
  BY <1>2, <1>5 DEF LineDir

(***************************************************************************)
(* A ring is closed: all that the walk has touched are lines of closed     *)
(* rings.  The next start may skip edges, but only settled ones: a cross   *)
(* without a visit would have the line from above it walked.               *)
(***************************************************************************)
LEMMA RingCloses ==
  ASSUME NEW E, NEW S, NEW M, NEW q, OpenRing(E, S, M, q), NEW s, s = q[Len(q)],
         NEW e, e = q[1][1], Rev(E, s)[1] = e,
         NEW N, N = Touched(E, M, q), NEW c, Counted(E, c, N),
         NEW f \in Int, f > e, f =< Len(E) + 1,
         \A j \in e+1 .. f-1 : c[j] /= 0
  PROVE  ClosedRings(E, S, N, f)
<1>1. /\ Len(q) \in 1..Len(q) /\ Len(q) \in Nat
      /\ \A k \in 1..Len(q) : q[k] \in HalfLines(E)
  BY PathSteps DEF Path, OpenRing
<1>2. /\ OutlineOf(E, S) /\ LineSet(E, M) /\ Path(E, q) /\ Len(E) \in Nat
      /\ RingsOf(E, M, e) /\ Settled(E, M, e) /\ e \in 1..Len(E) /\ s \in HalfLines(E)
  <2>1. q[1] \in HalfLines(E) /\ s \in HalfLines(E) /\ OutlineOf(E, S)
    BY <1>1 DEF OpenRing, ClosedRings
  <2>2. q[1][1] \in 1..Len(E)
    BY <2>1, StepTypes
  <2> QED
    BY <2>1, <2>2 DEF OpenRing, ClosedRings, OutlineOf, CornersOf
<1>3. Rev(E, s) = <<e, "Down">>
  BY ArrivalAtStart
<1>4. \A x : x \in N <=> \/ x \in M
                         \/ \E k \in 1..Len(q) : x = q[k] \/ x = Rev(E, q[k])
  <2> SUFFICES ASSUME NEW x
               PROVE  x \in N <=> \/ x \in M
                                  \/ \E k \in 1..Len(q) : x = q[k] \/ x = Rev(E, q[k])
    OBVIOUS
  <2>1. x \in N <=> \/ x \in M \/ x = <<e, "Down">>
                    \/ \E k \in 1..Len(q) : x = q[k]
                    \/ \E k \in 1 .. Len(q)-1 : x = Rev(E, q[k])
    BY TouchedIs
  <2>2. (\E k \in 1..Len(q) : x = Rev(E, q[k]))
          <=> (\E k \in 1 .. Len(q)-1 : x = Rev(E, q[k])) \/ x = Rev(E, s)
    <3>1. /\ \A k \in 1..Len(q) : k \in 1 .. Len(q)-1 \/ k = Len(q)
          /\ \A k \in 1 .. Len(q)-1 : k \in 1..Len(q)
      BY <1>1
    <3> QED
      BY <1>1, <3>1
  <2> QED
    BY <1>3, <2>1, <2>2
<1>5. LineSet(E, N)
  <2>1. ASSUME NEW x \in N
        PROVE  x \in HalfLines(E) /\ Rev(E, x) \in N
    <3>1. CASE x \in M
      BY <1>2, <1>4, <3>1 DEF LineSet
    <3>2. ASSUME NEW k \in 1..Len(q), x = q[k] \/ x = Rev(E, q[k])
          PROVE  x \in HalfLines(E) /\ Rev(E, x) \in N
      <4>1. /\ q[k] \in HalfLines(E) /\ Rev(E, q[k]) \in HalfLines(E)
            /\ Rev(E, Rev(E, q[k])) = q[k]
        BY <1>1, <1>2, StepTypes
      <4>2. q[k] \in N /\ Rev(E, q[k]) \in N
        BY <1>4
      <4> QED
        BY <3>2, <4>1, <4>2
    <3> QED
      BY <1>4, <3>1, <3>2
  <2> QED
    BY <2>1 DEF LineSet
<1>6. Even(E, N)
  <2>1. N \subseteq HalfLines(E)
    BY <1>5 DEF LineSet
  <2> QED
    BY <1>2, <2>1, CountedEven
<1>7. RingsOf(E, N, f)
  <2> SUFFICES ASSUME NEW x \in N
               PROVE  \E p : /\ Path(E, p) /\ p[1][1] < f
                             /\ \A k \in 1..Len(p) : p[k] \in N
                             /\ \E k \in 1..Len(p) : x = p[k] \/ x = Rev(E, p[k])
    BY DEF RingsOf
  <2>1. CASE x \in M
    <3>1. PICK p : /\ Path(E, p) /\ p[1][1] < e
                   /\ \A k \in 1..Len(p) : p[k] \in M
                   /\ \E k \in 1..Len(p) : x = p[k] \/ x = Rev(E, p[k])
      BY <1>2, <2>1 DEF RingsOf
    <3>2. p[1][1] \in Int
      <4>1. p[1] \in HalfLines(E)
        BY <3>1, PathSteps DEF Path
      <4>2. p[1][1] \in 1..Len(E)
        BY <1>2, <4>1, StepTypes
      <4> QED
        BY <4>2
    <3>3. p[1][1] < f
      BY <1>2, <3>1, <3>2
    <3> QED
      BY <1>4, <3>1, <3>3
  <2>2. CASE \E k \in 1..Len(q) : x = q[k] \/ x = Rev(E, q[k])
    <3>1. \A k \in 1..Len(q) : q[k] \in N
      BY <1>4
    <3>2. q[1][1] < f
      BY <1>2
    <3> QED
      BY <1>2, <2>2, <3>1, <3>2
  <2> QED
    BY <1>4, <2>1, <2>2
<1>8. Settled(E, N, f)
  <2> DEFINE Open == {j \in 1..Len(E) : j < f /\ ~(\A d \in LineDir :
                                          HasDir(E[j].type, d) => <<j, d>> \in N)}
  <2>1. CASE Open = {}
    BY <2>1 DEF Settled
  <2>2. CASE Open /= {}
    <3>1. PICK j \in Open : \A k \in Open : j =< k
      <4>1. Open \in SUBSET Nat
        BY <1>2
      <4> HIDE DEF Open
      <4> QED
        BY <2>2, <4>1, LeastElement
    <3>2. j \in 1..Len(E) /\ j < f /\ j \in Int
      BY <1>2, <3>1
    <3>3. Settled(E, N, j)
      <4>1. \A k \in 1..Len(E) : k < j => k \notin Open
        BY <1>2, <3>1, <3>2
      <4> QED
        BY <1>2, <3>2, <4>1 DEF Settled
    <3>4. ~(j < e)
      BY <1>2, <1>4, <3>1 DEF Settled
    <3>5. j /= e
      <4>1. \A d \in LineDir : HasDir(E[e].type, d) => <<e, d>> \in N
        BY DEF OpenRing
      <4> QED
        BY <3>1, <4>1
    <3>6. c[j] /= 0
      BY <1>2, <3>2, <3>4, <3>5
    <3>7. PICK t \in EdgeType : t = E[j].type
      BY <1>2, <3>2 DEF OutlineOf, CornersOf
    <3>8. PICK P : P = At(N, j)
      OBVIOUS
    <3>9. Fits(t, c[j], P) /\ \A d \in LineDir : d \in P <=> <<j, d>> \in N
      BY <3>2, <3>7, <3>8, AtIs DEF Counted
    <3>10. t = "Cross" /\ \A x \in LineDir : x \notin P
      BY <3>1, <3>6, <3>7, <3>9 DEF Fits, PushedTimesChecked
    <3>11. <<j, "Up">> \in N
      <4>1. HasAbove(E[j].type)
        BY <3>7, <3>10 DEF HasAbove
      <4> QED
        BY <1>2, <1>5, <3>2, <3>3, <4>1, LineFromAbove
    <3> QED
      BY <3>9, <3>10, <3>11 DEF LineDir
  <2> QED
    BY <2>1, <2>2
<1> QED
  BY <1>2, <1>5, <1>6, <1>7, <1>8 DEF ClosedRings
===============================================================================
