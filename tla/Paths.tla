--------------------------------- MODULE Paths ---------------------------------
(***************************************************************************)
(* The paths of the platform layer (include/tinybase-platform-linux.c): a  *)
(* path is its characters up to WriteCur, of which "/" and "." matter and  *)
(* all others stand for names.  Paths have room for what is appended.      *)
(***************************************************************************)
EXTENDS Integers, SequencesExt

EndsWithSlash(s) == s /= << >> /\ Last(s) = "/"

\* The index of the last slash of s, 0 for none, and of all of them.
Slashes(s)   == {k \in DOMAIN s : s[k] = "/"}
LastSlash(s) == Max({0} \cup Slashes(s))

\* Mutant: the character before the slash goes too.
UpOnceTooFar(s) == SubSeq(s, 1, LastSlash(s) - 2)

\* The path in front of the last slash, or nothing.
UpOnce(s) == SubSeq(s, 1, LastSlash(s) - 1)

\* MoveUpPath(): a path that is not empty, some directories up.  The slash behind
\* the directory is taken in again, unless it is the root.
MoveUpPath(s, count) ==
  LET from == IF EndsWithSlash(s) THEN Front(s) ELSE s
      up   == FoldLeft(LAMBDA r, k : UpOnce(r), from, [k \in 1..count |-> k])
  IN  IF up = << >> THEN << >> ELSE Append(up, "/")

\* One character of the new part: dir is what was read since the last slash.
AppendChar(x, c) ==
  IF c /= "/" THEN [x EXCEPT !.dir = Append(@, c)]
  ELSE [dst |-> CASE x.dir = <<".">>      -> x.dst
                  [] x.dir = <<".", ".">> -> MoveUpPath(x.dst, 1)
                  [] OTHER                -> x.dst \o x.dir \o <<"/">>,
        dir |-> << >>]

\* _AppendPathToPath(): "." and ".." are followed where a slash is behind them, and
\* copied at the end.
AppendPathToPath(src, dst) ==
  LET start == IF dst = << >> \/ EndsWithSlash(dst) THEN dst ELSE Append(dst, "/")
      part  == IF dst /= << >> /\ src /= << >> /\ src[1] = "/" THEN Tail(src) ELSE src
      upTo[k \in 0 .. Len(part)] ==
        IF k = 0 THEN [dst |-> start, dir |-> << >>] ELSE AppendChar(upTo[k-1], part[k])
      x     == upTo[Len(part)]
  IN  x.dst \o x.dir

-------------------------------------------------------------------------------

\* What a path means to the kernel: the names on the way from the root, and the
\* directories in which a name was looked up, in order.  ".." of the root is the
\* root, and slashes and "." stay where they are.
Component(x, c) ==
  IF c /= "/" THEN [x EXCEPT !.dir = Append(@, c)]
  ELSE IF x.dir = << >> THEN x
  ELSE [names |-> CASE x.dir = <<".">>                            -> x.names
                    [] x.dir = <<".", ".">> /\ x.names /= << >> -> Front(x.names)
                    [] x.dir = <<".", ".">> /\ x.names = << >>  -> << >>
                    [] OTHER                                    -> x.names \o x.dir,
        seen |-> Append(x.seen, x.names), dir |-> << >>]

Walk(names, s) ==
  LET upTo[k \in 0 .. Len(s) + 1] ==
        IF k = 0 THEN [names |-> names, seen |-> << >>, dir |-> << >>]
        ELSE Component(upTo[k-1], IF k > Len(s) THEN "/" ELSE s[k])
  IN  upTo[Len(s) + 1]

IsAbsolute(s) == s /= << >> /\ s[1] = "/"

\* Where a path ends in "." or "..", perhaps with a slash behind it.
EndsInDots(s) ==
  LET t == IF EndsWithSlash(s) THEN Front(s) ELSE s
  IN  t /= << >> /\ Last(t) = "."
===============================================================================
