-------------------------------- MODULE DirTree --------------------------------
(***************************************************************************)
(* Directories of the platform layer (include/tinybase-platform-linux.c):  *)
(* MakeDir() with the directories up the tree, ListFiles(), and RemoveDir()*)
(* with all that is inside, each a sequence of system calls.  A process    *)
(* puts a path together with AppendPathToPath() and MoveUpPath(), and then *)
(* calls one of them; two processes do so at the same time.                *)
(***************************************************************************)
EXTENDS Paths

CONSTANTS
  Procs,       \* the processes
  Parts,       \* the strings that are appended to a path
  MaxBuilds,   \* the calls that put a path together
  Trees,       \* the directories and files there are at first
  Cwd          \* the working directory, a sequence of names

VARIABLES
  dirs, files,   \* sets of sequences of names
  proc,          \* the processes
  open,          \* the open directory streams of each process
  before         \* the directories and files when a process made its call

treeVars == <<dirs, files, proc, open, before>>

ASSUME TreeAssumption ==
  \A t \in Trees : /\ {<< >>, Cwd} \subseteq t.dirs /\ t.dirs \cap t.files = {}
                   /\ \A n \in t.dirs \cup t.files : n /= << >> => Front(n) \in t.dirs

\* A process builds its path, is in MakeDir() ("make") or RemoveDir() ("remove"),
\* is "over", or has "crashed".  target is what the path should mean; slash is the
\* last slash MakeDir() came to; frames are the calls of RemoveDir() that have not
\* returned, innermost last.
Idle == [state |-> "build", path |-> << >>, target |-> Cwd, builds |-> 0,
         call |-> "none", slash |-> 0, frames |-> << >>, result |-> FALSE]

Init ==
  /\ \E t \in Trees : dirs = t.dirs /\ files = t.files
  /\ proc = [p \in Procs |-> Idle]
  /\ open = [p \in Procs |-> 0]
  /\ before = [p \in Procs |-> [dirs |-> {}, files |-> {}]]

-------------------------------------------------------------------------------

Lookup(s)  == Walk(IF IsAbsolute(s) THEN << >> ELSE Cwd, s)
Resolve(s) == Lookup(s).names
Exists(n)  == n \in dirs \cup files
Entries(n) == {m \in dirs \cup files : m /= << >> /\ Front(m) = n}

\* All directories on the way of s are there; and if not, the first that is not.
Reaches(s) == s /= << >> /\ ToSet(Lookup(s).seen) \subseteq dirs
Missing(s) == SelectSeq(Lookup(s).seen, LAMBDA n : n \notin dirs)[1]

\* errno of mkdir().
MkdirError(s) ==
  CASE s = << >>                                      -> "ENOENT"
    [] s /= << >> /\ ~Reaches(s) /\ Missing(s) \in files -> "ENOTDIR"
    [] s /= << >> /\ ~Reaches(s) /\ Missing(s) \notin files -> "ENOENT"
    [] Reaches(s) /\ Exists(Resolve(s))               -> "EEXIST"
    [] OTHER                                          -> "none"

Mkdir(s) == dirs' = IF MkdirError(s) = "none" THEN dirs \cup {Resolve(s)} ELSE dirs

\* rmdir() and unlink().
CanRmdir(s)  == Reaches(s) /\ Resolve(s) \in dirs /\ Entries(Resolve(s)) = {} /\ ~EndsInDots(s)
CanUnlink(s) == Reaches(s) /\ Resolve(s) \in files

-------------------------------------------------------------------------------

HasDots(s) == \E k \in DOMAIN s : s[k] = "."
Depth(s)   == Len(Walk(<< >>, s).names)

\* How far up the ".." of s lead, from a path of depth n.
Lowest(n, s) ==
  LET way == Walk([k \in 1 .. n + Len(s) |-> "x"], s)
  IN  Min({Len(m) : m \in ToSet(way.seen) \cup {way.names}}) - Len(s)

\* Where ".." may follow a path: from below the root, or with nothing to cut off,
\* MoveUpPath() gives another path, and so it does with "." or ".." at the end.
ClimbsFrom(path, depth) == ~HasDots(path) /\ depth >= (IF IsAbsolute(path) THEN 1 ELSE 0)

Build(p, path, target) ==
  /\ proc[p].state = "build" /\ proc[p].builds < MaxBuilds
  /\ proc' = [proc EXCEPT ![p].path = path, ![p].target = target, ![p].builds = @ + 1]
  /\ UNCHANGED <<dirs, files, open, before>>

\* AppendPathToPath() by a process.
AppendPart(p) ==
  LET path == proc[p].path
  IN  \E part \in Parts :
        /\ path /= << >> => ~IsAbsolute(part)
        /\ HasDots(part) => ClimbsFrom(path, Lowest(Depth(path), part))
        /\ Build(p, AppendPathToPath(part, path),
                 IF path = << >> THEN Resolve(part) ELSE Walk(proc[p].target, part).names)

\* MoveUpPath() by a process.
MoveUp(p) ==
  LET path == proc[p].path
  IN  \E count \in 1 .. Depth(path) :
        /\ ClimbsFrom(path, Depth(path) - count)
        /\ Build(p, MoveUpPath(path, count),
                 SubSeq(proc[p].target, 1, Len(proc[p].target) - count))

Over(x, result) == [x EXCEPT !.state = "over", !.frames = << >>, !.result = result]

Called(p) ==
  /\ proc[p].state = "build" /\ proc[p].path /= << >>
  /\ before' = [before EXCEPT ![p] = [dirs |-> dirs, files |-> files]]

-------------------------------------------------------------------------------

\* MakeDir(): the directory itself is tried first.
MakeDir(p) ==
  LET s     == proc[p].path
      error == MkdirError(s)
      x     == [proc[p] EXCEPT !.call = "make"]
  IN  /\ Called(p)
      /\ Mkdir(s)
      /\ proc' = [proc EXCEPT ![p] = IF error = "ENOENT" THEN [x EXCEPT !.state = "make"]
                                     ELSE Over(x, error = "none")]
      /\ UNCHANGED <<files, open>>

\* The copy of the path MakeDir() walks along, and its slashes that are left.
WorkPath(p)    == AppendPathToPath(proc[p].path, << >>)
SlashesLeft(p) == {k \in Slashes(WorkPath(p)) : k > proc[p].slash}

\* Mutant: the part behind the last slash is made, not the path in front of this one.
PrefixOfLast(p) == SubSeq(WorkPath(p), proc[p].slash + 1, Min(SlashesLeft(p)) - 1)

\* What is made for the next slash: the whole path in front of it, nothing for the
\* slash of the root.
Prefix(p) == SubSeq(WorkPath(p), 1, Min(SlashesLeft(p)) - 1)

MakeParent(p) ==
  /\ proc[p].state = "make" /\ SlashesLeft(p) /= {}
  /\ Mkdir(Prefix(p))
  /\ proc' = [proc EXCEPT ![p] =
       IF MkdirError(Prefix(p)) \in {"none", "EEXIST"} THEN [@ EXCEPT !.slash = Min(SlashesLeft(p))]
       ELSE Over(@, FALSE)]
  /\ UNCHANGED <<files, open, before>>

\* Behind the last slash: the path is tried again, if it does not end there.
MakeLast(p) ==
  LET s == proc[p].path
  IN  /\ proc[p].state = "make" /\ SlashesLeft(p) = {}
      /\ IF Len(WorkPath(p)) > proc[p].slash
         THEN /\ Mkdir(s)
              /\ proc' = [proc EXCEPT ![p] = Over(@, MkdirError(s) = "none")]
         ELSE /\ proc' = [proc EXCEPT ![p] = Over(@, FALSE)]
              /\ UNCHANGED dirs
      /\ UNCHANGED <<files, open, before>>

-------------------------------------------------------------------------------

\* A call of RemoveDir(): its path, what it does next, and its directory stream:
\* the directory, the entries there when it was opened, the names that were read,
\* and whether that directory is still there.
Frame(s, at) == [path |-> s, at |-> at, dir |-> << >>, opened |-> {}, seen |-> {},
                 live |-> TRUE, entry |-> << >>]

Top(p) == Last(proc[p].frames)

InRemove(p, at) == proc[p].state = "remove" /\ Top(p).at = at

\* The frames of x with another one on top.
TopIs(x, frame) == [x EXCEPT !.frames = Append(Front(@), frame)]

\* RemoveDir(), with all files or only where there are none.
RemoveDir(p) ==
  /\ Called(p)
  /\ \E all \in BOOLEAN :
       proc' = [proc EXCEPT ![p] =
         [@ EXCEPT !.call = IF all THEN "removeAll" ELSE "remove", !.state = "remove",
                   !.frames = <<Frame(proc[p].path, IF all THEN "open" ELSE "rmdir")>>]]
  /\ UNCHANGED <<dirs, files, open>>

\* The entries of a directory.  d_type tells directories from files, and there is
\* nothing else; the code also takes sockets and block devices for directories.
EntryRecords(n) == {[name |-> m, isDir |-> m \in dirs] : m \in Entries(n)}

\* The first ListFiles() opens the directory.  The result is not looked at, and a
\* directory that is not there crashes the process in readdir_r().
OpenDir(p) ==
  LET n == Resolve(Top(p).path)
  IN  /\ InRemove(p, "open")
      /\ IF Reaches(Top(p).path) /\ n \in dirs
         THEN /\ open' = [open EXCEPT ![p] = @ + 1]
              /\ proc' = [proc EXCEPT ![p] =
                   TopIs(@, [Top(p) EXCEPT !.at = "list", !.dir = n, !.opened = EntryRecords(n)])]
         ELSE /\ proc' = [proc EXCEPT ![p].state = "crashed"]
              /\ UNCHANGED open
      /\ UNCHANGED <<dirs, files, before>>

\* The entries ListFiles() can return, and those it must: what came or went behind
\* the opening may be among them or not.
CanList(f)  == {e \in f.opened \cup (IF f.live THEN EntryRecords(f.dir) ELSE {}) : e.name \notin f.seen}
MustList(f) == IF f.live THEN {e \in CanList(f) : e.name \in {o.name : o \in f.opened} \cap (dirs \cup files)} ELSE {}

\* Mutant: the name of the entry is taken for its path.
EntryPathAlone(s, name) == <<Last(name)>>

EntryPath(s, name) == AppendPathToPath(<<Last(name)>>, s)

\* ListFiles() finds a file or a directory; "." and ".." are passed over.
ListFiles(p) ==
  /\ InRemove(p, "list")
  /\ \E e \in CanList(Top(p)) :
       LET s == EntryPath(Top(p).path, e.name)
           f == [Top(p) EXCEPT !.seen = @ \cup {e.name}]
       IN  proc' = [proc EXCEPT ![p] =
             IF e.isDir THEN [TopIs(@, f) EXCEPT !.frames = Append(@, Frame(s, "open"))]
             ELSE TopIs(@, [f EXCEPT !.at = "unlink", !.entry = s])]
  /\ UNCHANGED <<dirs, files, open, before>>

\* Mutant: the stream stays open at the end.
StreamsLeftOpen(n) == n

StreamsLeft(n) == n - 1

\* ListFiles() is at the end, and closes the directory.
ListEnds(p) ==
  /\ InRemove(p, "list") /\ MustList(Top(p)) = {}
  /\ proc' = [proc EXCEPT ![p] = TopIs(@, [Top(p) EXCEPT !.at = "rmdir"])]
  /\ open' = [open EXCEPT ![p] = StreamsLeft(@)]
  /\ UNCHANGED <<dirs, files, before>>

\* RemoveFile() of the entry.  A failure returns from all calls of RemoveDir(), and
\* leaves their directory streams open.
RemoveEntry(p) ==
  LET s == Top(p).entry
  IN  /\ InRemove(p, "unlink")
      /\ files' = IF CanUnlink(s) THEN files \ {Resolve(s)} ELSE files
      /\ proc' = [proc EXCEPT ![p] = IF CanUnlink(s) THEN TopIs(@, [Top(p) EXCEPT !.at = "list"])
                                     ELSE Over(@, FALSE)]
      /\ UNCHANGED <<dirs, open, before>>

\* The directory n is gone under the streams that read it.
Gone(x, n) == [x EXCEPT !.frames = [k \in DOMAIN @ |-> [@[k] EXCEPT !.live = @ /\ x.frames[k].dir /= n]]]

\* rmdir() at the end of RemoveDir(), and back to the call that made this one.
RemoveEmpty(p) ==
  LET s == Top(p).path
      x == [proc[p] EXCEPT !.frames = Front(@)]
      y == IF ~CanRmdir(s) THEN Over(x, FALSE) ELSE IF x.frames = << >> THEN Over(x, TRUE) ELSE x
  IN  /\ InRemove(p, "rmdir")
      /\ dirs' = IF CanRmdir(s) THEN dirs \ {Resolve(s)} ELSE dirs
      /\ proc' = [q \in Procs |-> LET z == IF q = p THEN y ELSE proc[q]
                                  IN  IF CanRmdir(s) THEN Gone(z, Resolve(s)) ELSE z]
      /\ UNCHANGED <<files, open, before>>

\* A process goes on with the call it is in.
Continue(p) ==
  \/ MakeParent(p) \/ MakeLast(p)
  \/ OpenDir(p) \/ ListFiles(p) \/ ListEnds(p) \/ RemoveEntry(p) \/ RemoveEmpty(p)

Next ==
  \E p \in Procs : AppendPart(p) \/ MoveUp(p) \/ MakeDir(p) \/ RemoveDir(p) \/ Continue(p)

Spec == Init /\ [][Next]_treeVars

-------------------------------------------------------------------------------

Streams(p) == {k \in DOMAIN proc[p].frames : proc[p].frames[k].at \in {"list", "unlink"}}

(***************************************************************************)
(* What a process has open while it removes is one directory stream for    *)
(* every call that is listing, and none once it has returned true; what is *)
(* there is in a directory that is there.                                  *)
(***************************************************************************)
DirsTypeOK ==
  /\ dirs \cap files = {}
  /\ \A n \in dirs \cup files : n /= << >> => Front(n) \in dirs
  /\ \A p \in Procs :
       /\ proc[p].state \in {"build", "make", "remove", "over", "crashed"}
       /\ proc[p].state = "remove" => open[p] = Cardinality(Streams(p))
       /\ proc[p].result => open[p] = 0

(***************************************************************************)
(* The path a process has put together with AppendPathToPath() and         *)
(* MoveUpPath() is the directory that the parts mean one after the other.  *)
(***************************************************************************)
PathsDenote == \A p \in Procs : Resolve(proc[p].path) = proc[p].target

Above(n)   == {SubSeq(n, 1, k) : k \in 0 .. Len(n) - 1}
Within(n, names) == {m \in names : IsPrefix(n, m)}

\* No other process has made its call.
Alone(p)   == \A q \in Procs \ {p} : proc[q].call = "none"
OnlyMakers == \A q \in Procs : proc[q].call \in {"none", "make"}

\* Process p has made the directory and those above it; of several that do so at the
\* same time one is told so, and one that is alone if and only if it was not there.
MakesTree(p) ==
  LET x == proc[p]
      n == x.target
      clear == (Above(n) \cup {n}) \cap before[p].files = {}
  IN  x.state = "over" /\ x.call = "make" /\ ~HasDots(x.path) =>
        /\ OnlyMakers /\ clear => n \in dirs
        /\ OnlyMakers /\ x.result =>
             \A q \in Procs \ {p} : ~(proc[q].call = "make" /\ proc[q].result /\ proc[q].target = n)
        /\ Alone(p) => (x.result <=> clear /\ n \notin before[p].dirs)

(***************************************************************************)
(* MakeDir() "creates all dirs up the directory tree if they don't exist   *)
(* already", and returns "true if successful" (tinybase-platform.h:327-    *)
(* 329), also where several processes do so at the same time, if no file   *)
(* is in the way.  Of an absolute path it makes the last directory only,   *)
(* and of a path that ends with a slash it makes all and returns false.    *)
(***************************************************************************)
MakeDirMakesTree == \A p \in Procs : MakesTree(p)

(***************************************************************************)
(* The same of relative paths without a slash at the end, and of all paths *)
(* where only the last directory is missing.                               *)
(***************************************************************************)
RelativeMakesTree ==
  \A p \in Procs :
    \/ ~IsAbsolute(proc[p].path) /\ ~EndsWithSlash(proc[p].path)
    \/ Above(proc[p].target) \subseteq before[p].dirs
    => MakesTree(p)

(***************************************************************************)
(* RemoveDir() returns "true if successful, false if not"                  *)
(* (tinybase-platform.h:342).  With all files, of a directory that is not  *)
(* there, or no more, it does not: the null opendir() returns is read from.*)
(***************************************************************************)
RemoveDirReturns == \A p \in Procs : proc[p].state /= "crashed"

(***************************************************************************)
(* RemoveDir() with all files, of a path without "." and "..", by a        *)
(* process that is alone, leaves nothing at or below the directory and     *)
(* everything else as it was, whatever the order in which the entries are  *)
(* listed.  It crashes only where there is no such directory.  (b/.. loses *)
(* its way when b is removed.)                                             *)
(***************************************************************************)
RemoveDirEmpties ==
  \A p \in Procs :
    LET x == proc[p]
        n == x.target
        b == before[p]
    IN  x.call = "removeAll" /\ Alone(p) /\ ~HasDots(x.path) =>
          /\ x.state = "crashed" => n \notin b.dirs
          /\ x.state = "over" =>
               /\ x.result
               /\ dirs = b.dirs \ Within(n, b.dirs)
               /\ files = b.files \ Within(n, b.files)

(***************************************************************************)
(* Whatever the processes do at the same time: what goes is at or below    *)
(* the directory of a RemoveDir(), and the directory itself if it is not   *)
(* to remove all; what comes is a directory a MakeDir() has on its way.    *)
(***************************************************************************)
OnlyBelow ==
  [][/\ \A n \in (dirs \ dirs') \cup (files \ files') :
          \E p \in Procs : /\ proc[p].state = "remove"
                           /\ IF proc[p].call = "removeAll" THEN IsPrefix(proc[p].target, n)
                              ELSE n = proc[p].target /\ n \in dirs
     /\ \A n \in dirs' \ dirs :
          \E p \in Procs : /\ proc'[p].call = "make" /\ proc[p].state \in {"build", "make"}
                           /\ IsPrefix(n, proc[p].target) \/ HasDots(proc[p].path)
     /\ files' \subseteq files]_treeVars
===============================================================================
