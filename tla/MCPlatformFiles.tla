---------------------------- MODULE MCPlatformFiles ----------------------------
(* Two or three threads with one to two files, in programs that make the     *)
(* calls of the layer meet.                                                  *)
EXTENDS PlatformFiles

SomePaths == <<"A", "B", "C", "D">>
SomeContents == {<< <<"a", "b">>, <<"c">>, <<"x", "y", "z">>, Directory >>,
                 << <<"a", "b">>, <<"a", "b">>, << >>, Directory >>,
                 << <<"a", "b">>, <<"a", "c">>, Absent, Directory >>}

OpenAs(slot, path, how) == [fn |-> "open", slot |-> slot, path |-> path, how |-> how, force |-> FALSE]
ForceOpenAs(slot, path) == [fn |-> "open", slot |-> slot, path |-> path, how |-> "open", force |-> TRUE]
CloseIt(slot)           == [fn |-> "close", slot |-> slot]
Read(slot, from, n)     == [fn |-> "read", slot |-> slot, from |-> from, n |-> n]
AsyncRead(slot, from, n) == [fn |-> "aread", slot |-> slot, from |-> from, n |-> n]
Write(slot, from, w)    == [fn |-> "write", slot |-> slot, at |-> "from", from |-> from, bytes |-> w]
AppendIt(slot, w)       == [fn |-> "write", slot |-> slot, at |-> "here", from |-> 0, bytes |-> w]
Copy(src, dst, over)    == [fn |-> "copy", src |-> src, dst |-> dst, overwrite |-> over]
Await(block)            == [fn |-> "await", block |-> block]
Do(fn)                  == [fn |-> fn]
On(fn, t)               == [fn |-> fn, thread |-> t]

\* Two threads read and compare while the main thread copies.
Copying ==
  [main |-> <<On("start", "t"), Copy("A", "C", TRUE), OpenAs(1, "B", "open"), CloseIt(1)>>,
   t    |-> <<OpenAs(1, "A", "open"), Read(1, 1, 1), Read(1, 0, 2), Read(1, 0, 1), CloseIt(1)>>,
   u    |-> << >>]

\* The same with three threads, the third of which compares.
CopyingMore ==
  [main |-> <<On("start", "t"), On("start", "u"), Copy("A", "C", TRUE)>>,
   t    |-> <<OpenAs(1, "A", "open"), Read(1, 0, 1), CloseIt(1)>>,
   u    |-> <<OpenAs(1, "A", "open"), OpenAs(2, "B", "open"), Do("equal"), CloseIt(1), CloseIt(2)>>]

CopyingNew ==
  [main |-> <<On("start", "t"), Copy("A", "C", FALSE), On("join", "t")>>,
   t    |-> <<Copy("B", "C", FALSE)>>,
   u    |-> << >>]

\* The shared handle is read under the mutex by three threads.
Sharing ==
  LET at(n) == <<Do("lock"), Read(0, n, 1), Do("unlock")>>
  IN  [main |-> <<On("start", "t"), On("start", "u")>> \o at(1) \o <<On("join", "t"), On("join", "u")>>,
       t    |-> at(0), u |-> at(1)]

\* A thread reads what another has written before it increased the semaphore.
Passing ==
  [main |-> <<On("start", "t"), ForceOpenAs(1, "C"), Write(1, 0, <<"x">>), AppendIt(1, <<"y">>),
              CloseIt(1), Do("post"), On("join", "t")>>,
   t    |-> <<Do("wait"), OpenAs(2, "C", "open"), Read(2, 0, 2), CloseIt(2)>>,
   u    |-> << >>]

Comparing ==
  [main |-> <<On("start", "t"), OpenAs(1, "A", "open"), OpenAs(2, "B", "open"), Do("equal"),
              CloseIt(1), CloseIt(2), On("join", "t")>>,
   t    |-> <<OpenAs(1, "B", "open"), AsyncRead(1, 0, 1), Await(FALSE), CloseIt(1)>>,
   u    |-> << >>]

Removing ==
  [main |-> <<On("start", "t"), [fn |-> "remove", path |-> "A"], ForceOpenAs(1, "A"), CloseIt(1)>>,
   t    |-> <<ForceOpenAs(1, "A"), Read(1, 0, 2), CloseIt(1)>>,
   u    |-> << >>]

\* A directory is copied, removed in vain, and read while a file is copied onto it.
Directories ==
  [main |-> <<On("start", "t"), Copy("D", "C", TRUE), [fn |-> "remove", path |-> "D"], On("join", "t")>>,
   t    |-> <<Copy("A", "D", TRUE), OpenAs(1, "D", "open"), AsyncRead(1, 0, 1), Await(FALSE), Read(1, 0, 1), CloseIt(1)>>,
   u    |-> << >>]

\* A thread asks for a byte behind the end, and another one waits for it, and then for
\* one of a file it has closed.
AtEnd ==
  [main |-> <<On("start", "t"), OpenAs(1, "A", "open"), AsyncRead(1, 2, 1), Await(FALSE), CloseIt(1)>>,
   t    |-> <<OpenAs(1, "A", "open"), AsyncRead(1, 2, 1), Await(TRUE), CloseIt(1), AsyncRead(1, 0, 1), Await(TRUE)>>,
   u    |-> << >>]

\* A byte is read, and the next one asynchronously.
Behind ==
  [main |-> <<OpenAs(1, "A", "open"), Read(1, 0, 1), AsyncRead(1, 1, 1), Await(TRUE), CloseIt(1)>>,
   t    |-> << >>, u |-> << >>]

AllPrograms == {Copying, CopyingMore, CopyingNew, Sharing, Passing, Comparing, Removing,
                Directories, AtEnd, Behind}
AllThreads  == {"main", "t", "u"}
===============================================================================
