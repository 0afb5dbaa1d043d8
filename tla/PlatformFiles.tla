----------------------------- MODULE PlatformFiles -----------------------------
(***************************************************************************)
(* Files, threads and locks of the platform layer on Linux                 *)
(* (include/tinybase-platform-linux.c), used by the threads of a process.  *)
(* A function of the layer is a sequence of system calls: each of these is *)
(* a step, and the steps of the threads interleave.  The kernel's side     *)
(* (names, inodes, descriptors) is kept as far as these calls show it.     *)
(*                                                                         *)
(* A thread runs a program: a sequence of calls [fn |-> name, ...] that it *)
(* makes with handles of its own, in slots 1 and 2, or with the handle in  *)
(* slot 0, which is open from the beginning and shared by all threads.     *)
(***************************************************************************)
EXTENDS Integers, SequencesExt

CONSTANTS
  Threads, Main,    \* the threads, and the one that runs from the beginning
  Paths,            \* the names of files, a sequence; slot 0 has the first
  Contents,         \* what the files hold at first: sequences like Paths
  Programs,         \* what the threads run: functions from threads
  MaxFds,           \* the descriptors of the process
  BufferSize,       \* the bytes of the buffer a thread reads to
  MemoryMayFail     \* whether GetMemory() can return no memory

Absent    == <<"absent">>       \* the content of a file that does not exist
Directory == <<"directory">>    \* the content of a directory

ASSUME FilesAssumption ==
  /\ Main \in Threads /\ MaxFds \in Nat \ {0} /\ BufferSize \in Nat
  /\ "free" \notin Threads
  /\ Paths \in Seq(ToSet(Paths)) /\ Paths /= << >>
  /\ \A c \in Contents : /\ DOMAIN c = DOMAIN Paths /\ c[1] \notin {Absent, Directory}
                         /\ \A i \in DOMAIN c : c[i] \in Seq(ToSet(c[i]))

\* A program opens and closes handles of its own only, and files that have a name;
\* a directory it opens to read.
ASSUME ProgramsAssumption ==
  \A p \in Programs : \A t \in Threads : Len(p[t]) \in Nat /\ \A i \in 1..Len(p[t]) :
    LET c == p[t][i]
    IN  /\ c.fn \in {"open", "close"} => c.slot \in 1..2
        /\ c.fn \in {"read", "aread", "write"} => c.slot \in 0..2
        /\ c.fn \in {"read", "aread"} => c.from \in Nat /\ c.n \in Nat \ {0}
        /\ c.fn = "await" => c.block \in BOOLEAN
        /\ c.fn = "write" => c.from \in Nat /\ Len(c.bytes) \in Nat /\ "directory" \notin ToSet(c.bytes)
        /\ c.fn \in {"open", "remove"} => c.path \in ToSet(Paths)
        /\ c.fn = "copy" => c.src \in ToSet(Paths) /\ c.dst \in ToSet(Paths)
        /\ c.fn \in {"start", "join"} => c.thread \in Threads

VARIABLES
  names,     \* the inode of each path, 0 for none
  content,   \* the bytes of each inode
  fds,       \* the descriptors: the inode and the position; inode 0 is not open
  program,   \* the programs that are run
  thr,       \* the threads
  mutex,     \* the thread that holds the mutex, or "free"
  sem,       \* the count of the semaphore
  maps,      \* the mappings of each thread that it has not unmapped
  lost       \* the threads of which another thread closed a descriptor

kernelVars == <<names, content, fds>>
fileVars == <<names, content, fds, program, thr, mutex, sem, maps, lost>>

UszMax == 1000    \* USZ_MAX: the size of a file that cannot be asked for it
NoFd   == [ino |-> 0, pos |-> 0]

\* The result n of a system call as an usz.
AsUsz(n) == IF n < 0 THEN UszMax + 1 + n ELSE n

\* A thread before it runs: where it is, its handles and the inodes it opened
\* with them, the locals of the function it is in, its buffer with WriteCur, its
\* asynchronous read, the result of its last call, and what that should have read.
Idle == [state |-> "off", ip |-> 1, pc |-> "call", h |-> <<0, 0>>, ino |-> <<0, 0>>,
         src |-> 0, dst |-> 0, again |-> 0, size |-> 0, count |-> 0,
         bufA |-> << >>, bufB |-> << >>,
         buf |-> [k \in 1..BufferSize |-> "?"], cur |-> 0, aio |-> "none", request |-> [from |-> 0, n |-> 0, slot |-> 0],
         bytes |-> 0,
         result |-> FALSE, due |-> << >>]

Init ==
  /\ \E c \in Contents :
       /\ content = [i \in DOMAIN Paths |-> IF c[i] = Absent THEN << >> ELSE c[i]]
       /\ names = [p \in ToSet(Paths) |->
                     LET i == CHOOSE i \in DOMAIN Paths : Paths[i] = p
                     IN  IF c[i] = Absent THEN 0 ELSE i]
  /\ program \in Programs
  /\ fds = [f \in 1..MaxFds |-> IF f = 1 THEN [NoFd EXCEPT !.ino = 1] ELSE NoFd]
  /\ thr = [t \in Threads |-> IF t = Main THEN [Idle EXCEPT !.state = "on"] ELSE Idle]
  /\ mutex = "free" /\ sem = 0
  /\ maps = [t \in Threads |-> 0] /\ lost = {}

-------------------------------------------------------------------------------

\* The call thread t is making.
Call(t) == program[t][thr[t].ip]
Handle(t, slot) == IF slot = 0 THEN 1 ELSE thr[t].h[slot]

\* Thread t is at point pc of function fn.
At(t, fn, pc) == /\ thr[t].state = "on" /\ thr[t].ip =< Len(program[t])
                 /\ Call(t).fn = fn /\ thr[t].pc = pc

\* The thread behind the call that returned.
Returned(x, result) == [x EXCEPT !.ip = @ + 1, !.pc = "call", !.result = result]

IsOpen(f) == f \in 1..MaxFds /\ fds[f].ino /= 0
FreeFds   == {f \in 1..MaxFds : fds[f].ino = 0}

\* Open, and of something that has a size and can be read.
IsRegular(f) == IsOpen(f) /\ content[fds[f].ino] /= Directory

FileSizeOf(f) == IF IsRegular(f) THEN Len(content[fds[f].ino]) ELSE UszMax

IsDirectory(path) == names[path] /= 0 /\ content[names[path]] = Directory

\* open() as _NewFile() calls it: how is "open", "excl" to create a new file, or
\* "trunc" to empty the one there is.  Opened is its result, 0 for INVALID_FILE.
Opened(path, how) ==
  IF \/ FreeFds = {}
     \/ how = "open" /\ names[path] = 0
     \/ how = "excl" /\ names[path] /= 0
     \/ how = "trunc" /\ IsDirectory(path)
  THEN 0 ELSE Min(FreeFds)

NewFile(path, how) ==
  LET f   == Opened(path, how)
      ino == IF names[path] = 0 THEN Len(content) + 1 ELSE names[path]
  IN  IF f = 0 THEN UNCHANGED kernelVars
      ELSE /\ names' = [names EXCEPT ![path] = ino]
           /\ content' = IF names[path] = 0 THEN Append(content, << >>)
                         ELSE IF how = "trunc" THEN [content EXCEPT ![ino] = << >>]
                         ELSE content
           /\ fds' = [fds EXCEPT ![f] = [ino |-> ino, pos |-> 0]]

\* The threads that hold descriptor f in a handle, or as a local of DuplicateFile().
Holders(f) == {t \in Threads : f \in {thr[t].h[1], thr[t].h[2], thr[t].src, thr[t].dst}}

\* close() by thread t: nothing says whether the descriptor is still its own.
Close(t, f) ==
  /\ fds' = IF IsOpen(f) THEN [fds EXCEPT ![f] = NoFd] ELSE fds
  /\ lost' = IF IsOpen(f) THEN lost \cup (Holders(f) \ {t}) ELSE lost

\* CreateNewFile() and OpenFileHandle() to a handle of the thread.
OpenFile(t) ==
  /\ At(t, "open", "call")
  /\ LET c == Call(t)
         f == Opened(c.path, c.how)
     IN  /\ NewFile(c.path, c.how)
         /\ thr' = [thr EXCEPT ![t] =
              IF f = 0 /\ c.force THEN [@ EXCEPT !.pc = "force"]
              ELSE [Returned(@, f /= 0) EXCEPT !.h[c.slot] = f, !.ino[c.slot] = names'[c.path]]]
  /\ UNCHANGED <<program, mutex, sem, maps, lost>>

\* FORCE_OPEN: the file was not there, and is created; it must still not be there.
ForceOpen(t) ==
  /\ At(t, "open", "force")
  /\ LET c == Call(t)
         f == Opened(c.path, "excl")
     IN  /\ NewFile(c.path, "excl")
         /\ thr' = [thr EXCEPT ![t] =
              [Returned(@, f /= 0) EXCEPT !.h[c.slot] = f, !.ino[c.slot] = names'[c.path]]]
  /\ UNCHANGED <<program, mutex, sem, maps, lost>>

CloseFileHandle(t) ==
  /\ At(t, "close", "call")
  /\ LET s == Call(t).slot
     IN  /\ Close(t, Handle(t, s))
         /\ thr' = [thr EXCEPT ![t] = [Returned(@, TRUE) EXCEPT !.h[s] = 0]]
  /\ UNCHANGED <<names, content, program, mutex, sem, maps>>

\* The name goes; an open file keeps its inode, and a directory its name.
RemoveFile(t) ==
  /\ At(t, "remove", "call")
  /\ LET p == Call(t).path
     IN  /\ names' = IF IsDirectory(p) THEN names ELSE [names EXCEPT ![p] = 0]
         /\ thr' = [thr EXCEPT ![t] = Returned(@, names[p] /= 0 /\ ~IsDirectory(p))]
  /\ UNCHANGED <<content, fds, program, mutex, sem, maps, lost>>

-------------------------------------------------------------------------------

SeekFile(f, pos) == IF IsOpen(f) THEN [fds EXCEPT ![f].pos = pos] ELSE fds

\* n bytes have room in the buffer of thread t.
HasRoom(t, n) == n =< BufferSize - thr[t].cur

\* ReadFromFile(): the size is looked at, the position set, and the bytes read,
\* each in a system call of its own.
CheckSize(t) ==
  /\ At(t, "read", "call")
  /\ LET c == Call(t)
     IN  thr' = [thr EXCEPT ![t] =
           IF c.from + c.n =< FileSizeOf(Handle(t, c.slot)) /\ HasRoom(t, c.n)
           THEN [@ EXCEPT !.pc = "seek"] ELSE Returned(@, FALSE)]
  /\ UNCHANGED <<kernelVars, program, mutex, sem, maps, lost>>

SeekToRead(t) ==
  /\ At(t, "read", "seek")
  /\ fds' = SeekFile(Handle(t, Call(t).slot), Call(t).from)
  /\ thr' = [thr EXCEPT ![t].pc = "read"]
  /\ UNCHANGED <<names, content, program, mutex, sem, maps, lost>>

\* At most n bytes of s behind the first "from".
Slice(s, from, n) == SubSeq(s, from + 1, Min({from + n, Len(s)}))

BytesAt(f, n) == IF IsRegular(f) THEN Slice(content[fds[f].ino], fds[f].pos, n) ELSE << >>

\* The buffer of x with the bytes s at its start, and behind those in it.
FilledAtBase(x, s) == [k \in DOMAIN x.buf |-> IF k \in DOMAIN s THEN s[k] ELSE x.buf[k]]

Filled(x, s) == [k \in DOMAIN x.buf |-> IF k - x.cur \in DOMAIN s THEN s[k - x.cur] ELSE x.buf[k]]

\* What a read should give: of the file the caller opened, and from where it said.
\* Of the shared handle a caller can ask that only while it holds the mutex.
DueTo(t, c) == IF c.slot /= 0 THEN Slice(content[thr[t].ino[c.slot]], c.from, c.n)
               ELSE Slice(content[1], c.from, c.n)

ReadBytes(t) ==
  /\ At(t, "read", "read")
  /\ LET c == Call(t)
         f == Handle(t, c.slot)
         s == BytesAt(f, c.n)
         x == [thr[t] EXCEPT !.buf = Filled(thr[t], s)]
     IN  /\ fds' = IF IsOpen(f) THEN [fds EXCEPT ![f].pos = @ + Len(s)] ELSE fds
         /\ thr' = [thr EXCEPT ![t] =
              IF Len(s) /= c.n THEN Returned(x, FALSE)
              ELSE [Returned(x, TRUE) EXCEPT
                      !.cur = @ + c.n,
                      !.due = IF c.slot /= 0 \/ mutex = t THEN DueTo(t, c) ELSE << >>]]
  /\ UNCHANGED <<names, content, program, mutex, sem, maps, lost>>

\* ReadFileAsync(): the request is handed over, and WriteCur is set forward at once.
\* A descriptor that is not open aio_read() may refuse, or leave to the request.
ReadFileAsync(t) ==
  /\ At(t, "aread", "call")
  /\ LET c == Call(t)
     IN  \E accepted \in BOOLEAN :
           /\ IsOpen(Handle(t, c.slot)) => accepted
           /\ thr' = [thr EXCEPT ![t] =
                IF HasRoom(t, c.n) /\ accepted
                THEN [Returned(@, TRUE) EXCEPT
                        !.aio = "busy", !.request = [from |-> c.from, n |-> c.n, slot |-> c.slot], !.cur = @ + c.n]
                ELSE Returned(@, FALSE)]
  /\ UNCHANGED <<kernelVars, program, mutex, sem, maps, lost>>

\* The kernel reads for the request, to the start of the buffer, WriteCur or not.
\* Of what cannot be read nothing is due, and the result of read() is -1.
CompleteRead(t) ==
  /\ thr[t].aio = "busy"
  /\ LET c == thr[t].request
         f == Handle(t, c.slot)
         s == IF IsRegular(f) THEN Slice(content[fds[f].ino], c.from, c.n) ELSE << >>
     IN  thr' = [thr EXCEPT ![t].aio = "done",
                            ![t].bytes = AsUsz(IF IsRegular(f) THEN Len(s) ELSE -1),
                            ![t].buf = FilledAtBase(thr[t], s),
                            ![t].due = IF IsRegular(f) THEN DueTo(t, c) ELSE << >>]
  /\ UNCHANGED <<kernelVars, program, mutex, sem, maps, lost>>

\* Mutant: without blocking, more is waited for than was asked for.
AnsweredMore(x, block) == x.aio = "done" /\ (block \/ x.bytes > x.request.n)

\* The answer of WaitOnIoCompletion() makes the caller go on: it blocked, or there
\* are bytes.  Without blocking, no bytes and "not yet" look the same.
Answered(x, block) == x.aio = "done" /\ (block \/ x.bytes > 0)

\* WaitOnIoCompletion() for a request that was accepted, again and again until it is
\* answered.
WaitOnIoCompletion(t) ==
  /\ At(t, "await", "call")
  /\ Call(t).block => thr[t].aio /= "busy"
  /\ thr' = IF thr[t].aio = "none" THEN [thr EXCEPT ![t] = Returned(@, FALSE)]
            ELSE IF Answered(thr[t], Call(t).block)
            THEN [thr EXCEPT ![t] = [Returned(@, @.bytes > 0) EXCEPT !.aio = "none"]]
            ELSE thr
  /\ UNCHANGED <<kernelVars, program, mutex, sem, maps, lost>>

-------------------------------------------------------------------------------

\* WriteToFile() and WriteEntireFile() set the position, AppendToFile() does not.
SeekToWrite(t) ==
  /\ At(t, "write", "call")
  /\ fds' = IF Call(t).at = "here" THEN fds ELSE SeekFile(Handle(t, Call(t).slot), Call(t).from)
  /\ thr' = [thr EXCEPT ![t].pc = "write"]
  /\ UNCHANGED <<names, content, program, mutex, sem, maps, lost>>

\* s with the bytes w from position pos on; a gap is filled with zeros.
Overwritten(s, pos, w) ==
  [k \in 1 .. Max({Len(s), pos + Len(w)}) |->
     IF k - pos \in DOMAIN w THEN w[k - pos] ELSE IF k \in DOMAIN s THEN s[k] ELSE "0"]

WriteBytes(t) ==
  /\ At(t, "write", "write")
  /\ LET w == Call(t).bytes
         f == Handle(t, Call(t).slot)
     IN  IF IsRegular(f)
         THEN /\ content' = [content EXCEPT ![fds[f].ino] = Overwritten(@, fds[f].pos, w)]
              /\ fds' = [fds EXCEPT ![f].pos = @ + Len(w)]
              /\ thr' = [thr EXCEPT ![t] = Returned(@, TRUE)]
         ELSE /\ thr' = [thr EXCEPT ![t] = Returned(@, FALSE)]
              /\ UNCHANGED <<content, fds>>
  /\ UNCHANGED <<names, program, mutex, sem, maps, lost>>

\* GetMemory() for size bytes: there is none for no bytes, nor for too many.
MemoryFor(size) == {ok \in BOOLEAN : IF size \in {0, UszMax} THEN ~ok ELSE ok \/ MemoryMayFail}

\* FilesAreEqual(): the sizes are compared, then either file is read to memory.
CompareSizes(t) ==
  /\ At(t, "equal", "call")
  /\ thr' = [thr EXCEPT ![t] = IF FileSizeOf(Handle(t, 1)) = FileSizeOf(Handle(t, 2))
                               THEN [@ EXCEPT !.pc = "readA"] ELSE Returned(@, FALSE)]
  /\ UNCHANGED <<kernelVars, program, mutex, sem, maps, lost>>

\* ReadEntireFile(), whose memory is given back when the read fails.  The handles
\* are the thread's own, and the file is read in one step.
ReadEntireFile(t, slot, buf, next) ==
  LET f    == Handle(t, slot)
      size == FileSizeOf(f)
  IN  \E ok \in MemoryFor(size) :
        /\ fds' = IF IsOpen(f) /\ ok THEN [fds EXCEPT ![f].pos = size] ELSE fds
        /\ thr' = [thr EXCEPT ![t][buf] = IF ok THEN content[fds[f].ino] ELSE << >>,
                          ![t].pc = next]
        /\ maps' = IF ok THEN [maps EXCEPT ![t] = @ + 1] ELSE maps

ReadFileA(t) ==
  /\ At(t, "equal", "readA")
  /\ ReadEntireFile(t, 1, "bufA", "readB")
  /\ UNCHANGED <<names, content, program, mutex, sem, lost>>

ReadFileB(t) ==
  /\ At(t, "equal", "readB")
  /\ ReadEntireFile(t, 2, "bufB", "compare")
  /\ UNCHANGED <<names, content, program, mutex, sem, lost>>

\* Mutant: buffers are the same when they begin with the same bytes.
EqualBuffersAtStart(a, b) == a[1] = b[1]

EqualBuffers(a, b) == a = b

\* Mutant: the second buffer is forgotten.
BuffersFreedOne(x) == IF x.bufA /= << >> /\ x.bufB /= << >> THEN 1 ELSE 0

\* One buffer without the other is not given back.
BuffersFreed(x) == IF x.bufA /= << >> /\ x.bufB /= << >> THEN 2 ELSE 0

CompareFiles(t) ==
  /\ At(t, "equal", "compare")
  /\ LET both == thr[t].bufA /= << >> /\ thr[t].bufB /= << >>
     IN  /\ thr' = [thr EXCEPT ![t] = Returned(@, both /\ EqualBuffers(@.bufA, @.bufB))]
         /\ maps' = [maps EXCEPT ![t] = @ - BuffersFreed(thr[t])]
  /\ UNCHANGED <<kernelVars, program, mutex, sem, lost>>

-------------------------------------------------------------------------------

\* DuplicateFile(): the source is opened, the destination made, and copied to.
OpenSource(t) ==
  /\ At(t, "copy", "call")
  /\ LET f == Opened(Call(t).src, "open")
     IN  thr' = [thr EXCEPT ![t] = IF f = 0 THEN Returned(@, FALSE)
                                   ELSE [@ EXCEPT !.src = f, !.pc = "create"]]
  /\ NewFile(Call(t).src, "open")
  /\ UNCHANGED <<program, mutex, sem, maps, lost>>

\* Mutant: what a file that is overwritten held is kept.
DestinationModeKeeps(c) == IF c.overwrite THEN "open" ELSE "excl"

DestinationMode(c) == IF c.overwrite THEN "trunc" ELSE "excl"

CreateDestination(t) ==
  /\ At(t, "copy", "create")
  /\ LET how == DestinationMode(Call(t))
         f   == Opened(Call(t).dst, how)
     IN  /\ NewFile(Call(t).dst, how)
         /\ thr' = [thr EXCEPT ![t] =
              IF f = 0 THEN [@ EXCEPT !.again = thr[t].src, !.src = 0, !.result = FALSE, !.pc = "closeAgain"]
              ELSE [@ EXCEPT !.dst = f, !.pc = "size"]]
  /\ UNCHANGED <<program, mutex, sem, maps, lost>>

SizeOfSource(t) ==
  /\ At(t, "copy", "size")
  /\ thr' = [thr EXCEPT ![t].size = FileSizeOf(thr[t].src), ![t].pc = "copy"]
  /\ UNCHANGED <<kernelVars, program, mutex, sem, maps, lost>>

\* copy_file_range() may copy less than it is asked for, and fails for a directory.
CopyBytes(t) ==
  /\ At(t, "copy", "copy")
  /\ LET x == thr[t]
         s == BytesAt(x.src, x.size)
     IN  IF IsRegular(x.src) /\ IsRegular(x.dst)
         THEN \E n \in 0 .. Len(s) :
                /\ n = 0 => s = << >>
                /\ content' = [content EXCEPT ![fds[x.dst].ino] =
                                 Overwritten(@, fds[x.dst].pos, SubSeq(s, 1, n))]
                /\ fds' = [fds EXCEPT ![x.src].pos = @ + n, ![x.dst].pos = @ + n]
                /\ thr' = [thr EXCEPT ![t].count = n, ![t].pc = "closeSource"]
         ELSE /\ thr' = [thr EXCEPT ![t].count = -1, ![t].pc = "closeSource"]
              /\ UNCHANGED <<content, fds>>
  /\ UNCHANGED <<names, program, mutex, sem, maps, lost>>

CloseSource(t) ==
  /\ At(t, "copy", "closeSource")
  /\ Close(t, thr[t].src)
  /\ thr' = [thr EXCEPT ![t].again = thr[t].src, ![t].src = 0, ![t].pc = "closeDestination"]
  /\ UNCHANGED <<names, content, program, mutex, sem, maps>>

\* Mutant: the source is closed instead.
SecondClosedSource(x) == x.again

SecondClosed(x) == x.dst

\* The result of DuplicateFile(): the two sides of the comparison are usz.
IsCopied(x) == AsUsz(x.count) = x.size

CloseDestination(t) ==
  /\ At(t, "copy", "closeDestination")
  /\ Close(t, SecondClosed(thr[t]))
  /\ thr' = [thr EXCEPT ![t].dst = 0, ![t].pc = "closeAgain",
                        ![t].result = IsCopied(thr[t])]
  /\ UNCHANGED <<names, content, program, mutex, sem, maps>>

\* The source is closed here when there was no destination, and otherwise for
\* the second time: the descriptor may be another file's by now.
CloseAgain(t) ==
  /\ At(t, "copy", "closeAgain")
  /\ Close(t, thr[t].again)
  /\ thr' = [thr EXCEPT ![t] = [Returned(@, @.result) EXCEPT !.again = 0]]
  /\ UNCHANGED <<names, content, program, mutex, sem, maps>>

-------------------------------------------------------------------------------

\* Mutant: the mutex is taken without a look at its holder.
MutexFreeAlways == TRUE

MutexFree == mutex = "free"

LockOnMutex(t) ==
  /\ At(t, "lock", "call") /\ MutexFree
  /\ mutex' = t
  /\ thr' = [thr EXCEPT ![t] = Returned(@, TRUE)]
  /\ UNCHANGED <<kernelVars, program, sem, maps, lost>>

UnlockMutex(t) ==
  /\ At(t, "unlock", "call")
  /\ mutex' = "free"
  /\ thr' = [thr EXCEPT ![t] = Returned(@, TRUE)]
  /\ UNCHANGED <<kernelVars, program, sem, maps, lost>>

IncreaseSemaphore(t) ==
  /\ At(t, "post", "call")
  /\ sem' = sem + 1
  /\ thr' = [thr EXCEPT ![t] = Returned(@, TRUE)]
  /\ UNCHANGED <<kernelVars, program, mutex, maps, lost>>

\* The result of sem_wait() is returned as it is: a wait that succeeds is FALSE.
WaitOnSemaphore(t) ==
  /\ At(t, "wait", "call") /\ sem > 0
  /\ sem' = sem - 1
  /\ thr' = [thr EXCEPT ![t] = Returned(@, FALSE)]
  /\ UNCHANGED <<kernelVars, program, mutex, maps, lost>>

InitThread(t) ==
  /\ At(t, "start", "call")
  /\ LET u == Call(t).thread
     IN  thr' = [thr EXCEPT ![t] = Returned(@, TRUE), ![u].state = "on"]
  /\ UNCHANGED <<kernelVars, program, mutex, sem, maps, lost>>

Ended(t) == thr[t].state = "on" /\ thr[t].ip > Len(program[t])

\* WaitOnThread() of a thread that was created to be waited on.
WaitOnThread(t) ==
  /\ At(t, "join", "call")
  /\ LET u == Call(t).thread
     IN  /\ Ended(u)
         /\ thr' = [thr EXCEPT ![t] = Returned(@, TRUE), ![u].state = "joined"]
  /\ UNCHANGED <<kernelVars, program, mutex, sem, maps, lost>>

FileStep(t) ==
  \/ OpenFile(t) \/ ForceOpen(t) \/ CloseFileHandle(t) \/ RemoveFile(t)
  \/ CheckSize(t) \/ SeekToRead(t) \/ ReadBytes(t)
  \/ ReadFileAsync(t) \/ WaitOnIoCompletion(t)
  \/ SeekToWrite(t) \/ WriteBytes(t)
  \/ CompareSizes(t) \/ ReadFileA(t) \/ ReadFileB(t) \/ CompareFiles(t)
  \/ OpenSource(t) \/ CreateDestination(t) \/ SizeOfSource(t) \/ CopyBytes(t)
  \/ CloseSource(t) \/ CloseDestination(t) \/ CloseAgain(t)

ThreadStep(t) ==
  \/ LockOnMutex(t) \/ UnlockMutex(t) \/ IncreaseSemaphore(t) \/ WaitOnSemaphore(t)
  \/ InitThread(t) \/ WaitOnThread(t)

\* No thread that was started has anything left to do.
AllOver == /\ \A t \in Threads : thr[t].state /= "on" \/ Ended(t)
           /\ UNCHANGED fileVars

Next == \/ \E t \in Threads : FileStep(t) \/ ThreadStep(t) \/ CompleteRead(t)
        \/ AllOver

\* Every thread that can go on does, and every request to the kernel completes.
Fairness == \A t \in Threads : WF_fileVars(FileStep(t)) /\ WF_fileVars(ThreadStep(t))
                               /\ WF_fileVars(CompleteRead(t))

Spec == Init /\ [][Next]_fileVars /\ Fairness

-------------------------------------------------------------------------------

\* The last of what the buffer of thread t has is what its last read should have read.
ReadExact(t) ==
  thr[t].aio = "none" =>
    SubSeq(thr[t].buf, thr[t].cur - Len(thr[t].due) + 1, thr[t].cur) = thr[t].due

(***************************************************************************)
(* A read that succeeds gives the bytes of the file its caller opened,     *)
(* from the position it asked for, behind what the buffer had: although    *)
(* the size, the position and the bytes are separate system calls, and     *)
(* descriptors are used again.  It takes a handle of the caller's own or   *)
(* the mutex, and that no other thread has closed the descriptor.          *)
(* ReadFileAsync() breaks this: it puts the bytes at the start of the      *)
(* buffer and moves WriteCur, which is "how much data it currently has"    *)
(* (tinybase-memory.h:44), behind what it has.                             *)
(***************************************************************************)
ReadsExact == \A t \in Threads \ lost : ReadExact(t)

\* What thread t reads asynchronously it reads first, and got all of it.
ReadsInPlace(t) ==
  /\ \A j, i \in 1..Len(program[t]) :
       j < i /\ program[t][i].fn = "aread" => program[t][j].fn \notin {"read", "aread"}
  /\ thr[t].bytes = thr[t].request.n

(***************************************************************************)
(* The same of the threads whose asynchronous reads are into an empty      *)
(* buffer, and of bytes that are in the file.                              *)
(***************************************************************************)
OrderedReadsExact == \A t \in Threads \ lost : ReadsInPlace(t) => ReadExact(t)

\* Thread t is about to return the result of a copy.
Copied(t) == At(t, "copy", "closeSource")

(***************************************************************************)
(* When DuplicateFile() is to return true, the source is a file, and the   *)
(* destination holds what it holds; in none of the programs is either      *)
(* written meanwhile.  It is not so of a directory: its size and what      *)
(* copy_file_range() returns for it are both USZ_MAX.                      *)
(***************************************************************************)
CopyComplete ==
  \A t \in Threads \ lost :
    Copied(t) /\ IsCopied(thr[t]) =>
      /\ IsRegular(thr[t].src)
      /\ content[fds[thr[t].dst].ino] = content[fds[thr[t].src].ino]

(***************************************************************************)
(* The same of sources that are files.                                     *)
(***************************************************************************)
FileCopyComplete ==
  \A t \in Threads \ lost :
    Copied(t) /\ IsRegular(thr[t].src) /\ IsCopied(thr[t]) =>
      content[fds[thr[t].dst].ino] = content[fds[thr[t].src].ino]

(***************************************************************************)
(* WaitOnIoCompletion() answers with "number of bytes transferred; 0 means *)
(* an error" (tinybase-platform.h:203): never with more than were asked    *)
(* for.  A request that fails is answered with -1, which is USZ_MAX.       *)
(***************************************************************************)
TransferCounted == \A t \in Threads : thr[t].aio = "done" => thr[t].bytes =< thr[t].request.n

(***************************************************************************)
(* FilesAreEqual() that returns true has compared equal files, and it does *)
(* not say false of equal files but when they are empty or there is no     *)
(* memory.  In either case the files were not written meanwhile.           *)
(***************************************************************************)
EqualityDecided ==
  \A t \in Threads \ lost :
    At(t, "equal", "compare") =>
      LET a == content[thr[t].ino[1]]
          b == content[thr[t].ino[2]]
          both == thr[t].bufA /= << >> /\ thr[t].bufB /= << >>
      IN  both => (EqualBuffers(thr[t].bufA, thr[t].bufB) <=> a = b)

(***************************************************************************)
(* When all threads are over, every descriptor they opened is closed, but  *)
(* the shared one, and all memory is given back, but that of a comparison  *)
(* that got only one of its two buffers.  A thread that lost a descriptor  *)
(* may have closed another one's.                                          *)
(***************************************************************************)
NothingLeaks ==
  (\A t \in Threads : thr[t].state = "joined" \/ Ended(t)) /\ lost = {} =>
    /\ \A f \in 2..MaxFds : ~IsOpen(f)
    /\ \A t \in Threads :
         maps[t] = IF thr[t].bufA /= << >> <=> thr[t].bufB /= << >> THEN 0 ELSE 1

(***************************************************************************)
(* A descriptor of a thread is closed by another one only where            *)
(* DuplicateFile() closes its source for the second time, or by a thread   *)
(* that itself has lost one: then the calls of the thread fail, or read    *)
(* another file.                                                           *)
(***************************************************************************)
LostOnlyByCopy ==
  [][\A t \in Threads : t \in lost' /\ t \notin lost
       => \E u \in Threads \ {t} : At(u, "copy", "closeAgain") \/ u \in lost]_fileVars

(***************************************************************************)
(* WaitOnSemaphore() returns "true if successful"                          *)
(* (tinybase-platform.h:562).  It returns what sem_wait() does, which is 0 *)
(* when the wait has succeeded.                                            *)
(***************************************************************************)
WaitSucceeds ==
  [][\A t \in Threads : WaitOnSemaphore(t) => thr'[t].result]_fileVars

(***************************************************************************)
(* Every program comes to its end: no call waits for ever, whatever the    *)
(* order.  It is not so of a caller that takes 0 for a timeout, as         *)
(* tinybase-platform.h:203-204 says, when a request has read no bytes.     *)
(***************************************************************************)
AllEnd == <>(\A t \in Threads : thr[t].state /= "on" \/ Ended(t))

\* Thread t asks again for a request that is complete and has read no bytes.
AsksAgain(t) ==
  At(t, "await", "call") /\ ~Call(t).block /\ thr[t].aio = "done" /\ thr[t].bytes = 0

(***************************************************************************)
(* Every program comes to its end, but where a thread asks for ever for a  *)
(* request that has read no bytes.                                         *)
(***************************************************************************)
OthersEnd == AllEnd \/ <>[](\E t \in Threads : AsksAgain(t))
===============================================================================
