-------------------------- MODULE PlatformFilesProofs --------------------------
(***************************************************************************)
(* What is proved of the file handles of the platform layer, for any       *)
(* number of threads, programs and descriptors: who can close a descriptor *)
(* that a thread holds, where a read takes place, what stays open when all *)
(* threads are over, and what a comparison and a copy say of the files.    *)
(***************************************************************************)
EXTENDS PlatformFiles, FiniteIntegers, SequenceTheorems

-------------------------------------------------------------------------------

(***************************************************************************)
(* Ownership, apart from the code.  H[u] are the descriptors in the four   *)
(* places where thread u can hold one, A[u] the one it is still to close   *)
(* (again), I the inodes of the descriptors (0 is not open), and L the     *)
(* threads that have lost one.                                             *)
(***************************************************************************)
Fd == 0..MaxFds

OwnType(H, A, I, L) ==
  /\ \A u \in Threads, i \in 1..4 : H[u][i] \in Fd /\ H[u][i] /= 1
  /\ \A u \in Threads : A[u] \in Fd /\ A[u] /= 1
  /\ I[1] /= 0
  /\ L \subseteq Threads

\* Who has not lost a descriptor holds open ones, none of them with another such
\* thread or in two places; and not the one that is still to be closed.
Own(H, A, I, L) ==
  /\ OwnType(H, A, I, L)
  /\ \A u \in Threads \ L, i \in 1..4 : H[u][i] /= 0 => I[H[u][i]] /= 0
  /\ \A u \in Threads \ L, v \in Threads \ L, i \in 1..4, j \in 1..4 :
       H[u][i] /= 0 /\ H[u][i] = H[v][j] => u = v /\ i = j
  /\ \A u \in Threads \ L, i \in 1..4 : A[u] /= 0 => H[u][i] /= A[u]

\* Place i of thread t gets f, and nothing else changes.
Takes(H, H2, t, i, f) ==
  \A u \in Threads, j \in 1..4 : H2[u][j] = IF u = t /\ j = i THEN f ELSE H[u][j]

Same(H, H2) == \A u \in Threads, j \in 1..4 : H2[u][j] = H[u][j]

SameAgain(A, A2) == \A u \in Threads : A2[u] = A[u]

\* What is in place i of thread t may become what is still to be closed.
MayKeep(A, A2, H, t, i) == \A u \in Threads : A2[u] = A[u] \/ (u = t /\ A2[u] = H[u][i])

\* f was free, and is open.
OpensFree(I, I2, f) ==
  /\ f \in 1..MaxFds /\ I[f] = 0 /\ I2[f] /= 0
  /\ \A g \in 1..MaxFds : g /= f => I2[g] = I[g]

HoldersIn(H, f) == {u \in Threads : \E j \in 1..4 : H[u][j] = f}

\* f is closed by t, when it is open.
Closed(H, I, I2, L, L2, t, f) ==
  /\ \A g \in 1..MaxFds : I2[g] = IF g = f THEN 0 ELSE I[g]
  /\ L2 = IF f \in 1..MaxFds /\ I[f] /= 0 THEN L \cup (HoldersIn(H, f) \ {t}) ELSE L

\* Nothing changes but inodes of open descriptors, if at all.
LEMMA OwnSame ==
  ASSUME NEW H, NEW H2, NEW A, NEW A2, NEW I, NEW I2, NEW L,
         Own(H, A, I, L), Same(H, H2), SameAgain(A, A2),
         \A g \in 1..MaxFds : I2[g] = I[g]
  PROVE  Own(H2, A2, I2, L)
<1>1. MaxFds \in Nat \ {0}
  BY FilesAssumption
<1>2. \A u \in Threads, i \in 1..4 : H2[u][i] = H[u][i] /\ H[u][i] \in Fd
  BY DEF Same, Own, OwnType
<1>3. \A f \in Fd : f /= 0 => I2[f] = I[f]
  BY <1>1 DEF Fd
<1>4. OwnType(H2, A2, I2, L)
  BY <1>1, <1>2 DEF Own, OwnType, SameAgain
<1> QED
  BY <1>2, <1>3, <1>4 DEF Own, SameAgain

\* A descriptor that was free is opened to a place.
LEMMA OwnOpens ==
  ASSUME NEW H, NEW H2, NEW A, NEW A2, NEW I, NEW I2, NEW L,
         NEW t \in Threads, NEW i \in 1..4, NEW f,
         Own(H, A, I, L), Takes(H, H2, t, i, f), SameAgain(A, A2), OpensFree(I, I2, f),
         A[t] = 0
  PROVE  Own(H2, A2, I2, L)
<1>1. /\ MaxFds \in Nat \ {0} /\ f \in 1..MaxFds /\ f /= 1 /\ f /= 0 /\ f \in Fd
      /\ I[f] = 0 /\ I2[f] /= 0
  BY FilesAssumption DEF Own, OwnType, Fd, OpensFree
<1>2. \A u \in Threads, j \in 1..4 : H2[u][j] = IF u = t /\ j = i THEN f ELSE H[u][j]
  BY DEF Takes
<1>3. \A u \in Threads, j \in 1..4 : H[u][j] \in Fd /\ H[u][j] /= 1
  BY DEF Own, OwnType
<1>4. \A g \in Fd : g /= 0 /\ g /= f => I2[g] = I[g]
  BY <1>1 DEF Fd, OpensFree
<1>5. \A u \in Threads \ L, j \in 1..4 : H[u][j] /= f
  BY <1>1 DEF Own
<1>6. OwnType(H2, A2, I2, L)
  BY <1>1, <1>2, <1>3 DEF Own, OwnType, SameAgain, OpensFree
<1>7. \A u \in Threads \ L, j \in 1..4 : H2[u][j] /= 0 => I2[H2[u][j]] /= 0
  <2> SUFFICES ASSUME NEW u \in Threads \ L, NEW j \in 1..4, H2[u][j] /= 0
               PROVE  I2[H2[u][j]] /= 0
    OBVIOUS
  <2>1. CASE u = t /\ j = i
    BY <1>1, <1>2, <2>1
  <2>2. CASE ~(u = t /\ j = i)
    <3>1. H2[u][j] = H[u][j] /\ H[u][j] \in Fd /\ H[u][j] /= 0 /\ H[u][j] /= f
      BY <1>2, <1>3, <1>5, <2>2
    <3>2. I[H[u][j]] /= 0
      BY <3>1 DEF Own
    <3> QED
      BY <1>4, <3>1, <3>2
  <2> QED
    BY <2>1, <2>2
<1>8. \A u \in Threads \ L, v \in Threads \ L, j \in 1..4, k \in 1..4 :
        H2[u][j] /= 0 /\ H2[u][j] = H2[v][k] => u = v /\ j = k
  BY <1>2, <1>5 DEF Own
<1>9. \A u \in Threads \ L, j \in 1..4 : A2[u] /= 0 => H2[u][j] /= A2[u]
  BY <1>2 DEF Own, SameAgain
<1> QED
  BY <1>6, <1>7, <1>8, <1>9 DEF Own

\* A place is cleared; what was in it may be what is still to be closed.
LEMMA OwnDrops ==
  ASSUME NEW H, NEW H2, NEW A, NEW A2, NEW I, NEW L,
         NEW t \in Threads, NEW i \in 1..4,
         Own(H, A, I, L), Takes(H, H2, t, i, 0), MayKeep(A, A2, H, t, i)
  PROVE  Own(H2, A2, I, L)
<1>1. 0 \in Fd
  BY FilesAssumption DEF Fd
<1>2. \A u \in Threads, j \in 1..4 : H2[u][j] = IF u = t /\ j = i THEN 0 ELSE H[u][j]
  BY DEF Takes
<1>3. OwnType(H2, A2, I, L)
  BY <1>1, <1>2 DEF Own, OwnType, MayKeep
<1>4. \A u \in Threads \ L, j \in 1..4 : H2[u][j] /= 0 => I[H2[u][j]] /= 0
  BY <1>2 DEF Own
<1>5. \A u \in Threads \ L, v \in Threads \ L, j \in 1..4, k \in 1..4 :
        H2[u][j] /= 0 /\ H2[u][j] = H2[v][k] => u = v /\ j = k
  BY <1>2 DEF Own
<1>6. \A u \in Threads \ L, j \in 1..4 : A2[u] /= 0 => H2[u][j] /= A2[u]
  BY <1>2 DEF Own, MayKeep
<1> QED
  BY <1>3, <1>4, <1>5, <1>6 DEF Own

\* A descriptor is closed that its thread has in no place, or no longer.
LEMMA OwnCloses ==
  ASSUME NEW H, NEW A, NEW I, NEW I2, NEW L, NEW L2, NEW t \in Threads, NEW f \in Fd,
         Own(H, A, I, L), Closed(H, I, I2, L, L2, t, f), f /= 1,
         t \notin L => \A j \in 1..4 : H[t][j] = f => f = 0
  PROVE  Own(H, A, I2, L2)
<1>1. MaxFds \in Nat \ {0}
  BY FilesAssumption
<1>2. L \subseteq L2 /\ L2 \subseteq Threads
  BY DEF Closed, Own, OwnType, HoldersIn
<1>3. \A u \in Threads, j \in 1..4 : H[u][j] \in Fd
  BY DEF Own, OwnType
<1>4. OwnType(H, A, I2, L2)
  BY <1>1, <1>2 DEF Own, OwnType, Closed
<1>5. ASSUME NEW u \in Threads \ L2, NEW j \in 1..4, H[u][j] /= 0
      PROVE  I2[H[u][j]] /= 0
  <2>1. u \notin L /\ I[H[u][j]] /= 0 /\ H[u][j] \in 1..MaxFds
    BY <1>1, <1>2, <1>3, <1>5 DEF Own, Fd
  <2>2. H[u][j] /= f
    <3>1. CASE u = t
      BY <1>5, <2>1, <3>1
    <3>2. CASE u /= t
      BY <2>1, <3>2 DEF Closed, HoldersIn
    <3> QED
      BY <3>1, <3>2
  <2> QED
    BY <2>1, <2>2 DEF Closed
<1> QED
  BY <1>2, <1>4, <1>5 DEF Own

\* What was still to be closed is forgotten.
LEMMA OwnForgets ==
  ASSUME NEW H, NEW A, NEW A2, NEW I, NEW L,
         Own(H, A, I, L), \A u \in Threads : A2[u] \in {A[u], 0}
  PROVE  Own(H, A2, I, L)
<1>1. 0 \in Fd
  BY FilesAssumption DEF Fd
<1>2. OwnType(H, A2, I, L)
  BY <1>1 DEF Own, OwnType
<1>3. \A u \in Threads \ L, j \in 1..4 : A2[u] /= 0 => H[u][j] /= A2[u]
  BY DEF Own
<1> QED
  BY <1>2, <1>3 DEF Own

-------------------------------------------------------------------------------

(***************************************************************************)
(* The threads.                                                            *)
(***************************************************************************)
ThreadsType ==
  /\ program \in Programs
  /\ DOMAIN thr = Threads
  /\ \A u \in Threads : /\ DOMAIN thr[u] = DOMAIN Idle /\ DOMAIN thr[u].h = 1..2
                        /\ DOMAIN thr[u].ino = 1..2 /\ thr[u].ip \in Nat \ {0}

\* There is something to close again only when DuplicateFile() is about to return.
AgainInv ==
  \A u \in Threads : thr[u].again /= 0 => thr[u].pc \in {"closeDestination", "closeAgain"}

\* A step in which no descriptor changes hands.
HandsStay ==
  /\ \A u \in Threads : /\ thr'[u].h = thr[u].h /\ thr'[u].ino = thr[u].ino
                        /\ thr'[u].src = thr[u].src /\ thr'[u].dst = thr[u].dst
                        /\ thr'[u].again = thr[u].again
  /\ UNCHANGED lost

KeepsHands(t) ==
  \/ RemoveFile(t)
  \/ CheckSize(t)
  \/ SeekToRead(t)
  \/ ReadBytes(t)
  \/ ReadFileAsync(t)
  \/ CompleteRead(t)
  \/ WaitOnIoCompletion(t)
  \/ SeekToWrite(t)
  \/ WriteBytes(t)
  \/ CompareSizes(t)
  \/ ReadFileA(t)
  \/ ReadFileB(t)
  \/ CompareFiles(t)
  \/ SizeOfSource(t)
  \/ CopyBytes(t)
  \/ LockOnMutex(t)
  \/ UnlockMutex(t)
  \/ IncreaseSemaphore(t)
  \/ WaitOnSemaphore(t)
  \/ InitThread(t)
  \/ WaitOnThread(t)

\* What a program says of the call a thread is in.
LEMMA CallFacts ==
  ASSUME ThreadsType, NEW t \in Threads, thr[t].ip =< Len(program[t])
  PROVE  /\ Call(t).fn \in {"open", "close"} => Call(t).slot \in 1..2
         /\ Call(t).fn \in {"read", "aread", "write"} => Call(t).slot \in 0..2
         /\ Call(t).fn \in {"read", "aread"} => Call(t).from \in Nat /\ Call(t).n \in Nat \ {0}
         /\ Call(t).fn = "write" => Call(t).from \in Nat /\ Len(Call(t).bytes) \in Nat
         /\ Call(t).fn \in {"open", "remove"} => Call(t).path \in ToSet(Paths)
         /\ Call(t).fn = "copy" => Call(t).src \in ToSet(Paths) /\ Call(t).dst \in ToSet(Paths)
         /\ Call(t).fn \in {"start", "join"} => Call(t).thread \in Threads
<1>1. program \in Programs /\ thr[t].ip \in 1..Len(program[t])
  BY ProgramsAssumption DEF ThreadsType
<1> QED
  BY <1>1, ProgramsAssumption DEF Call

LEMMA KeepStep ==
  ASSUME ThreadsType, AgainInv, NEW t \in Threads, KeepsHands(t)
  PROVE  ThreadsType' /\ AgainInv' /\ HandsStay
<1> USE DEF ThreadsType, AgainInv, HandsStay, At, Idle, Returned
<1>1. CASE RemoveFile(t)
  BY <1>1 DEF RemoveFile
<1>2. CASE CheckSize(t)
  BY <1>2 DEF CheckSize
<1>3. CASE SeekToRead(t)
  BY <1>3 DEF SeekToRead
<1>4. CASE ReadBytes(t)
  BY <1>4 DEF ReadBytes
<1>5. CASE ReadFileAsync(t)
  BY <1>5 DEF ReadFileAsync
<1>6. CASE CompleteRead(t)
  <2>1. PICK bytes, buf, due :
          thr' = [thr EXCEPT ![t].aio = "done", ![t].bytes = bytes, ![t].buf = buf, ![t].due = due]
    BY <1>6 DEF CompleteRead
  <2>2. DOMAIN thr' = Threads /\ \A u \in Threads \ {t} : thr'[u] = thr[u]
    BY <2>1
  <2>3. /\ DOMAIN thr'[t] = DOMAIN thr[t] /\ thr'[t].h = thr[t].h /\ thr'[t].ino = thr[t].ino
        /\ thr'[t].src = thr[t].src /\ thr'[t].dst = thr[t].dst /\ thr'[t].pc = thr[t].pc
        /\ thr'[t].again = thr[t].again /\ thr'[t].ip = thr[t].ip
    BY <2>1
  <2>4. UNCHANGED <<program, lost>>
    BY <1>6 DEF CompleteRead
  <2> QED
    BY <2>2, <2>3, <2>4
<1>7. CASE WaitOnIoCompletion(t)
  BY <1>7 DEF WaitOnIoCompletion
<1>8. CASE SeekToWrite(t)
  BY <1>8 DEF SeekToWrite
<1>9. CASE WriteBytes(t)
  <2>1. PICK ok \in BOOLEAN : thr' = [thr EXCEPT ![t] = Returned(@, ok)]
    BY <1>9 DEF WriteBytes
  <2> QED
    BY <1>9, <2>1 DEF WriteBytes
<1>10. CASE CompareSizes(t)
  BY <1>10 DEF CompareSizes
<1>11. CASE ReadFileA(t)
  BY <1>11 DEF ReadFileA, ReadEntireFile
<1>12. CASE ReadFileB(t)
  BY <1>12 DEF ReadFileB, ReadEntireFile
<1>13. CASE CompareFiles(t)
  BY <1>13 DEF CompareFiles
<1>14. CASE SizeOfSource(t)
  BY <1>14 DEF SizeOfSource
<1>15. CASE CopyBytes(t)
  <2>1. PICK n : thr' = [thr EXCEPT ![t].count = n, ![t].pc = "closeSource"]
    BY <1>15 DEF CopyBytes
  <2>2. UNCHANGED <<program, lost>> /\ thr[t].pc = "copy"
    BY <1>15 DEF CopyBytes
  <2> QED
    BY <2>1, <2>2
<1>16. CASE LockOnMutex(t)
  BY <1>16 DEF LockOnMutex
<1>17. CASE UnlockMutex(t)
  BY <1>17 DEF UnlockMutex
<1>18. CASE IncreaseSemaphore(t)
  BY <1>18 DEF IncreaseSemaphore
<1>19. CASE WaitOnSemaphore(t)
  BY <1>19 DEF WaitOnSemaphore
<1>20. CASE InitThread(t)
  <2>1. PICK v \in Threads :
          thr' = [thr EXCEPT ![t] = Returned(@, TRUE), ![v].state = "on"]
    <3>1. Call(t).thread \in Threads
      BY <1>20, CallFacts DEF InitThread
    <3> QED
      BY <1>20, <3>1 DEF InitThread
  <2>2. PICK mid : mid = [thr EXCEPT ![t] = Returned(@, TRUE)]
    OBVIOUS
  <2>3. thr' = [mid EXCEPT ![v].state = "on"]
    BY <2>1, <2>2
  <2>4. /\ DOMAIN mid = Threads
        /\ \A u \in Threads :
             /\ DOMAIN mid[u] = DOMAIN thr[u] /\ mid[u].h = thr[u].h /\ mid[u].ino = thr[u].ino
             /\ mid[u].src = thr[u].src /\ mid[u].dst = thr[u].dst
             /\ mid[u].again = thr[u].again /\ mid[u].ip \in Nat \ {0}
             /\ mid[u].again /= 0 => mid[u].pc \in {"closeDestination", "closeAgain"}
    BY <1>20, <2>2 DEF InitThread
  <2>5. UNCHANGED <<program, lost>>
    BY <1>20 DEF InitThread
  <2> QED
    BY <2>3, <2>4, <2>5
<1>21. CASE WaitOnThread(t)
  <2>1. PICK v \in Threads :
          thr' = [thr EXCEPT ![t] = Returned(@, TRUE), ![v].state = "joined"]
    <3>1. Call(t).thread \in Threads
      BY <1>21, CallFacts DEF WaitOnThread
    <3> QED
      BY <1>21, <3>1 DEF WaitOnThread
  <2>2. PICK mid : mid = [thr EXCEPT ![t] = Returned(@, TRUE)]
    OBVIOUS
  <2>3. thr' = [mid EXCEPT ![v].state = "joined"]
    BY <2>1, <2>2
  <2>4. /\ DOMAIN mid = Threads
        /\ \A u \in Threads :
             /\ DOMAIN mid[u] = DOMAIN thr[u] /\ mid[u].h = thr[u].h /\ mid[u].ino = thr[u].ino
             /\ mid[u].src = thr[u].src /\ mid[u].dst = thr[u].dst
             /\ mid[u].again = thr[u].again /\ mid[u].ip \in Nat \ {0}
             /\ mid[u].again /= 0 => mid[u].pc \in {"closeDestination", "closeAgain"}
    BY <1>21, <2>2 DEF WaitOnThread
  <2>5. UNCHANGED <<program, lost>>
    BY <1>21 DEF WaitOnThread
  <2> QED
    BY <2>3, <2>4, <2>5
<1> QED
  BY <1>1, <1>2, <1>3, <1>4, <1>5, <1>6, <1>7, <1>8, <1>9, <1>10, <1>11, <1>12, <1>13, <1>14, <1>15, <1>16, <1>17, <1>18, <1>19, <1>20, <1>21 DEF KeepsHands

-------------------------------------------------------------------------------

(***************************************************************************)
(* The kernel's side.                                                      *)
(***************************************************************************)
Sequence(s) == \E n \in Nat : DOMAIN s = 1..n /\ s = [k \in 1..n |-> s[k]]

KernelType ==
  /\ DOMAIN fds = 1..MaxFds /\ \A f \in 1..MaxFds : DOMAIN fds[f] = {"ino", "pos"}
  /\ DOMAIN names = ToSet(Paths)
  /\ Sequence(content)

InodesStay == \A f \in 1..MaxFds : fds'[f].ino = fds[f].ino

LEMMA SequenceFacts ==
  ASSUME NEW s, Sequence(s), NEW v, NEW k
  PROVE  /\ Len(s) \in Nat /\ DOMAIN s = 1..Len(s)
         /\ Sequence([s EXCEPT ![k] = v])
         /\ Sequence(Append(s, v)) /\ Len(Append(s, v)) = Len(s) + 1
         /\ Append(s, v)[Len(s) + 1] = v /\ \A j \in 1..Len(s) : Append(s, v)[j] = s[j]
<1>1. PICK n \in Nat : DOMAIN s = 1..n /\ s = [j \in 1..n |-> s[j]]
  BY DEF Sequence
<1>2. PICK S : S = {s[j] : j \in 1..n} \cup {v}
  OBVIOUS
<1>3. s \in [1..n -> S]
  BY <1>1, <1>2
<1>4. s \in Seq(S)
  BY <1>3, SeqDef
<1>5. Len(s) = n
  BY <1>1, <1>4, LenProperties
<1>6. Sequence([s EXCEPT ![k] = v])
  <2>1. PICK r : r = [s EXCEPT ![k] = v]
    OBVIOUS
  <2>2. DOMAIN r = 1..n /\ r = [j \in 1..n |-> r[j]]
    BY <1>1, <2>1
  <2> QED
    BY <2>1, <2>2 DEF Sequence
<1>7. Sequence(Append(s, v))
  <2>1. PICK r : r = Append(s, v)
    OBVIOUS
  <2>2. r \in Seq(S) /\ Len(r) = n + 1
    BY <1>2, <1>4, <1>5, <2>1, AppendProperties
  <2>3. DOMAIN r = 1..n+1 /\ r \in [1..n+1 -> S]
    BY <2>2, LenProperties
  <2>4. PICK m \in Nat : m = n + 1
    OBVIOUS
  <2>5. DOMAIN r = 1..m /\ r = [j \in 1..m |-> r[j]]
    BY <2>3, <2>4
  <2> QED
    BY <2>1, <2>5 DEF Sequence
<1>8. /\ Len(Append(s, v)) = Len(s) + 1
      /\ Append(s, v)[Len(s) + 1] = v /\ \A j \in 1..Len(s) : Append(s, v)[j] = s[j]
  BY <1>2, <1>4, AppendProperties
<1> QED
  BY <1>1, <1>5, <1>6, <1>7, <1>8

\* A position that is set leaves the inodes of the descriptors.
LEMMA PositionSet ==
  ASSUME KernelType, NEW f, NEW pos, fds' = [fds EXCEPT ![f].pos = pos]
  PROVE  /\ DOMAIN fds' = 1..MaxFds /\ \A g \in 1..MaxFds : DOMAIN fds'[g] = {"ino", "pos"}
         /\ InodesStay
BY DEF KernelType, InodesStay

LEMMA KeepKernel ==
  ASSUME KernelType, NEW t \in Threads, KeepsHands(t)
  PROVE  KernelType' /\ InodesStay
<1>1. CASE UNCHANGED kernelVars
  BY <1>1 DEF kernelVars, KernelType, InodesStay
<1>2. CASE RemoveFile(t)
  BY <1>2 DEF RemoveFile, KernelType, InodesStay
<1>3. ASSUME NEW f, UNCHANGED <<names, content>>, fds' = SeekFile(f, Call(t).from)
      PROVE  KernelType' /\ InodesStay
  <2>1. CASE fds' = fds
    BY <1>3, <2>1 DEF KernelType, InodesStay
  <2>2. CASE fds' = [fds EXCEPT ![f].pos = Call(t).from]
    BY <1>3, <2>2, PositionSet DEF KernelType
  <2> QED
    BY <1>3, <2>1, <2>2 DEF SeekFile
<1>4. CASE SeekToRead(t)
  BY <1>3, <1>4 DEF SeekToRead
<1>5. CASE SeekToWrite(t)
  <2>1. CASE fds' = fds
    BY <1>5, <2>1 DEF SeekToWrite, KernelType, InodesStay
  <2>2. CASE fds' /= fds
    BY <1>3, <1>5, <2>2 DEF SeekToWrite
  <2> QED
    BY <2>1, <2>2
<1>6. CASE ReadBytes(t)
  <2>1. CASE fds' = fds
    BY <1>6, <2>1 DEF ReadBytes, KernelType, InodesStay
  <2>2. CASE fds' /= fds
    <3>1. PICK f, pos : fds' = [fds EXCEPT ![f].pos = pos]
      BY <1>6, <2>2 DEF ReadBytes
    <3> QED
      BY <1>6, <3>1, PositionSet DEF ReadBytes, KernelType
  <2> QED
    BY <2>1, <2>2
<1>7. CASE ReadFileA(t) \/ ReadFileB(t)
  <2>1. UNCHANGED <<names, content>>
    BY <1>7 DEF ReadFileA, ReadFileB
  <2>2. CASE fds' = fds
    BY <2>1, <2>2 DEF KernelType, InodesStay
  <2>3. CASE fds' /= fds
    <3>1. PICK f, pos : fds' = [fds EXCEPT ![f].pos = pos]
      BY <1>7, <2>3 DEF ReadFileA, ReadFileB, ReadEntireFile
    <3> QED
      BY <2>1, <3>1, PositionSet DEF KernelType
  <2> QED
    BY <2>2, <2>3
<1>8. CASE WriteBytes(t)
  <2>1. CASE UNCHANGED <<content, fds>>
    BY <1>8, <2>1 DEF WriteBytes, KernelType, InodesStay
  <2>2. CASE ~UNCHANGED <<content, fds>>
    <3> DEFINE f == Handle(t, Call(t).slot)
               w == Call(t).bytes
    <3>1. /\ fds' = [fds EXCEPT ![f].pos = @ + Len(w)]
          /\ content' = [content EXCEPT ![fds[f].ino] = Overwritten(@, fds[f].pos, w)]
      BY <1>8, <2>2 DEF WriteBytes
    <3>2. UNCHANGED names
      BY <1>8 DEF WriteBytes
    <3> QED
      BY <3>1, <3>2, PositionSet, SequenceFacts DEF KernelType
  <2> QED
    BY <2>1, <2>2
<1>9. CASE CopyBytes(t)
  <2>1. CASE UNCHANGED <<content, fds>>
    BY <1>9, <2>1 DEF CopyBytes, KernelType, InodesStay
  <2>2. CASE ~UNCHANGED <<content, fds>>
    <3>1. PICK n : fds' = [fds EXCEPT ![thr[t].src].pos = @ + n, ![thr[t].dst].pos = @ + n]
      BY <1>9, <2>2 DEF CopyBytes
    <3>2. /\ DOMAIN fds' = 1..MaxFds /\ \A g \in 1..MaxFds : DOMAIN fds'[g] = {"ino", "pos"}
          /\ InodesStay
      BY <3>1 DEF KernelType, InodesStay
    <3>3. PICK k, v : content' = [content EXCEPT ![k] = v]
      BY <1>9, <2>2 DEF CopyBytes
    <3>4. UNCHANGED names
      BY <1>9 DEF CopyBytes
    <3> QED
      BY <3>2, <3>3, <3>4, SequenceFacts DEF KernelType
  <2> QED
    BY <2>1, <2>2
<1> QED
  BY <1>1, <1>2, <1>4, <1>5, <1>6, <1>7, <1>8, <1>9
     DEF KeepsHands, CheckSize, ReadFileAsync, CompleteRead, WaitOnIoCompletion, CompareSizes,
         CompareFiles, SizeOfSource, LockOnMutex, UnlockMutex, IncreaseSemaphore,
         WaitOnSemaphore, InitThread, WaitOnThread

-------------------------------------------------------------------------------

(***************************************************************************)
(* Ownership in the code: what a thread holds is in its two handles and in *)
(* two locals of DuplicateFile().                                          *)
(***************************************************************************)
Held(x) == <<x.h[1], x.h[2], x.src, x.dst>>
Hands   == [u \in Threads |-> Held(thr[u])]
Agains  == [u \in Threads |-> thr[u].again]
Inodes  == [f \in 1..MaxFds |-> fds[f].ino]

OwnInv == Own(Hands, Agains, Inodes, lost)

FilesInv == ThreadsType /\ KernelType /\ AgainInv /\ OwnInv

LEMMA HandsOf ==
  ASSUME NEW u \in Threads
  PROVE  /\ Hands[u][1] = thr[u].h[1] /\ Hands[u][2] = thr[u].h[2]
         /\ Hands[u][3] = thr[u].src /\ Hands[u][4] = thr[u].dst
         /\ Agains[u] = thr[u].again
BY DEF Hands, Held, Agains

LEMMA KeepOwn == OwnInv /\ HandsStay /\ InodesStay => OwnInv'
<1> SUFFICES ASSUME OwnInv, HandsStay, InodesStay
             PROVE  OwnInv'
  OBVIOUS
<1>1. PICK H, A, I, L : H = Hands /\ A = Agains /\ I = Inodes /\ L = lost
  OBVIOUS
<1>2. PICK H2, A2, I2 : H2 = Hands' /\ A2 = Agains' /\ I2 = Inodes'
  OBVIOUS
<1>3. Same(H, H2) /\ SameAgain(A, A2)
  BY <1>1, <1>2 DEF HandsStay, Hands, Held, Agains, Same, SameAgain
<1>4. \A g \in 1..MaxFds : I2[g] = I[g]
  BY <1>1, <1>2 DEF InodesStay, Inodes
<1>5. Own(H, A, I, L)
  BY <1>1 DEF OwnInv
<1>6. Own(H2, A2, I2, L)
  BY <1>3, <1>4, <1>5, OwnSame
<1>7. lost' = L
  BY <1>1 DEF HandsStay
<1> QED
  BY <1>2, <1>6, <1>7 DEF OwnInv

\* open() gives a descriptor that was free, for the inode that the name then has.
LEMMA NewFileFacts ==
  ASSUME KernelType, NEW path \in ToSet(Paths), NEW how, NewFile(path, how),
         NEW f, f = Opened(path, how)
  PROVE  /\ KernelType'
         /\ f = 0 => InodesStay
         /\ f /= 0 => /\ f \in 1..MaxFds /\ fds[f].ino = 0
                      /\ fds'[f].ino /= 0 /\ fds'[f].ino = names'[path]
                      /\ \A g \in 1..MaxFds : g /= f => fds'[g] = fds[g]
<1>1. CASE f = 0
  BY <1>1 DEF NewFile, kernelVars, KernelType, InodesStay
<1>2. CASE f /= 0
  <2>1. FreeFds \in SUBSET Int /\ FreeFds /= {} /\ f = Min(FreeFds)
    BY <1>2 DEF Opened, FreeFds
  <2>2. IsFiniteSet(1..MaxFds)
    BY FilesAssumption, FS_Interval
  <2>3. FreeFds \in SUBSET (1..MaxFds)
    BY DEF FreeFds
  <2>4. IsFiniteSet(FreeFds)
    BY <2>2, <2>3, FS_Subset
  <2>5. f \in FreeFds
    BY <2>1, <2>4, MinOfFinite
  <2>6. f \in 1..MaxFds /\ fds[f].ino = 0
    BY <2>5 DEF FreeFds
  <2>7. PICK ino : ino = IF names[path] = 0 THEN Len(content) + 1 ELSE names[path]
    OBVIOUS
  <2>8. /\ names' = [names EXCEPT ![path] = ino]
        /\ content' = IF names[path] = 0 THEN Append(content, << >>)
                      ELSE IF how = "trunc" THEN [content EXCEPT ![ino] = << >>]
                      ELSE content
        /\ fds' = [fds EXCEPT ![f] = [ino |-> ino, pos |-> 0]]
    BY <1>2, <2>7 DEF NewFile
  <2>9. ino /= 0
    <3>1. Len(content) \in Nat
      BY SequenceFacts DEF KernelType
    <3> QED
      BY <2>7, <3>1
  <2>10. Sequence(content')
    BY <2>8, SequenceFacts DEF KernelType
  <2>11. /\ DOMAIN names' = ToSet(Paths) /\ names'[path] = ino
         /\ DOMAIN fds' = 1..MaxFds /\ fds'[f].ino = ino /\ DOMAIN fds'[f] = {"ino", "pos"}
         /\ \A g \in 1..MaxFds : g /= f => fds'[g] = fds[g]
    BY <2>6, <2>8 DEF KernelType
  <2>12. \A g \in 1..MaxFds : DOMAIN fds'[g] = {"ino", "pos"}
    BY <2>11 DEF KernelType
  <2> QED
    BY <1>2, <2>6, <2>9, <2>10, <2>11, <2>12 DEF KernelType
<1> QED
  BY <1>1, <1>2

\* A thread that has nothing to close again opens a descriptor to place i of its hands,
\* or clears the place when that fails.
LEMMA OpensToPlace ==
  ASSUME OwnInv, NEW t \in Threads, NEW i \in 1..4, NEW f, Agains[t] = 0,
         Takes(Hands, Hands', t, i, f), SameAgain(Agains, Agains'),
         UNCHANGED lost,
         f = 0 => InodesStay,
         f /= 0 => /\ f \in 1..MaxFds /\ fds[f].ino = 0 /\ fds'[f].ino /= 0
                   /\ \A g \in 1..MaxFds : g /= f => fds'[g] = fds[g]
  PROVE  OwnInv'
<1>1. PICK H, A, I, L : H = Hands /\ A = Agains /\ I = Inodes /\ L = lost
  OBVIOUS
<1>2. PICK H2, A2, I2 : H2 = Hands' /\ A2 = Agains' /\ I2 = Inodes'
  OBVIOUS
<1>3. Own(H, A, I, L)
  BY <1>1 DEF OwnInv
<1>4. Takes(H, H2, t, i, f) /\ A[t] = 0 /\ SameAgain(A, A2)
  BY <1>1, <1>2
<1>5. CASE f = 0
  <2>1. I2 = I
    BY <1>1, <1>2, <1>5 DEF Inodes, InodesStay
  <2>2. Own(H2, A2, I, L)
    <3>1. MayKeep(A, A2, H, t, i)
      BY <1>4 DEF SameAgain, MayKeep
    <3> QED
      BY <1>3, <1>4, <1>5, <3>1, OwnDrops
  <2> QED
    BY <1>1, <1>2, <2>1, <2>2 DEF OwnInv
<1>6. CASE f /= 0
  <2>1. OpensFree(I, I2, f)
    BY <1>1, <1>2, <1>6 DEF Inodes, OpensFree
  <2>2. Own(H2, A2, I2, L)
    BY <1>3, <1>4, <2>1, OwnOpens
  <2> QED
    BY <1>1, <1>2, <2>2 DEF OwnInv
<1> QED
  BY <1>5, <1>6

LEMMA OpenFileStep ==
  ASSUME FilesInv, NEW t \in Threads, OpenFile(t)
  PROVE  FilesInv'
<1>1. ThreadsType /\ KernelType /\ AgainInv /\ OwnInv
  BY DEF FilesInv
<1>2. PICK c, f : c = Call(t) /\ f = Opened(c.path, c.how)
  OBVIOUS
<1>3. c.slot \in 1..2 /\ c.path \in ToSet(Paths) /\ thr[t].pc = "call"
  BY <1>1, <1>2, CallFacts DEF OpenFile, At
<1>4. NewFile(c.path, c.how)
  BY <1>2 DEF OpenFile
<1>5. /\ KernelType'
      /\ f = 0 => InodesStay
      /\ f /= 0 => /\ f \in 1..MaxFds /\ fds[f].ino = 0 /\ fds'[f].ino /= 0
                   /\ \A g \in 1..MaxFds : g /= f => fds'[g] = fds[g]
  BY <1>1, <1>2, <1>3, <1>4, NewFileFacts
<1>6. UNCHANGED <<program, lost>>
  BY DEF OpenFile
<1>7. CASE f = 0 /\ c.force
  <2>1. thr' = [thr EXCEPT ![t] = [@ EXCEPT !.pc = "force"]]
    BY <1>2, <1>7 DEF OpenFile
  <2>2. ThreadsType' /\ AgainInv' /\ HandsStay
    BY <1>1, <1>3, <1>6, <2>1 DEF ThreadsType, AgainInv, HandsStay, Idle
  <2> QED
    BY <1>1, <1>5, <1>7, <2>2, KeepOwn DEF FilesInv
<1>8. CASE ~(f = 0 /\ c.force)
  <2>1. PICK ino, ok :
          thr' = [thr EXCEPT ![t] = [Returned(@, ok) EXCEPT !.h[c.slot] = f, !.ino[c.slot] = ino]]
    BY <1>2, <1>8 DEF OpenFile
  <2>2. ThreadsType' /\ AgainInv'
    BY <1>1, <1>3, <1>6, <2>1 DEF ThreadsType, AgainInv, Idle, Returned
  <2>3. /\ \A u \in Threads : u /= t => thr'[u] = thr[u]
        /\ thr'[t].h = [thr[t].h EXCEPT ![c.slot] = f]
        /\ thr'[t].src = thr[t].src /\ thr'[t].dst = thr[t].dst /\ thr'[t].again = thr[t].again
    BY <1>1, <2>1 DEF ThreadsType, Idle, Returned
  <2>4. Takes(Hands, Hands', t, c.slot, f)
    BY <1>1, <1>3, <2>3 DEF Takes, Hands, Held, ThreadsType
  <2>5. SameAgain(Agains, Agains')
    BY <2>3 DEF SameAgain, Agains
  <2>6. Agains[t] = 0
    BY <1>1, <1>3 DEF Agains, AgainInv
  <2> QED
    BY <1>1, <1>3, <1>5, <1>6, <2>2, <2>4, <2>5, <2>6, OpensToPlace DEF FilesInv
<1> QED
  BY <1>7, <1>8

LEMMA ForceOpenStep ==
  ASSUME FilesInv, NEW t \in Threads, ForceOpen(t)
  PROVE  FilesInv'
<1>1. ThreadsType /\ KernelType /\ AgainInv /\ OwnInv
  BY DEF FilesInv
<1>2. PICK c, f : c = Call(t) /\ f = Opened(c.path, "excl")
  OBVIOUS
<1>3. c.slot \in 1..2 /\ c.path \in ToSet(Paths) /\ thr[t].pc = "force"
  BY <1>1, <1>2, CallFacts DEF ForceOpen, At
<1>4. NewFile(c.path, "excl")
  BY <1>2 DEF ForceOpen
<1>5. /\ KernelType'
      /\ f = 0 => InodesStay
      /\ f /= 0 => /\ f \in 1..MaxFds /\ fds[f].ino = 0 /\ fds'[f].ino /= 0
                   /\ \A g \in 1..MaxFds : g /= f => fds'[g] = fds[g]
  BY <1>1, <1>2, <1>3, <1>4, NewFileFacts
<1>6. UNCHANGED <<program, lost>>
  BY DEF ForceOpen
<1>7. PICK ino, ok :
        thr' = [thr EXCEPT ![t] = [Returned(@, ok) EXCEPT !.h[c.slot] = f, !.ino[c.slot] = ino]]
  BY <1>2 DEF ForceOpen
<1>8. ThreadsType' /\ AgainInv'
  BY <1>1, <1>3, <1>6, <1>7 DEF ThreadsType, AgainInv, Idle, Returned
<1>9. /\ \A u \in Threads : u /= t => thr'[u] = thr[u]
      /\ thr'[t].h = [thr[t].h EXCEPT ![c.slot] = f]
      /\ thr'[t].src = thr[t].src /\ thr'[t].dst = thr[t].dst /\ thr'[t].again = thr[t].again
  BY <1>1, <1>7 DEF ThreadsType, Idle, Returned
<1>10. Takes(Hands, Hands', t, c.slot, f)
  BY <1>1, <1>3, <1>9 DEF Takes, Hands, Held, ThreadsType
<1>11. SameAgain(Agains, Agains')
  BY <1>9 DEF SameAgain, Agains
<1>12. Agains[t] = 0
  BY <1>1, <1>3 DEF Agains, AgainInv
<1> QED
  BY <1>1, <1>3, <1>5, <1>6, <1>8, <1>10, <1>11, <1>12, OpensToPlace DEF FilesInv

LEMMA OpenSourceStep ==
  ASSUME FilesInv, NEW t \in Threads, OpenSource(t)
  PROVE  FilesInv'
<1>1. ThreadsType /\ KernelType /\ AgainInv /\ OwnInv
  BY DEF FilesInv
<1>2. PICK c, f : c = Call(t) /\ f = Opened(c.src, "open")
  OBVIOUS
<1>3. c.src \in ToSet(Paths) /\ thr[t].pc = "call"
  BY <1>1, <1>2, CallFacts DEF OpenSource, At
<1>4. NewFile(c.src, "open")
  BY <1>2 DEF OpenSource
<1>5. /\ KernelType'
      /\ f = 0 => InodesStay
      /\ f /= 0 => /\ f \in 1..MaxFds /\ fds[f].ino = 0 /\ fds'[f].ino /= 0
                   /\ \A g \in 1..MaxFds : g /= f => fds'[g] = fds[g]
  BY <1>1, <1>2, <1>3, <1>4, NewFileFacts
<1>6. UNCHANGED <<program, lost>>
  BY DEF OpenSource
<1>7. CASE f = 0
  <2>1. thr' = [thr EXCEPT ![t] = Returned(@, FALSE)]
    BY <1>2, <1>7 DEF OpenSource
  <2>2. ThreadsType' /\ AgainInv' /\ HandsStay
    BY <1>1, <1>3, <1>6, <2>1 DEF ThreadsType, AgainInv, HandsStay, Idle, Returned
  <2> QED
    BY <1>1, <1>5, <1>7, <2>2, KeepOwn DEF FilesInv
<1>8. CASE f /= 0
  <2>1. thr' = [thr EXCEPT ![t] = [@ EXCEPT !.src = f, !.pc = "create"]]
    BY <1>2, <1>8 DEF OpenSource
  <2>2. ThreadsType' /\ AgainInv'
    BY <1>1, <1>3, <1>6, <2>1 DEF ThreadsType, AgainInv, Idle
  <2>3. /\ \A u \in Threads : u /= t => thr'[u] = thr[u]
        /\ thr'[t].h = thr[t].h /\ thr'[t].src = f
        /\ thr'[t].dst = thr[t].dst /\ thr'[t].again = thr[t].again
    BY <1>1, <2>1 DEF ThreadsType, Idle
  <2>4. Takes(Hands, Hands', t, 3, f)
    BY <2>3 DEF Takes, Hands, Held
  <2>5. SameAgain(Agains, Agains')
    BY <2>3 DEF SameAgain, Agains
  <2>6. Agains[t] = 0
    BY <1>1, <1>3 DEF Agains, AgainInv
  <2> QED
    BY <1>1, <1>5, <1>6, <2>2, <2>4, <2>5, <2>6, OpensToPlace DEF FilesInv
<1> QED
  BY <1>7, <1>8

LEMMA CreateDestinationStep ==
  ASSUME FilesInv, NEW t \in Threads, CreateDestination(t)
  PROVE  FilesInv'
<1>1. ThreadsType /\ KernelType /\ AgainInv /\ OwnInv
  BY DEF FilesInv
<1>2. PICK c, how, f : c = Call(t) /\ how = DestinationMode(c) /\ f = Opened(c.dst, how)
  OBVIOUS
<1>3. c.dst \in ToSet(Paths) /\ thr[t].pc = "create"
  BY <1>1, <1>2, CallFacts DEF CreateDestination, At
<1>4. NewFile(c.dst, how)
  BY <1>2 DEF CreateDestination
<1>5. /\ KernelType'
      /\ f = 0 => InodesStay
      /\ f /= 0 => /\ f \in 1..MaxFds /\ fds[f].ino = 0 /\ fds'[f].ino /= 0
                   /\ \A g \in 1..MaxFds : g /= f => fds'[g] = fds[g]
  BY <1>1, <1>2, <1>3, <1>4, NewFileFacts
<1>6. UNCHANGED <<program, lost>>
  BY DEF CreateDestination
<1>7. CASE f = 0
  <2>1. thr' = [thr EXCEPT ![t] = [@ EXCEPT !.again = thr[t].src, !.src = 0, !.result = FALSE,
                                            !.pc = "closeAgain"]]
    BY <1>2, <1>7 DEF CreateDestination
  <2>2. ThreadsType' /\ AgainInv'
    BY <1>1, <1>3, <1>6, <2>1 DEF ThreadsType, AgainInv, Idle
  <2>3. /\ \A u \in Threads : u /= t => thr'[u] = thr[u]
        /\ thr'[t].h = thr[t].h /\ thr'[t].src = 0
        /\ thr'[t].dst = thr[t].dst /\ thr'[t].again = thr[t].src
    BY <1>1, <2>1 DEF ThreadsType, Idle
  <2>4. Takes(Hands, Hands', t, 3, 0)
    BY <2>3 DEF Takes, Hands, Held
  <2>5. MayKeep(Agains, Agains', Hands, t, 3)
    BY <2>3 DEF MayKeep, Agains, Hands, Held
  <2>6. PICK H, A, H2, A2 : H = Hands /\ A = Agains /\ H2 = Hands' /\ A2 = Agains'
    OBVIOUS
  <2>7. Takes(H, H2, t, 3, 0) /\ MayKeep(A, A2, H, t, 3) /\ Own(H, A, Inodes, lost)
    BY <1>1, <2>4, <2>5, <2>6 DEF OwnInv
  <2>8. Own(H2, A2, Inodes, lost)
    BY <2>7, OwnDrops
  <2>9. Inodes' = Inodes
    BY <1>5, <1>7 DEF Inodes, InodesStay
  <2> QED
    BY <1>5, <1>6, <2>2, <2>6, <2>8, <2>9 DEF FilesInv, OwnInv
<1>8. CASE f /= 0
  <2>1. thr' = [thr EXCEPT ![t] = [@ EXCEPT !.dst = f, !.pc = "size"]]
    BY <1>2, <1>8 DEF CreateDestination
  <2>2. ThreadsType' /\ AgainInv'
    BY <1>1, <1>3, <1>6, <2>1 DEF ThreadsType, AgainInv, Idle
  <2>3. /\ \A u \in Threads : u /= t => thr'[u] = thr[u]
        /\ thr'[t].h = thr[t].h /\ thr'[t].src = thr[t].src
        /\ thr'[t].dst = f /\ thr'[t].again = thr[t].again
    BY <1>1, <2>1 DEF ThreadsType, Idle
  <2>4. Takes(Hands, Hands', t, 4, f)
    BY <2>3 DEF Takes, Hands, Held
  <2>5. SameAgain(Agains, Agains')
    BY <2>3 DEF SameAgain, Agains
  <2>6. Agains[t] = 0
    BY <1>1, <1>3 DEF Agains, AgainInv
  <2> QED
    BY <1>1, <1>5, <1>6, <2>2, <2>4, <2>5, <2>6, OpensToPlace DEF FilesInv
<1> QED
  BY <1>7, <1>8

LEMMA CloseKernel ==
  ASSUME KernelType, NEW t, NEW f, Close(t, f), UNCHANGED <<names, content>>
  PROVE  KernelType'
BY DEF KernelType, Close, NoFd

\* close() takes a descriptor from those who hold it.
LEMMA CloseFacts ==
  ASSUME KernelType, NEW t, NEW f, Close(t, f),
         NEW H2, \A u \in Threads \ {t}, j \in 1..4 : H2[u][j] = Hands[u][j]
  PROVE  Closed(H2, Inodes, Inodes', lost, lost', t, f)
<1>1. \A g \in 1..MaxFds : Inodes'[g] = IF g = f THEN 0 ELSE Inodes[g]
  BY DEF KernelType, Close, IsOpen, NoFd, Inodes
<1>2. Holders(f) \ {t} = HoldersIn(H2, f) \ {t}
  <2>1. ASSUME NEW u \in Threads \ {t}
        PROVE  u \in Holders(f) <=> \E j \in 1..4 : H2[u][j] = f
    <3>1. /\ H2[u][1] = thr[u].h[1] /\ H2[u][2] = thr[u].h[2]
          /\ H2[u][3] = thr[u].src /\ H2[u][4] = thr[u].dst
      BY HandsOf
    <3>2. (\E j \in 1..4 : H2[u][j] = f)
            <=> H2[u][1] = f \/ H2[u][2] = f \/ H2[u][3] = f \/ H2[u][4] = f
      OBVIOUS
    <3> QED
      BY <3>1, <3>2 DEF Holders
  <2> QED
    BY <2>1 DEF Holders, HoldersIn
<1>3. IsOpen(f) <=> f \in 1..MaxFds /\ Inodes[f] /= 0
  BY DEF IsOpen, Inodes
<1> QED
  BY <1>1, <1>2, <1>3 DEF Close, Closed

\* A thread closes what was in a place, which it clears.
LEMMA ClosesPlace ==
  ASSUME OwnInv, KernelType, NEW t \in Threads, NEW i \in 1..4, NEW f, f = Hands[t][i],
         Takes(Hands, Hands', t, i, 0), MayKeep(Agains, Agains', Hands, t, i), Close(t, f)
  PROVE  OwnInv'
<1>1. PICK H, A, I, L : H = Hands /\ A = Agains /\ I = Inodes /\ L = lost
  OBVIOUS
<1>2. PICK H2, A2, I2, L2 : H2 = Hands' /\ A2 = Agains' /\ I2 = Inodes' /\ L2 = lost'
  OBVIOUS
<1>3. Own(H, A, I, L) /\ Takes(H, H2, t, i, 0) /\ MayKeep(A, A2, H, t, i)
  BY <1>1, <1>2 DEF OwnInv
<1>4. Own(H2, A2, I, L)
  BY <1>3, OwnDrops
<1>5. f \in Fd /\ f /= 1
  BY <1>1, <1>3 DEF Own, OwnType
<1>6. t \notin L => \A j \in 1..4 : H2[t][j] = f => f = 0
  BY <1>1, <1>3 DEF Own, Takes
<1>7. \A u \in Threads \ {t}, j \in 1..4 : H2[u][j] = Hands[u][j]
  BY <1>1, <1>3 DEF Takes
<1>8. Closed(H2, I, I2, L, L2, t, f)
  BY <1>1, <1>2, <1>7, CloseFacts
<1>9. Own(H2, A2, I2, L2)
  BY <1>4, <1>5, <1>6, <1>8, OwnCloses
<1> QED
  BY <1>2, <1>9 DEF OwnInv

LEMMA CloseFileHandleStep ==
  ASSUME FilesInv, NEW t \in Threads, CloseFileHandle(t)
  PROVE  FilesInv'
<1>1. ThreadsType /\ KernelType /\ AgainInv /\ OwnInv
  BY DEF FilesInv
<1>2. PICK s : s = Call(t).slot
  OBVIOUS
<1>3. s \in 1..2
  BY <1>1, <1>2, CallFacts DEF CloseFileHandle, At
<1>4. Close(t, Handle(t, s)) /\ UNCHANGED <<names, content, program>>
  BY <1>2 DEF CloseFileHandle
<1>5. thr' = [thr EXCEPT ![t] = [Returned(@, TRUE) EXCEPT !.h[s] = 0]]
  BY <1>2 DEF CloseFileHandle
<1>6. ThreadsType' /\ AgainInv'
  <2>1. thr[t].again = 0
    BY <1>1 DEF AgainInv, CloseFileHandle, At
  <2> QED
    BY <1>1, <1>3, <1>4, <1>5, <2>1 DEF ThreadsType, AgainInv, Idle, Returned
<1>7. /\ \A u \in Threads : u /= t => thr'[u] = thr[u]
      /\ thr'[t].h = [thr[t].h EXCEPT ![s] = 0]
      /\ thr'[t].src = thr[t].src /\ thr'[t].dst = thr[t].dst /\ thr'[t].again = thr[t].again
  BY <1>1, <1>5 DEF ThreadsType, Idle, Returned
<1>8. Takes(Hands, Hands', t, s, 0)
  BY <1>1, <1>3, <1>7 DEF Takes, Hands, Held, ThreadsType
<1>9. MayKeep(Agains, Agains', Hands, t, s)
  BY <1>7 DEF MayKeep, Agains
<1>10. Handle(t, s) = Hands[t][s]
  BY <1>3, HandsOf DEF Handle
<1>11. OwnInv'
  BY <1>1, <1>3, <1>4, <1>8, <1>9, <1>10, ClosesPlace
<1> QED
  BY <1>1, <1>4, <1>6, <1>11, CloseKernel DEF FilesInv

LEMMA CloseSourceStep ==
  ASSUME FilesInv, NEW t \in Threads, CloseSource(t)
  PROVE  FilesInv'
<1>1. ThreadsType /\ KernelType /\ AgainInv /\ OwnInv
  BY DEF FilesInv
<1>2. Close(t, thr[t].src) /\ UNCHANGED <<names, content, program>>
  BY DEF CloseSource
<1>3. thr' = [thr EXCEPT ![t].again = thr[t].src, ![t].src = 0, ![t].pc = "closeDestination"]
  BY DEF CloseSource
<1>4. /\ DOMAIN thr' = Threads
      /\ \A u \in Threads : u /= t => thr'[u] = thr[u]
      /\ DOMAIN thr'[t] = DOMAIN thr[t] /\ thr'[t].ino = thr[t].ino /\ thr'[t].ip = thr[t].ip
      /\ thr'[t].h = thr[t].h /\ thr'[t].src = 0 /\ thr'[t].dst = thr[t].dst
      /\ thr'[t].again = thr[t].src /\ thr'[t].pc = "closeDestination"
  BY <1>1, <1>3 DEF ThreadsType, Idle
<1>5. ThreadsType' /\ AgainInv'
  BY <1>1, <1>2, <1>4 DEF ThreadsType, AgainInv
<1>6. Takes(Hands, Hands', t, 3, 0)
  BY <1>4 DEF Takes, Hands, Held
<1>7. MayKeep(Agains, Agains', Hands, t, 3)
  BY <1>4 DEF MayKeep, Agains, Hands, Held
<1>8. thr[t].src = Hands[t][3]
  BY HandsOf
<1>9. OwnInv'
  BY <1>1, <1>2, <1>6, <1>7, <1>8, ClosesPlace
<1> QED
  BY <1>1, <1>2, <1>5, <1>9, CloseKernel DEF FilesInv

LEMMA CloseDestinationStep ==
  ASSUME FilesInv, NEW t \in Threads, CloseDestination(t)
  PROVE  FilesInv'
<1>1. ThreadsType /\ KernelType /\ AgainInv /\ OwnInv
  BY DEF FilesInv
<1>2. Close(t, thr[t].dst) /\ UNCHANGED <<names, content, program>>
  BY DEF CloseDestination, SecondClosed
<1>3. PICK result : thr' = [thr EXCEPT ![t].dst = 0, ![t].pc = "closeAgain", ![t].result = result]
  BY DEF CloseDestination
<1>4. /\ DOMAIN thr' = Threads
      /\ \A u \in Threads : u /= t => thr'[u] = thr[u]
      /\ DOMAIN thr'[t] = DOMAIN thr[t] /\ thr'[t].ino = thr[t].ino /\ thr'[t].ip = thr[t].ip
      /\ thr'[t].h = thr[t].h /\ thr'[t].src = thr[t].src /\ thr'[t].dst = 0
      /\ thr'[t].again = thr[t].again /\ thr'[t].pc = "closeAgain"
  BY <1>1, <1>3 DEF ThreadsType, Idle
<1>5. ThreadsType' /\ AgainInv'
  BY <1>1, <1>2, <1>4 DEF ThreadsType, AgainInv
<1>6. Takes(Hands, Hands', t, 4, 0)
  BY <1>4 DEF Takes, Hands, Held
<1>7. MayKeep(Agains, Agains', Hands, t, 4)
  BY <1>4 DEF MayKeep, Agains
<1>8. thr[t].dst = Hands[t][4]
  BY HandsOf
<1>9. OwnInv'
  BY <1>1, <1>2, <1>6, <1>7, <1>8, ClosesPlace
<1> QED
  BY <1>1, <1>2, <1>5, <1>9, CloseKernel DEF FilesInv

LEMMA CloseAgainStep ==
  ASSUME FilesInv, NEW t \in Threads, CloseAgain(t)
  PROVE  FilesInv'
<1>1. ThreadsType /\ KernelType /\ AgainInv /\ OwnInv
  BY DEF FilesInv
<1>2. Close(t, thr[t].again) /\ UNCHANGED <<names, content, program>>
  BY DEF CloseAgain
<1>3. PICK result : thr' = [thr EXCEPT ![t] = [Returned(@, result) EXCEPT !.again = 0]]
  BY DEF CloseAgain
<1>4. /\ DOMAIN thr' = Threads
      /\ \A u \in Threads : u /= t => thr'[u] = thr[u]
      /\ DOMAIN thr'[t] = DOMAIN thr[t] /\ thr'[t].ino = thr[t].ino
      /\ thr'[t].ip \in Nat \ {0}
      /\ thr'[t].h = thr[t].h /\ thr'[t].src = thr[t].src /\ thr'[t].dst = thr[t].dst
      /\ thr'[t].again = 0
  BY <1>1, <1>3 DEF ThreadsType, Idle, Returned
<1>5. ThreadsType' /\ AgainInv'
  BY <1>1, <1>2, <1>4 DEF ThreadsType, AgainInv
<1>6. PICK H, A, I, L : H = Hands /\ A = Agains /\ I = Inodes /\ L = lost
  OBVIOUS
<1>7. PICK A2, I2, L2, f : A2 = Agains' /\ I2 = Inodes' /\ L2 = lost' /\ f = thr[t].again
  OBVIOUS
<1>8. Hands' = H
  BY <1>4, <1>6 DEF Hands, Held
<1>9. Own(H, A, I, L) /\ A[t] = f
  BY <1>1, <1>6, <1>7, HandsOf DEF OwnInv
<1>10. Closed(H, I, I2, L, L2, t, f)
  BY <1>1, <1>2, <1>6, <1>7, CloseFacts
<1>11. f \in Fd /\ f /= 1 /\ (t \notin L => \A j \in 1..4 : H[t][j] = f => f = 0)
  BY <1>9 DEF Own, OwnType
<1>12. Own(H, A, I2, L2)
  BY <1>9, <1>10, <1>11, OwnCloses
<1>13. \A u \in Threads : A2[u] \in {A[u], 0}
  BY <1>4, <1>6, <1>7 DEF Agains
<1>14. Own(H, A2, I2, L2)
  BY <1>12, <1>13, OwnForgets
<1> QED
  BY <1>1, <1>2, <1>5, <1>7, <1>8, <1>14, CloseKernel DEF FilesInv, OwnInv

-------------------------------------------------------------------------------

LEMMA FilesInit == Init => FilesInv
<1> SUFFICES ASSUME Init PROVE FilesInv
  OBVIOUS
<1>1. MaxFds \in Nat \ {0}
  BY FilesAssumption
<1>2. thr = [t \in Threads |-> IF t = Main THEN [Idle EXCEPT !.state = "on"] ELSE Idle]
  BY DEF Init
<1>3. \A u \in Threads :
        /\ DOMAIN thr[u] = DOMAIN Idle /\ thr[u].h = <<0, 0>> /\ thr[u].ino = <<0, 0>>
        /\ thr[u].ip = 1 /\ thr[u].src = 0 /\ thr[u].dst = 0 /\ thr[u].again = 0
  BY <1>2 DEF Idle
<1>4. ThreadsType /\ AgainInv
  BY <1>2, <1>3 DEF Init, ThreadsType, AgainInv
<1>5. fds = [f \in 1..MaxFds |-> IF f = 1 THEN [NoFd EXCEPT !.ino = 1] ELSE NoFd]
  BY DEF Init
<1>6. DOMAIN fds = 1..MaxFds /\ \A f \in 1..MaxFds : DOMAIN fds[f] = {"ino", "pos"}
  BY <1>5 DEF NoFd
<1>7. fds[1].ino = 1
  BY <1>1, <1>5 DEF NoFd
<1>8. Sequence(content)
  <2>1. PICK n : n = Len(Paths)
    OBVIOUS
  <2>2. n \in Nat /\ DOMAIN Paths = 1..n
    BY <2>1, FilesAssumption, LenProperties
  <2>3. DOMAIN content = 1..n /\ content = [k \in 1..n |-> content[k]]
    BY <2>2 DEF Init
  <2> QED
    BY <2>2, <2>3 DEF Sequence
<1>9. KernelType
  BY <1>6, <1>8 DEF KernelType, Init
<1>10. PICK H, A, I : H = Hands /\ A = Agains /\ I = Inodes
  OBVIOUS
<1>11. \A u \in Threads : H[u] = <<0, 0, 0, 0>> /\ A[u] = 0
  BY <1>3, <1>10 DEF Hands, Held, Agains
<1>12. I[1] = 1
  BY <1>1, <1>7, <1>10 DEF Inodes
<1>13. lost = {}
  BY DEF Init
<1>14. \A u \in Threads, i \in 1..4 : H[u][i] = 0
  BY <1>11
<1>15. 0 \in Fd
  BY <1>1 DEF Fd
<1>16. Own(H, A, I, lost)
  BY <1>11, <1>12, <1>13, <1>14, <1>15 DEF Own, OwnType
<1> QED
  BY <1>4, <1>9, <1>10, <1>16 DEF FilesInv, OwnInv

LEMMA FilesStep == FilesInv /\ [Next]_fileVars => FilesInv'
<1> SUFFICES ASSUME FilesInv, [Next]_fileVars PROVE FilesInv'
  OBVIOUS
<1>1. CASE UNCHANGED fileVars
  BY <1>1 DEF fileVars, FilesInv, ThreadsType, KernelType, AgainInv, OwnInv, Hands, Held,
              Agains, Inodes
<1>2. ASSUME NEW t \in Threads, FileStep(t) \/ ThreadStep(t) \/ CompleteRead(t)
      PROVE  FilesInv'
  <2>1. CASE KeepsHands(t)
    <3>1. ThreadsType' /\ AgainInv' /\ HandsStay
      BY <2>1, KeepStep DEF FilesInv
    <3>2. KernelType' /\ InodesStay
      BY <2>1, KeepKernel DEF FilesInv
    <3> QED
      BY <3>1, <3>2, KeepOwn DEF FilesInv
  <2>2. CASE OpenFile(t) \/ ForceOpen(t) \/ OpenSource(t) \/ CreateDestination(t)
    BY <2>2, OpenFileStep, ForceOpenStep, OpenSourceStep, CreateDestinationStep
  <2>3. CASE CloseFileHandle(t) \/ CloseSource(t) \/ CloseDestination(t) \/ CloseAgain(t)
    BY <2>3, CloseFileHandleStep, CloseSourceStep, CloseDestinationStep, CloseAgainStep
  <2> QED
    BY <1>2, <2>1, <2>2, <2>3 DEF FileStep, ThreadStep, KeepsHands
<1> QED
  BY <1>1, <1>2 DEF Next, AllOver

(***************************************************************************)
(* Who holds descriptors that nobody has closed holds them alone, for any  *)
(* threads and programs: what open() gives is free, and a thread closes    *)
(* what it holds, but for the second time that DuplicateFile() closes its  *)
(* source (tinybase-platform-linux.c:396).                                *)
(***************************************************************************)
THEOREM DescriptorsOwned == Spec => []OwnInv
<1>1. FilesInv => OwnInv
  BY DEF FilesInv
<1> QED
  BY <1>1, FilesInit, FilesStep, PTL DEF Spec

\* A thread that has lost nothing, and closes what it has in a place, takes it from
\* nobody who has not lost anything before.
LEMMA TakenFromNobody ==
  ASSUME OwnInv, NEW u \in Threads \ lost, NEW i \in 1..4, Close(u, Hands[u][i]),
         NEW t \in Threads \ lost
  PROVE  t \notin lost'
<1>1. PICK f : f = Hands[u][i]
  OBVIOUS
<1>2. SUFFICES ASSUME t \in Holders(f) \ {u}, IsOpen(f)
               PROVE  FALSE
  BY <1>1 DEF Close
<1>3. PICK j \in 1..4 : Hands[t][j] = f
  BY <1>2, HandsOf DEF Holders
<1>4. f /= 0
  BY <1>2, FilesAssumption DEF IsOpen
<1>5. PICK H : H = Hands
  OBVIOUS
<1>6. H[u][i] /= 0 /\ H[u][i] = H[t][j]
  BY <1>1, <1>3, <1>4, <1>5
<1>7. u = t
  BY <1>5, <1>6 DEF OwnInv, Own
<1> QED
  BY <1>2, <1>7

LEMMA LostStep ==
  ASSUME FilesInv, Next, NEW t \in Threads \ lost, t \in lost'
  PROVE  \E u \in Threads \ {t} : At(u, "copy", "closeAgain") \/ u \in lost
<1>1. PICK u \in Threads : FileStep(u) \/ ThreadStep(u) \/ CompleteRead(u)
  BY DEF Next, AllOver, fileVars
<1>2. CloseFileHandle(u) \/ CloseSource(u) \/ CloseDestination(u) \/ CloseAgain(u)
  <2>1. ~KeepsHands(u)
    BY KeepStep DEF FilesInv, HandsStay
  <2>2. ~(OpenFile(u) \/ ForceOpen(u) \/ OpenSource(u) \/ CreateDestination(u))
    BY DEF OpenFile, ForceOpen, OpenSource, CreateDestination
  <2> QED
    BY <1>1, <2>1, <2>2 DEF FileStep, ThreadStep, KeepsHands
<1>3. u /= t
  BY <1>2 DEF CloseFileHandle, CloseSource, CloseDestination, CloseAgain, Close
<1>4. CASE u \in lost
  BY <1>3, <1>4
<1>5. CASE CloseAgain(u)
  BY <1>3, <1>5 DEF CloseAgain
<1>6. CASE u \notin lost /\ ~CloseAgain(u)
  <2>1. PICK i \in 1..4 : Close(u, Hands[u][i])
    <3>1. CASE CloseFileHandle(u)
      <4>1. Call(u).slot \in 1..2
        BY <3>1, CallFacts DEF CloseFileHandle, At, FilesInv
      <4> QED
        BY <3>1, <4>1, HandsOf DEF CloseFileHandle, Handle
    <3>2. CASE CloseSource(u)
      BY <3>2, HandsOf DEF CloseSource
    <3>3. CASE CloseDestination(u)
      BY <3>3, HandsOf DEF CloseDestination, SecondClosed
    <3> QED
      BY <1>2, <1>6, <3>1, <3>2, <3>3
  <2>2. t \notin lost'
    BY <1>6, <2>1, TakenFromNobody DEF FilesInv
  <2> QED
    BY <2>2
<1> QED
  BY <1>4, <1>5, <1>6

(***************************************************************************)
(* A descriptor of a thread is closed by another one only where            *)
(* DuplicateFile() closes its source for the second time, or by a thread   *)
(* that has lost one before.                                               *)
(***************************************************************************)
THEOREM OnlyCopyTakes == Spec => LostOnlyByCopy
<1>1. FilesInv /\ [Next]_fileVars
        => [\A t \in Threads : t \in lost' /\ t \notin lost
              => \E u \in Threads \ {t} : At(u, "copy", "closeAgain") \/ u \in lost]_fileVars
  BY LostStep
<1> QED
  BY <1>1, FilesInit, FilesStep, PTL DEF Spec, LostOnlyByCopy

-------------------------------------------------------------------------------

(***************************************************************************)
(* How a thread goes on.                                                   *)
(***************************************************************************)
KeepsBuffer(u) == /\ thr'[u].buf = thr[u].buf /\ thr'[u].cur = thr[u].cur
                  /\ thr'[u].due = thr[u].due /\ thr'[u].aio = thr[u].aio

\* The others stay where they are, with their buffers.
OthersStay(t) ==
  \A u \in Threads \ {t} : /\ thr'[u].ip = thr[u].ip /\ thr'[u].pc = thr[u].pc
                           /\ KeepsBuffer(u) /\ thr'[u].size = thr[u].size

\* t goes on in its call, or to the next one.
GoesOn(t) ==
  \/ thr'[t].ip = thr[t].ip /\ thr'[t].pc \notin {"seek", "read"}
  \/ thr'[t].ip = thr[t].ip /\ thr'[t].pc = "seek" /\ CheckSize(t)
  \/ thr'[t].ip = thr[t].ip /\ thr'[t].pc = "read" /\ SeekToRead(t)
  \/ thr'[t].ip = thr[t].ip + 1 /\ thr'[t].pc = "call" /\ thr[t].ip =< Len(program[t])

\* The mutex changes only as it is locked and unlocked, a buffer as it is read to.
MutexStays(t) == \/ LockOnMutex(t) \/ UnlockMutex(t)
                 \/ UNCHANGED mutex /\ (thr'[t].ip /= thr[t].ip => Call(t).fn \notin {"lock", "unlock"})

BufferStays(t) ==
  /\ KeepsBuffer(t) \/ ReadBytes(t) \/ ReadFileAsync(t) \/ WaitOnIoCompletion(t)
  /\ thr'[t].size = thr[t].size \/ SizeOfSource(t)

LEMMA ThreadFrame ==
  ASSUME ThreadsType, NEW t \in Threads, FileStep(t) \/ ThreadStep(t)
  PROVE  OthersStay(t) /\ GoesOn(t) /\ MutexStays(t) /\ BufferStays(t)
<1> USE DEF ThreadsType, Idle, Returned
<1>1. CASE OpenFile(t)
  <2>1. Call(t).fn = "open" /\ thr[t].ip =< Len(program[t]) /\ UNCHANGED mutex
    BY <1>1 DEF OpenFile, At
  <2>2. /\ \A u \in Threads \ {t} : thr'[u] = thr[u]
        /\ \/ thr'[t].ip = thr[t].ip /\ thr'[t].pc = "force"
           \/ thr'[t].ip = thr[t].ip + 1 /\ thr'[t].pc = "call"
        /\ KeepsBuffer(t) /\ thr'[t].size = thr[t].size
    <3>1. CASE thr' = [thr EXCEPT ![t].pc = "force"]
      BY <3>1 DEF KeepsBuffer
    <3>2. CASE \E f, ino, ok, s : thr' = [thr EXCEPT ![t] = [Returned(@, ok) EXCEPT !.h[s] = f, !.ino[s] = ino]]
      <4>1. PICK f, ino, ok, s : thr' = [thr EXCEPT ![t] = [Returned(@, ok) EXCEPT !.h[s] = f, !.ino[s] = ino]]
        BY <3>2
      <4> QED
        BY <4>1 DEF KeepsBuffer
    <3> QED
      BY <1>1, <3>1, <3>2 DEF OpenFile
  <2> QED
    BY <1>1, <2>1, <2>2 DEF OthersStay, GoesOn, MutexStays, BufferStays, KeepsBuffer
<1>2. CASE ForceOpen(t)
  <2>1. Call(t).fn = "open" /\ thr[t].ip =< Len(program[t]) /\ UNCHANGED mutex
    BY <1>2 DEF ForceOpen, At
  <2>2. /\ \A u \in Threads \ {t} : thr'[u] = thr[u]
        /\ thr'[t].ip = thr[t].ip + 1 /\ thr'[t].pc = "call"
        /\ KeepsBuffer(t) /\ thr'[t].size = thr[t].size
    <3>1. PICK f, ino, ok, s : thr' = [thr EXCEPT ![t] = [Returned(@, ok) EXCEPT !.h[s] = f, !.ino[s] = ino]]
      BY <1>2 DEF ForceOpen
    <3> QED
      BY <3>1 DEF KeepsBuffer
  <2> QED
    BY <1>2, <2>1, <2>2 DEF OthersStay, GoesOn, MutexStays, BufferStays, KeepsBuffer
<1>3. CASE CloseFileHandle(t)
  <2>1. Call(t).fn = "close" /\ thr[t].ip =< Len(program[t]) /\ UNCHANGED mutex
    BY <1>3 DEF CloseFileHandle, At
  <2>2. /\ \A u \in Threads \ {t} : thr'[u] = thr[u]
        /\ thr'[t].ip = thr[t].ip + 1 /\ thr'[t].pc = "call"
        /\ KeepsBuffer(t) /\ thr'[t].size = thr[t].size
    BY <1>3 DEF CloseFileHandle, KeepsBuffer
  <2> QED
    BY <1>3, <2>1, <2>2 DEF OthersStay, GoesOn, MutexStays, BufferStays, KeepsBuffer
<1>4. CASE RemoveFile(t)
  <2>1. Call(t).fn = "remove" /\ thr[t].ip =< Len(program[t]) /\ UNCHANGED mutex
    BY <1>4 DEF RemoveFile, At
  <2>2. /\ \A u \in Threads \ {t} : thr'[u] = thr[u]
        /\ thr'[t].ip = thr[t].ip + 1 /\ thr'[t].pc = "call"
        /\ KeepsBuffer(t) /\ thr'[t].size = thr[t].size
    BY <1>4 DEF RemoveFile, KeepsBuffer
  <2> QED
    BY <1>4, <2>1, <2>2 DEF OthersStay, GoesOn, MutexStays, BufferStays, KeepsBuffer
<1>5. CASE CheckSize(t)
  <2>1. Call(t).fn = "read" /\ thr[t].ip =< Len(program[t]) /\ UNCHANGED mutex
    BY <1>5 DEF CheckSize, At
  <2>2. /\ \A u \in Threads \ {t} : thr'[u] = thr[u]
        /\ \/ thr'[t].ip = thr[t].ip /\ thr'[t].pc = "seek"
           \/ thr'[t].ip = thr[t].ip + 1 /\ thr'[t].pc = "call"
        /\ KeepsBuffer(t) /\ thr'[t].size = thr[t].size
    BY <1>5 DEF CheckSize, KeepsBuffer
  <2> QED
    BY <1>5, <2>1, <2>2 DEF OthersStay, GoesOn, MutexStays, BufferStays, KeepsBuffer
<1>6. CASE SeekToRead(t)
  <2>1. Call(t).fn = "read" /\ thr[t].ip =< Len(program[t]) /\ UNCHANGED mutex
    BY <1>6 DEF SeekToRead, At
  <2>2. /\ \A u \in Threads \ {t} : thr'[u] = thr[u]
        /\ thr'[t].ip = thr[t].ip /\ thr'[t].pc = "read"
        /\ KeepsBuffer(t) /\ thr'[t].size = thr[t].size
    BY <1>6 DEF SeekToRead, KeepsBuffer
  <2> QED
    BY <1>6, <2>1, <2>2 DEF OthersStay, GoesOn, MutexStays, BufferStays, KeepsBuffer
<1>7. CASE ReadBytes(t)
  <2>1. Call(t).fn = "read" /\ thr[t].ip =< Len(program[t]) /\ UNCHANGED mutex
    BY <1>7 DEF ReadBytes, At
  <2>2. /\ \A u \in Threads \ {t} : thr'[u] = thr[u]
        /\ thr'[t].ip = thr[t].ip + 1 /\ thr'[t].pc = "call"
        /\ thr'[t].size = thr[t].size
    <3>1. CASE \E b : thr' = [thr EXCEPT ![t] = Returned([thr[t] EXCEPT !.buf = b], FALSE)]
      <4>1. PICK b : thr' = [thr EXCEPT ![t] = Returned([thr[t] EXCEPT !.buf = b], FALSE)]
        BY <3>1
      <4> QED
        BY <4>1 DEF KeepsBuffer
    <3>2. CASE \E b, c, d : thr' = [thr EXCEPT ![t] = [Returned([thr[t] EXCEPT !.buf = b], TRUE) EXCEPT !.cur = c, !.due = d]]
      <4>1. PICK b, c, d : thr' = [thr EXCEPT ![t] = [Returned([thr[t] EXCEPT !.buf = b], TRUE) EXCEPT !.cur = c, !.due = d]]
        BY <3>2
      <4> QED
        BY <4>1 DEF KeepsBuffer
    <3> QED
      BY <1>7, <3>1, <3>2 DEF ReadBytes
  <2> QED
    BY <1>7, <2>1, <2>2 DEF OthersStay, GoesOn, MutexStays, BufferStays, KeepsBuffer
<1>8. CASE ReadFileAsync(t)
  <2>1. Call(t).fn = "aread" /\ thr[t].ip =< Len(program[t]) /\ UNCHANGED mutex
    BY <1>8 DEF ReadFileAsync, At
  <2>2. /\ \A u \in Threads \ {t} : thr'[u] = thr[u]
        /\ thr'[t].ip = thr[t].ip + 1 /\ thr'[t].pc = "call"
        /\ thr'[t].size = thr[t].size
    BY <1>8 DEF ReadFileAsync, KeepsBuffer
  <2> QED
    BY <1>8, <2>1, <2>2 DEF OthersStay, GoesOn, MutexStays, BufferStays, KeepsBuffer
<1>9. CASE WaitOnIoCompletion(t)
  <2>1. Call(t).fn = "await" /\ thr[t].ip =< Len(program[t]) /\ UNCHANGED mutex
    BY <1>9 DEF WaitOnIoCompletion, At
  <2>2. /\ \A u \in Threads \ {t} : thr'[u] = thr[u]
        /\ \/ thr' = thr
           \/ thr'[t].ip = thr[t].ip + 1 /\ thr'[t].pc = "call"
        /\ thr'[t].size = thr[t].size
    BY <1>9 DEF WaitOnIoCompletion, KeepsBuffer
  <2> QED
    BY <1>9, <2>1, <2>2 DEF OthersStay, GoesOn, MutexStays, BufferStays, KeepsBuffer, WaitOnIoCompletion, At
<1>10. CASE SeekToWrite(t)
  <2>1. Call(t).fn = "write" /\ thr[t].ip =< Len(program[t]) /\ UNCHANGED mutex
    BY <1>10 DEF SeekToWrite, At
  <2>2. /\ \A u \in Threads \ {t} : thr'[u] = thr[u]
        /\ thr'[t].ip = thr[t].ip /\ thr'[t].pc = "write"
        /\ KeepsBuffer(t) /\ thr'[t].size = thr[t].size
    BY <1>10 DEF SeekToWrite, KeepsBuffer
  <2> QED
    BY <1>10, <2>1, <2>2 DEF OthersStay, GoesOn, MutexStays, BufferStays, KeepsBuffer
<1>11. CASE WriteBytes(t)
  <2>1. Call(t).fn = "write" /\ thr[t].ip =< Len(program[t]) /\ UNCHANGED mutex
    BY <1>11 DEF WriteBytes, At
  <2>2. /\ \A u \in Threads \ {t} : thr'[u] = thr[u]
        /\ thr'[t].ip = thr[t].ip + 1 /\ thr'[t].pc = "call"
        /\ KeepsBuffer(t) /\ thr'[t].size = thr[t].size
    <3>1. PICK ok : thr' = [thr EXCEPT ![t] = Returned(@, ok)]
      BY <1>11 DEF WriteBytes
    <3> QED
      BY <3>1 DEF KeepsBuffer
  <2> QED
    BY <1>11, <2>1, <2>2 DEF OthersStay, GoesOn, MutexStays, BufferStays, KeepsBuffer
<1>12. CASE CompareSizes(t)
  <2>1. Call(t).fn = "equal" /\ thr[t].ip =< Len(program[t]) /\ UNCHANGED mutex
    BY <1>12 DEF CompareSizes, At
  <2>2. /\ \A u \in Threads \ {t} : thr'[u] = thr[u]
        /\ \/ thr'[t].ip = thr[t].ip /\ thr'[t].pc = "readA"
           \/ thr'[t].ip = thr[t].ip + 1 /\ thr'[t].pc = "call"
        /\ KeepsBuffer(t) /\ thr'[t].size = thr[t].size
    BY <1>12 DEF CompareSizes, KeepsBuffer
  <2> QED
    BY <1>12, <2>1, <2>2 DEF OthersStay, GoesOn, MutexStays, BufferStays, KeepsBuffer
<1>13. CASE ReadFileA(t)
  <2>1. Call(t).fn = "equal" /\ thr[t].ip =< Len(program[t]) /\ UNCHANGED mutex
    BY <1>13 DEF ReadFileA, At
  <2>2. /\ \A u \in Threads \ {t} : thr'[u] = thr[u]
        /\ thr'[t].ip = thr[t].ip /\ thr'[t].pc = "readB"
        /\ KeepsBuffer(t) /\ thr'[t].size = thr[t].size
    BY <1>13 DEF ReadFileA, ReadEntireFile, KeepsBuffer
  <2> QED
    BY <1>13, <2>1, <2>2 DEF OthersStay, GoesOn, MutexStays, BufferStays, KeepsBuffer
<1>14. CASE ReadFileB(t)
  <2>1. Call(t).fn = "equal" /\ thr[t].ip =< Len(program[t]) /\ UNCHANGED mutex
    BY <1>14 DEF ReadFileB, At
  <2>2. /\ \A u \in Threads \ {t} : thr'[u] = thr[u]
        /\ thr'[t].ip = thr[t].ip /\ thr'[t].pc = "compare"
        /\ KeepsBuffer(t) /\ thr'[t].size = thr[t].size
    BY <1>14 DEF ReadFileB, ReadEntireFile, KeepsBuffer
  <2> QED
    BY <1>14, <2>1, <2>2 DEF OthersStay, GoesOn, MutexStays, BufferStays, KeepsBuffer
<1>15. CASE CompareFiles(t)
  <2>1. Call(t).fn = "equal" /\ thr[t].ip =< Len(program[t]) /\ UNCHANGED mutex
    BY <1>15 DEF CompareFiles, At
  <2>2. /\ \A u \in Threads \ {t} : thr'[u] = thr[u]
        /\ thr'[t].ip = thr[t].ip + 1 /\ thr'[t].pc = "call"
        /\ KeepsBuffer(t) /\ thr'[t].size = thr[t].size
    BY <1>15 DEF CompareFiles, KeepsBuffer
  <2> QED
    BY <1>15, <2>1, <2>2 DEF OthersStay, GoesOn, MutexStays, BufferStays, KeepsBuffer
<1>16. CASE OpenSource(t)
  <2>1. Call(t).fn = "copy" /\ thr[t].ip =< Len(program[t]) /\ UNCHANGED mutex
    BY <1>16 DEF OpenSource, At
  <2>2. /\ \A u \in Threads \ {t} : thr'[u] = thr[u]
        /\ \/ thr'[t].ip = thr[t].ip /\ thr'[t].pc = "create"
           \/ thr'[t].ip = thr[t].ip + 1 /\ thr'[t].pc = "call"
        /\ KeepsBuffer(t) /\ thr'[t].size = thr[t].size
    BY <1>16 DEF OpenSource, KeepsBuffer
  <2> QED
    BY <1>16, <2>1, <2>2 DEF OthersStay, GoesOn, MutexStays, BufferStays, KeepsBuffer
<1>17. CASE CreateDestination(t)
  <2>1. Call(t).fn = "copy" /\ thr[t].ip =< Len(program[t]) /\ UNCHANGED mutex
    BY <1>17 DEF CreateDestination, At
  <2>2. /\ \A u \in Threads \ {t} : thr'[u] = thr[u]
        /\ \/ thr'[t].ip = thr[t].ip /\ thr'[t].pc = "closeAgain"
           \/ thr'[t].ip = thr[t].ip /\ thr'[t].pc = "size"
        /\ KeepsBuffer(t) /\ thr'[t].size = thr[t].size
    BY <1>17 DEF CreateDestination, KeepsBuffer
  <2> QED
    BY <1>17, <2>1, <2>2 DEF OthersStay, GoesOn, MutexStays, BufferStays, KeepsBuffer
<1>18. CASE SizeOfSource(t)
  <2>1. Call(t).fn = "copy" /\ thr[t].ip =< Len(program[t]) /\ UNCHANGED mutex
    BY <1>18 DEF SizeOfSource, At
  <2>2. /\ \A u \in Threads \ {t} : thr'[u] = thr[u]
        /\ thr'[t].ip = thr[t].ip /\ thr'[t].pc = "copy"
        /\ KeepsBuffer(t)
    <3>1. PICK n : thr' = [thr EXCEPT ![t].size = n, ![t].pc = "copy"]
      BY <1>18 DEF SizeOfSource
    <3> QED
      BY <3>1 DEF KeepsBuffer
  <2> QED
    BY <1>18, <2>1, <2>2 DEF OthersStay, GoesOn, MutexStays, BufferStays, KeepsBuffer
<1>19. CASE CopyBytes(t)
  <2>1. Call(t).fn = "copy" /\ thr[t].ip =< Len(program[t]) /\ UNCHANGED mutex
    BY <1>19 DEF CopyBytes, At
  <2>2. /\ \A u \in Threads \ {t} : thr'[u] = thr[u]
        /\ thr'[t].ip = thr[t].ip /\ thr'[t].pc = "closeSource"
        /\ KeepsBuffer(t) /\ thr'[t].size = thr[t].size
    <3>1. PICK n : thr' = [thr EXCEPT ![t].count = n, ![t].pc = "closeSource"]
      BY <1>19 DEF CopyBytes
    <3> QED
      BY <3>1 DEF KeepsBuffer
  <2> QED
    BY <1>19, <2>1, <2>2 DEF OthersStay, GoesOn, MutexStays, BufferStays, KeepsBuffer
<1>20. CASE CloseSource(t)
  <2>1. Call(t).fn = "copy" /\ thr[t].ip =< Len(program[t]) /\ UNCHANGED mutex
    BY <1>20 DEF CloseSource, At
  <2>2. /\ \A u \in Threads \ {t} : thr'[u] = thr[u]
        /\ thr'[t].ip = thr[t].ip /\ thr'[t].pc = "closeDestination"
        /\ KeepsBuffer(t) /\ thr'[t].size = thr[t].size
    BY <1>20 DEF CloseSource, KeepsBuffer
  <2> QED
    BY <1>20, <2>1, <2>2 DEF OthersStay, GoesOn, MutexStays, BufferStays, KeepsBuffer
<1>21. CASE CloseDestination(t)
  <2>1. Call(t).fn = "copy" /\ thr[t].ip =< Len(program[t]) /\ UNCHANGED mutex
    BY <1>21 DEF CloseDestination, At
  <2>2. /\ \A u \in Threads \ {t} : thr'[u] = thr[u]
        /\ thr'[t].ip = thr[t].ip /\ thr'[t].pc = "closeAgain"
        /\ KeepsBuffer(t) /\ thr'[t].size = thr[t].size
    <3>1. PICK r : thr' = [thr EXCEPT ![t].dst = 0, ![t].pc = "closeAgain", ![t].result = r]
      BY <1>21 DEF CloseDestination
    <3> QED
      BY <3>1 DEF KeepsBuffer
  <2> QED
    BY <1>21, <2>1, <2>2 DEF OthersStay, GoesOn, MutexStays, BufferStays, KeepsBuffer
<1>22. CASE CloseAgain(t)
  <2>1. Call(t).fn = "copy" /\ thr[t].ip =< Len(program[t]) /\ UNCHANGED mutex
    BY <1>22 DEF CloseAgain, At
  <2>2. /\ \A u \in Threads \ {t} : thr'[u] = thr[u]
        /\ thr'[t].ip = thr[t].ip + 1 /\ thr'[t].pc = "call"
        /\ KeepsBuffer(t) /\ thr'[t].size = thr[t].size
    BY <1>22 DEF CloseAgain, KeepsBuffer
  <2> QED
    BY <1>22, <2>1, <2>2 DEF OthersStay, GoesOn, MutexStays, BufferStays, KeepsBuffer
<1>23. CASE LockOnMutex(t)
  <2>1. Call(t).fn = "lock" /\ thr[t].ip =< Len(program[t])
    BY <1>23 DEF LockOnMutex, At
  <2>2. /\ \A u \in Threads \ {t} : thr'[u] = thr[u]
        /\ thr'[t].ip = thr[t].ip + 1 /\ thr'[t].pc = "call"
        /\ KeepsBuffer(t) /\ thr'[t].size = thr[t].size
    BY <1>23 DEF LockOnMutex, KeepsBuffer
  <2> QED
    BY <1>23, <2>1, <2>2 DEF OthersStay, GoesOn, MutexStays, BufferStays, KeepsBuffer
<1>24. CASE UnlockMutex(t)
  <2>1. Call(t).fn = "unlock" /\ thr[t].ip =< Len(program[t])
    BY <1>24 DEF UnlockMutex, At
  <2>2. /\ \A u \in Threads \ {t} : thr'[u] = thr[u]
        /\ thr'[t].ip = thr[t].ip + 1 /\ thr'[t].pc = "call"
        /\ KeepsBuffer(t) /\ thr'[t].size = thr[t].size
    BY <1>24 DEF UnlockMutex, KeepsBuffer
  <2> QED
    BY <1>24, <2>1, <2>2 DEF OthersStay, GoesOn, MutexStays, BufferStays, KeepsBuffer
<1>25. CASE IncreaseSemaphore(t)
  <2>1. Call(t).fn = "post" /\ thr[t].ip =< Len(program[t]) /\ UNCHANGED mutex
    BY <1>25 DEF IncreaseSemaphore, At
  <2>2. /\ \A u \in Threads \ {t} : thr'[u] = thr[u]
        /\ thr'[t].ip = thr[t].ip + 1 /\ thr'[t].pc = "call"
        /\ KeepsBuffer(t) /\ thr'[t].size = thr[t].size
    BY <1>25 DEF IncreaseSemaphore, KeepsBuffer
  <2> QED
    BY <1>25, <2>1, <2>2 DEF OthersStay, GoesOn, MutexStays, BufferStays, KeepsBuffer
<1>26. CASE WaitOnSemaphore(t)
  <2>1. Call(t).fn = "wait" /\ thr[t].ip =< Len(program[t]) /\ UNCHANGED mutex
    BY <1>26 DEF WaitOnSemaphore, At
  <2>2. /\ \A u \in Threads \ {t} : thr'[u] = thr[u]
        /\ thr'[t].ip = thr[t].ip + 1 /\ thr'[t].pc = "call"
        /\ KeepsBuffer(t) /\ thr'[t].size = thr[t].size
    BY <1>26 DEF WaitOnSemaphore, KeepsBuffer
  <2> QED
    BY <1>26, <2>1, <2>2 DEF OthersStay, GoesOn, MutexStays, BufferStays, KeepsBuffer
<1>27. CASE InitThread(t)
  <2>1. Call(t).fn = "start" /\ thr[t].ip =< Len(program[t]) /\ UNCHANGED mutex
    BY <1>27 DEF InitThread, At
  <2>2. Call(t).thread \in Threads
    BY <2>1, CallFacts
  <2>3. PICK v \in Threads :
          thr' = [thr EXCEPT ![t] = Returned(@, TRUE), ![v].state = "on"]
    BY <1>27, <2>2 DEF InitThread
  <2>4. PICK mid : mid = [thr EXCEPT ![t] = Returned(@, TRUE)]
    OBVIOUS
  <2>5. thr' = [mid EXCEPT ![v].state = "on"]
    BY <2>3, <2>4
  <2>6. /\ DOMAIN mid = Threads /\ \A u \in Threads : DOMAIN mid[u] = DOMAIN thr[u]
        /\ \A u \in Threads \ {t} : mid[u] = thr[u]
        /\ mid[t].ip = thr[t].ip + 1 /\ mid[t].pc = "call" /\ mid[t].size = thr[t].size
        /\ mid[t].buf = thr[t].buf /\ mid[t].cur = thr[t].cur /\ mid[t].due = thr[t].due
        /\ mid[t].aio = thr[t].aio
    BY <2>4
  <2>7. \A u \in Threads :
          /\ thr'[u].ip = mid[u].ip /\ thr'[u].pc = mid[u].pc /\ thr'[u].size = mid[u].size
          /\ thr'[u].buf = mid[u].buf /\ thr'[u].cur = mid[u].cur /\ thr'[u].due = mid[u].due
          /\ thr'[u].aio = mid[u].aio
    BY <2>5, <2>6
  <2>8. OthersStay(t)
    BY <2>6, <2>7 DEF OthersStay, KeepsBuffer
  <2>9. GoesOn(t) /\ MutexStays(t) /\ BufferStays(t)
    BY <2>1, <2>6, <2>7 DEF GoesOn, MutexStays, BufferStays, KeepsBuffer
  <2> QED
    BY <2>8, <2>9
<1>28. CASE WaitOnThread(t)
  <2>1. Call(t).fn = "join" /\ thr[t].ip =< Len(program[t]) /\ UNCHANGED mutex
    BY <1>28 DEF WaitOnThread, At
  <2>2. Call(t).thread \in Threads
    BY <2>1, CallFacts
  <2>3. PICK v \in Threads :
          thr' = [thr EXCEPT ![t] = Returned(@, TRUE), ![v].state = "joined"]
    BY <1>28, <2>2 DEF WaitOnThread
  <2>4. PICK mid : mid = [thr EXCEPT ![t] = Returned(@, TRUE)]
    OBVIOUS
  <2>5. thr' = [mid EXCEPT ![v].state = "joined"]
    BY <2>3, <2>4
  <2>6. /\ DOMAIN mid = Threads /\ \A u \in Threads : DOMAIN mid[u] = DOMAIN thr[u]
        /\ \A u \in Threads \ {t} : mid[u] = thr[u]
        /\ mid[t].ip = thr[t].ip + 1 /\ mid[t].pc = "call" /\ mid[t].size = thr[t].size
        /\ mid[t].buf = thr[t].buf /\ mid[t].cur = thr[t].cur /\ mid[t].due = thr[t].due
        /\ mid[t].aio = thr[t].aio
    BY <2>4
  <2>7. \A u \in Threads :
          /\ thr'[u].ip = mid[u].ip /\ thr'[u].pc = mid[u].pc /\ thr'[u].size = mid[u].size
          /\ thr'[u].buf = mid[u].buf /\ thr'[u].cur = mid[u].cur /\ thr'[u].due = mid[u].due
          /\ thr'[u].aio = mid[u].aio
    BY <2>5, <2>6
  <2>8. OthersStay(t)
    BY <2>6, <2>7 DEF OthersStay, KeepsBuffer
  <2>9. GoesOn(t) /\ MutexStays(t) /\ BufferStays(t)
    BY <2>1, <2>6, <2>7 DEF GoesOn, MutexStays, BufferStays, KeepsBuffer
  <2> QED
    BY <2>8, <2>9
<1> QED
  BY <1>1, <1>2, <1>3, <1>4, <1>5, <1>6, <1>7, <1>8, <1>9, <1>10, <1>11, <1>12, <1>13, <1>14,
     <1>15, <1>16, <1>17, <1>18, <1>19, <1>20, <1>21, <1>22, <1>23, <1>24, <1>25, <1>26, <1>27, <1>28
     DEF FileStep, ThreadStep

LEMMA ProgramStays ==
  ASSUME NEW t \in Threads, FileStep(t) \/ ThreadStep(t)
  PROVE  UNCHANGED program
BY DEF FileStep, ThreadStep, OpenFile, ForceOpen, CloseFileHandle, RemoveFile, CheckSize,
       SeekToRead, ReadBytes, ReadFileAsync, WaitOnIoCompletion, SeekToWrite, WriteBytes,
       CompareSizes, ReadFileA, ReadFileB, CompareFiles, OpenSource, CreateDestination,
       SizeOfSource, CopyBytes, CloseSource, CloseDestination, CloseAgain, LockOnMutex,
       UnlockMutex, IncreaseSemaphore, WaitOnSemaphore, InitThread, WaitOnThread

\* A request that completes concerns the buffer of its thread, and nothing else.
LEMMA RequestFrame ==
  ASSUME ThreadsType, NEW t \in Threads, CompleteRead(t)
  PROVE  /\ UNCHANGED <<names, content, fds, program, mutex, lost>>
         /\ \A u \in Threads : /\ thr'[u].ip = thr[u].ip /\ thr'[u].pc = thr[u].pc
                               /\ thr'[u].size = thr[u].size
                               /\ u /= t => thr'[u] = thr[u]
<1>1. PICK n, b, d :
        thr' = [thr EXCEPT ![t].aio = "done", ![t].bytes = n, ![t].buf = b, ![t].due = d]
  BY DEF CompleteRead
<1>2. UNCHANGED <<names, content, fds, program, mutex, lost>>
  BY DEF CompleteRead, kernelVars
<1> QED
  BY <1>1, <1>2 DEF ThreadsType, Idle

-------------------------------------------------------------------------------

(***************************************************************************)
(* The mutex.                                                              *)
(***************************************************************************)

\* Behind a lock, and before the next unlock: s is a program, i a call of it.
Locked(s, i) ==
  \E j \in 1..i-1 : s[j].fn = "lock" /\ \A k \in j+1..i-1 : s[k].fn \notin {"lock", "unlock"}

\* A program that unlocks only what it locked, and that sets the position of the
\* shared handle only under the mutex.
Guarded(s) ==
  \A i \in 1..Len(s) :
    \/ s[i].fn = "unlock"
    \/ s[i].fn \in {"read", "write"} /\ s[i].slot = 0
    => Locked(s, i)

AllGuarded == \A p \in Programs, t \in Threads : Guarded(p[t])

MutexInv == \A u \in Threads : Locked(program[u], thr[u].ip) => mutex = u

LEMMA LockedOn ==
  ASSUME NEW s, NEW i \in Nat \ {0}
  PROVE  /\ s[i].fn \notin {"lock", "unlock"} /\ Locked(s, i + 1) => Locked(s, i)
         /\ s[i].fn = "unlock" => ~Locked(s, i + 1)
<1>1. ASSUME Locked(s, i + 1)
      PROVE  s[i].fn = "lock" \/ (s[i].fn /= "unlock" /\ Locked(s, i))
  <2>1. PICK j \in 1..i : s[j].fn = "lock" /\ \A k \in j+1..i : s[k].fn \notin {"lock", "unlock"}
    BY <1>1 DEF Locked
  <2>2. CASE j = i
    BY <2>1, <2>2
  <2>3. CASE j /= i
    <3>1. j \in 1..i-1 /\ i \in j+1..i
      BY <2>3
    <3>2. s[i].fn /= "unlock"
      BY <2>1, <3>1
    <3>3. \A k \in j+1..i-1 : s[k].fn \notin {"lock", "unlock"}
      BY <2>1
    <3> QED
      BY <2>1, <3>1, <3>2, <3>3 DEF Locked
  <2> QED
    BY <2>2, <2>3
<1> QED
  BY <1>1

LEMMA MutexStep ==
  ASSUME AllGuarded, ThreadsType, MutexInv, [Next]_fileVars
  PROVE  MutexInv'
<1>1. CASE UNCHANGED fileVars
  BY <1>1 DEF fileVars, MutexInv
<1>2. ASSUME NEW t \in Threads, CompleteRead(t)
      PROVE  MutexInv'
  BY <1>2, RequestFrame DEF MutexInv
<1>3. ASSUME NEW t \in Threads, FileStep(t) \/ ThreadStep(t)
      PROVE  MutexInv'
  <2>1. OthersStay(t) /\ GoesOn(t) /\ MutexStays(t)
    BY <1>3, ThreadFrame
  <2>2. UNCHANGED program
    BY <1>3, ProgramStays
  <2>3. thr[t].ip \in Nat \ {0} /\ program \in Programs
    BY DEF ThreadsType
  <2>4. SUFFICES ASSUME NEW u \in Threads, Locked(program[u], thr'[u].ip)
                 PROVE  mutex' = u
    BY <2>2 DEF MutexInv
  <2>5. CASE LockOnMutex(t)
    <3>1. mutex = "free" /\ mutex' = t
      BY <2>5 DEF LockOnMutex, MutexFree
    <3>2. CASE u = t
      BY <3>1, <3>2
    <3>3. CASE u /= t
      <4>1. thr'[u].ip = thr[u].ip
        BY <2>1, <3>3 DEF OthersStay
      <4>2. mutex = u
        BY <2>4, <4>1 DEF MutexInv
      <4> QED
        BY <3>1, <4>2, FilesAssumption
    <3> QED
      BY <3>2, <3>3
  <2>6. CASE UnlockMutex(t)
    <3>1. Call(t).fn = "unlock" /\ thr[t].ip =< Len(program[t])
      BY <2>6 DEF UnlockMutex, At
    <3>2. thr[t].ip \in 1..Len(program[t])
      BY <2>3, <3>1, ProgramsAssumption
    <3>3. Locked(program[t], thr[t].ip)
      BY <2>3, <3>1, <3>2 DEF AllGuarded, Guarded, Call
    <3>4. mutex = t
      BY <3>3 DEF MutexInv
    <3>5. CASE u = t
      <4>1. thr'[t].ip = thr[t].ip + 1
        BY <2>3, <2>6 DEF UnlockMutex, ThreadsType, Idle, Returned
      <4> QED
        BY <2>3, <2>4, <3>1, <3>5, <4>1, LockedOn DEF Call
    <3>6. CASE u /= t
      <4>1. thr'[u].ip = thr[u].ip
        BY <2>1, <3>6 DEF OthersStay
      <4> QED
        BY <2>4, <3>4, <3>6, <4>1 DEF MutexInv
    <3> QED
      BY <3>5, <3>6
  <2>7. CASE ~LockOnMutex(t) /\ ~UnlockMutex(t)
    <3>1. mutex' = mutex /\ (thr'[t].ip /= thr[t].ip => Call(t).fn \notin {"lock", "unlock"})
      BY <2>1, <2>7 DEF MutexStays
    <3>2. CASE thr'[u].ip = thr[u].ip
      BY <2>4, <3>1, <3>2 DEF MutexInv
    <3>3. CASE thr'[u].ip /= thr[u].ip
      <4>1. u = t /\ thr'[u].ip = thr[u].ip + 1
        BY <2>1, <3>3 DEF OthersStay, GoesOn
      <4>2. Locked(program[u], thr[u].ip)
        BY <2>3, <2>4, <3>1, <3>3, <4>1, LockedOn DEF Call
      <4> QED
        BY <3>1, <4>2 DEF MutexInv
    <3> QED
      BY <3>2, <3>3
  <2> QED
    BY <2>5, <2>6, <2>7
<1> QED
  BY <1>1, <1>2, <1>3 DEF Next, AllOver

-------------------------------------------------------------------------------

(***************************************************************************)
(* Inodes, positions and sizes are in their ranges.                        *)
(***************************************************************************)
KernelRange ==
  /\ Len(content) \in Nat \ {0} /\ \A k \in 1..Len(content) : Sequence(content[k])
  /\ \A p \in ToSet(Paths) : names[p] \in 0..Len(content)
  /\ \A f \in 1..MaxFds : fds[f].ino \in 0..Len(content) /\ fds[f].pos \in Nat

RangeInv == KernelRange /\ \A u \in Threads : thr[u].size \in Nat

LEMMA SliceFacts ==
  ASSUME NEW s, Len(s) \in Nat, NEW from \in Nat, NEW n \in Nat
  PROVE  /\ \E S : Slice(s, from, n) \in Seq(S)
         /\ Len(Slice(s, from, n)) \in 0..n
<1>1. PICK b : b = Min({from + n, Len(s)})
  OBVIOUS
<1>2. b \in Nat /\ b =< from + n
  BY <1>1, MinMaxOfTwo
<1>3. PICK S : S = {s[i] : i \in (from + 1) .. b}
  OBVIOUS
<1>4. \A i \in (from + 1) .. b : s[i] \in S
  BY <1>3
<1>5. from + 1 \in Int /\ b \in Int
  BY <1>2
<1>6. /\ SubSeq(s, from + 1, b) \in Seq(S)
      /\ Len(SubSeq(s, from + 1, b)) = IF from + 1 =< b THEN b - (from + 1) + 1 ELSE 0
  BY <1>4, <1>5, SubSeqProperties
<1>7. Slice(s, from, n) = SubSeq(s, from + 1, b)
  BY <1>1 DEF Slice
<1>8. Slice(s, from, n) \in Seq(S)
  BY <1>6, <1>7
<1>9. Len(Slice(s, from, n)) = IF from + 1 =< b THEN b - from ELSE 0
  BY <1>2, <1>6, <1>7
<1>10. (IF from + 1 =< b THEN b - from ELSE 0) \in 0..n
  BY <1>2
<1> QED
  BY <1>8, <1>9, <1>10

LEMMA SizeFacts ==
  ASSUME RangeInv, NEW f
  PROVE  FileSizeOf(f) \in Nat
<1>1. CASE IsRegular(f)
  <2>1. Sequence(content[fds[f].ino])
    BY <1>1 DEF KernelRange, RangeInv, IsOpen, IsRegular
  <2> QED
    BY <1>1, <2>1, SequenceFacts DEF FileSizeOf
<1>2. CASE ~IsRegular(f)
  BY <1>2 DEF FileSizeOf, UszMax
<1> QED
  BY <1>1, <1>2

LEMMA BytesFacts ==
  ASSUME RangeInv, NEW f, NEW n \in Nat
  PROVE  /\ \E S : BytesAt(f, n) \in Seq(S)
         /\ Len(BytesAt(f, n)) \in 0..n
<1>1. CASE IsRegular(f)
  <2>1. PICK s, pos : s = content[fds[f].ino] /\ pos = fds[f].pos
    OBVIOUS
  <2>2. Len(s) \in Nat /\ pos \in Nat
    <3>1. Sequence(s) /\ pos \in Nat
      BY <1>1, <2>1 DEF KernelRange, RangeInv, IsOpen, IsRegular
    <3> QED
      BY <3>1, SequenceFacts
  <2>3. BytesAt(f, n) = Slice(s, pos, n)
    BY <1>1, <2>1 DEF BytesAt
  <2> QED
    BY <2>2, <2>3, SliceFacts
<1>2. CASE ~IsRegular(f)
  <2>1. BytesAt(f, n) = << >>
    BY <1>2 DEF BytesAt
  <2>2. << >> \in Seq({}) /\ Len(<< >>) = 0
    BY EmptySeq
  <2> QED
    BY <2>1, <2>2
<1> QED
  BY <1>1, <1>2

\* A function on 1..n is a sequence of length n.
LEMMA LengthOf ==
  ASSUME NEW n \in Nat, NEW s, DOMAIN s = 1..n, s = [k \in 1..n |-> s[k]]
  PROVE  Len(s) = n
<1>1. PICK S : S = {s[k] : k \in 1..n}
  OBVIOUS
<1>2. s \in [1..n -> S]
  BY <1>1
<1>3. s \in Seq(S)
  BY <1>2, SeqDef
<1> QED
  BY <1>3, LenProperties

LEMMA EmptySequence == Sequence(<< >>) /\ Len(<< >>) = 0
<1>1. DOMAIN << >> = 1..0 /\ << >> = [k \in 1..0 |-> << >>[k]] /\ 0 \in Nat
  OBVIOUS
<1> QED
  BY <1>1, EmptySeq DEF Sequence

LEMMA OverwrittenSequence ==
  ASSUME NEW s, Len(s) \in Nat, NEW pos \in Nat, NEW w, Len(w) \in Nat
  PROVE  Sequence(Overwritten(s, pos, w))
<1>1. PICK n : n = Max({Len(s), pos + Len(w)})
  OBVIOUS
<1>2. n \in Nat
  <2>1. PICK a, b : a = Len(s) /\ b = pos + Len(w)
    OBVIOUS
  <2>2. a \in Nat /\ b \in Nat
    BY <2>1
  <2>3. Max({a, b}) \in Nat
    BY <2>2, MinMaxOfTwo
  <2> QED
    BY <1>1, <2>1, <2>3
<1>3. PICK r : r = Overwritten(s, pos, w)
  OBVIOUS
<1>4. DOMAIN r = 1..n /\ r = [k \in 1..n |-> r[k]]
  BY <1>1, <1>3 DEF Overwritten
<1> QED
  BY <1>2, <1>3, <1>4 DEF Sequence

\* An inode gets other bytes.
LEMMA ContentSet ==
  ASSUME Sequence(content), \A k \in 1..Len(content) : Sequence(content[k]),
         NEW i \in 1..Len(content), NEW v, Sequence(v), content' = [content EXCEPT ![i] = v]
  PROVE  /\ Len(content') = Len(content)
         /\ \A k \in 1..Len(content') : Sequence(content'[k])
<1>1. Len(content) \in Nat /\ DOMAIN content = 1..Len(content)
  BY SequenceFacts
<1>2. PICK r : r = content'
  OBVIOUS
<1>3. PICK n \in Nat : n = Len(content)
  BY <1>1
<1>4. DOMAIN r = 1..n /\ r = [k \in 1..n |-> r[k]]
  BY <1>1, <1>2, <1>3
<1>5. Len(r) = n
  BY <1>4, LengthOf
<1>6. \A k \in 1..n : Sequence(r[k])
  <2> SUFFICES ASSUME NEW k \in 1..n
               PROVE  Sequence(r[k])
    OBVIOUS
  <2>1. CASE k = i
    <3>1. r[k] = v
      BY <1>1, <1>2, <2>1
    <3> QED
      BY <3>1
  <2>2. CASE k /= i
    <3>1. r[k] = content[k]
      BY <1>1, <1>2, <1>3, <2>2
    <3> QED
      BY <1>3, <3>1
  <2> QED
    BY <2>1, <2>2
<1> QED
  BY <1>2, <1>3, <1>5, <1>6

LEMMA RangePosition ==
  ASSUME KernelRange, KernelType, UNCHANGED <<names, content>>,
         NEW f, NEW pos \in Nat, fds' = [fds EXCEPT ![f].pos = pos]
  PROVE  KernelRange'
BY DEF KernelRange, KernelType

LEMMA RangeSeek ==
  ASSUME KernelRange, KernelType, UNCHANGED <<names, content>>,
         NEW f, NEW pos \in Nat, fds' = SeekFile(f, pos)
  PROVE  KernelRange'
<1>1. CASE IsOpen(f)
  BY <1>1, RangePosition DEF SeekFile
<1>2. CASE ~IsOpen(f)
  BY <1>2 DEF SeekFile, KernelRange
<1> QED
  BY <1>1, <1>2

LEMMA RangeClose ==
  ASSUME KernelRange, KernelType, NEW t, NEW f, Close(t, f), UNCHANGED <<names, content>>
  PROVE  KernelRange'
BY DEF KernelRange, KernelType, Close, NoFd

LEMMA RangeNewFile ==
  ASSUME KernelRange, KernelType, NEW path \in ToSet(Paths), NEW how, NewFile(path, how)
  PROVE  KernelRange'
<1>1. CASE UNCHANGED kernelVars
  BY <1>1 DEF kernelVars, KernelRange
<1>2. CASE ~UNCHANGED kernelVars
  <2>1. PICK f, ino : /\ ino = IF names[path] = 0 THEN Len(content) + 1 ELSE names[path]
                      /\ names' = [names EXCEPT ![path] = ino]
                      /\ content' = IF names[path] = 0 THEN Append(content, << >>)
                                    ELSE IF how = "trunc" THEN [content EXCEPT ![ino] = << >>]
                                    ELSE content
                      /\ fds' = [fds EXCEPT ![f] = [ino |-> ino, pos |-> 0]]
    BY <1>2 DEF NewFile
  <2>2. PICK n \in Nat \ {0} : n = Len(content)
    BY DEF KernelRange
  <2>3. Sequence(<< >>)
    BY EmptySequence
  <2>4. /\ Len(content') \in {n, n + 1} /\ ino \in 1..Len(content')
        /\ \A k \in 1..Len(content') : Sequence(content'[k])
    <3>1. CASE names[path] = 0
      <4>1. /\ Len(content') = n + 1 /\ content'[n + 1] = << >>
            /\ \A k \in 1..n : content'[k] = content[k]
        BY <2>1, <2>2, <3>1, SequenceFacts DEF KernelType
      <4>2. \A k \in 1..n : Sequence(content'[k])
        BY <2>2, <4>1 DEF KernelRange
      <4>3. Sequence(content'[n + 1])
        BY <2>3, <4>1
      <4>4. 1..(n + 1) = 1..n \cup {n + 1}
        OBVIOUS
      <4> QED
        BY <2>1, <2>2, <3>1, <4>1, <4>2, <4>3, <4>4
    <3>2. CASE names[path] /= 0
      <4>1. ino \in 1..n
        BY <2>1, <2>2, <3>2 DEF KernelRange
      <4>2. CASE content' = content
        BY <2>2, <4>1, <4>2 DEF KernelRange
      <4>3. CASE content' = [content EXCEPT ![ino] = << >>]
        <5>1. PICK v : v = << >>
          OBVIOUS
        <5>2. content' = [content EXCEPT ![ino] = v] /\ Sequence(v)
          BY <2>3, <4>3, <5>1
        <5>3. Sequence(content) /\ \A k \in 1..Len(content) : Sequence(content[k])
          BY DEF KernelType, KernelRange
        <5>4. Len(content') = n /\ \A k \in 1..Len(content') : Sequence(content'[k])
          BY <2>2, <4>1, <5>2, <5>3, ContentSet
        <5> QED
          BY <4>1, <5>4
      <4> QED
        BY <2>1, <3>2, <4>2, <4>3
    <3> QED
      BY <3>1, <3>2
  <2>5. Len(content') \in Nat \ {0} /\ 0..n \subseteq 0..Len(content') /\ ino \in 0..Len(content')
    BY <2>2, <2>4
  <2>6. \A p \in ToSet(Paths) : names'[p] \in 0..Len(content')
    BY <2>1, <2>2, <2>5 DEF KernelRange, KernelType
  <2>7. \A g \in 1..MaxFds : fds'[g].ino \in 0..Len(content') /\ fds'[g].pos \in Nat
    BY <2>1, <2>2, <2>5 DEF KernelRange, KernelType
  <2> QED
    BY <2>4, <2>5, <2>6, <2>7 DEF KernelRange
<1> QED
  BY <1>1, <1>2

LEMMA RangeWrite ==
  ASSUME KernelRange, KernelType, UNCHANGED names,
         NEW f, IsOpen(f), NEW w, Len(w) \in Nat,
         content' = [content EXCEPT ![fds[f].ino] = Overwritten(@, fds[f].pos, w)],
         \A g \in 1..MaxFds : fds'[g].ino = fds[g].ino /\ fds'[g].pos \in Nat
  PROVE  KernelRange'
<1>1. PICK i, pos, v : i = fds[f].ino /\ pos = fds[f].pos /\ v = Overwritten(content[i], pos, w)
  OBVIOUS
<1>2. i \in 1..Len(content) /\ pos \in Nat /\ Len(content[i]) \in Nat
  <2>1. i \in 1..Len(content) /\ pos \in Nat /\ Sequence(content[i])
    BY <1>1 DEF KernelRange, IsOpen
  <2> QED
    BY <2>1, SequenceFacts
<1>3. Sequence(v)
  BY <1>1, <1>2, OverwrittenSequence
<1>4. content' = [content EXCEPT ![i] = v]
  BY <1>1
<1>5. Sequence(content) /\ \A k \in 1..Len(content) : Sequence(content[k])
  BY DEF KernelType, KernelRange
<1>6. Len(content') = Len(content) /\ \A k \in 1..Len(content') : Sequence(content'[k])
  BY <1>2, <1>3, <1>4, <1>5, ContentSet
<1> QED
  BY <1>6 DEF KernelRange

LEMMA RangeStep ==
  ASSUME FilesInv, RangeInv, [Next]_fileVars
  PROVE  RangeInv'
<1>1. ThreadsType /\ KernelType /\ KernelRange
  BY DEF FilesInv, RangeInv
<1>2. ASSUME NEW t \in Threads, FileStep(t) \/ ThreadStep(t)
      PROVE  KernelRange'
  <2>1. CASE UNCHANGED kernelVars
    BY <1>1, <2>1 DEF kernelVars, KernelRange
  <2>2. CASE RemoveFile(t)
    BY <1>1, <2>2 DEF RemoveFile, KernelRange, KernelType
  <2>3. CASE SeekToRead(t)
    <3>1. Call(t).from \in Nat
      BY <1>1, <2>3, CallFacts DEF SeekToRead, At
    <3> QED
      BY <1>1, <2>3, <3>1, RangeSeek DEF SeekToRead
  <2>4. CASE SeekToWrite(t)
    <3>1. Call(t).from \in Nat
      BY <1>1, <2>4, CallFacts DEF SeekToWrite, At
    <3>2. CASE fds' = fds
      BY <1>1, <2>4, <3>2 DEF SeekToWrite, KernelRange
    <3> QED
      BY <1>1, <2>4, <3>1, <3>2, RangeSeek DEF SeekToWrite
  <2>5. CASE ReadBytes(t)
    <3>1. PICK f, m : f = Handle(t, Call(t).slot) /\ m = Len(BytesAt(f, Call(t).n))
      OBVIOUS
    <3>2. Call(t).n \in Nat
      BY <1>1, <2>5, CallFacts DEF ReadBytes, At
    <3>3. m \in Nat
      BY <3>1, <3>2, BytesFacts
    <3>4. /\ UNCHANGED <<names, content>>
          /\ fds' = IF IsOpen(f) THEN [fds EXCEPT ![f].pos = @ + m] ELSE fds
      BY <2>5, <3>1 DEF ReadBytes
    <3> QED
      BY <1>1, <3>3, <3>4 DEF KernelRange, KernelType
  <2>6. CASE WriteBytes(t)
    <3>1. PICK f, w : f = Handle(t, Call(t).slot) /\ w = Call(t).bytes
      OBVIOUS
    <3>2. Len(w) \in Nat
      BY <1>1, <2>6, <3>1, CallFacts DEF WriteBytes, At
    <3>3. CASE UNCHANGED <<content, fds>>
      BY <1>1, <2>6, <3>3 DEF WriteBytes, KernelRange
    <3>4. CASE ~UNCHANGED <<content, fds>>
      <4>1. /\ IsOpen(f) /\ UNCHANGED names
            /\ content' = [content EXCEPT ![fds[f].ino] = Overwritten(@, fds[f].pos, w)]
            /\ fds' = [fds EXCEPT ![f].pos = @ + Len(w)]
        BY <2>6, <3>1, <3>4 DEF WriteBytes, IsRegular
      <4>2. \A g \in 1..MaxFds : fds'[g].ino = fds[g].ino /\ fds'[g].pos \in Nat
        BY <1>1, <3>2, <4>1 DEF KernelRange, KernelType
      <4> QED
        BY <1>1, <3>2, <4>1, <4>2, RangeWrite
    <3> QED
      BY <3>3, <3>4
  <2>7. CASE ReadFileA(t) \/ ReadFileB(t)
    <3>1. UNCHANGED <<names, content>>
      BY <2>7 DEF ReadFileA, ReadFileB
    <3>2. PICK f : fds' = fds \/ fds' = [fds EXCEPT ![f].pos = FileSizeOf(f)]
      BY <2>7 DEF ReadFileA, ReadFileB, ReadEntireFile
    <3>3. FileSizeOf(f) \in Nat
      BY SizeFacts
    <3>4. CASE fds' = fds
      BY <1>1, <3>1, <3>4 DEF KernelRange
    <3> QED
      BY <1>1, <3>1, <3>2, <3>3, <3>4, RangePosition
  <2>8. CASE OpenFile(t) \/ ForceOpen(t) \/ OpenSource(t) \/ CreateDestination(t)
    <3>1. PICK path, how : path \in ToSet(Paths) /\ NewFile(path, how)
      <4>1. CASE OpenFile(t)
        <5>1. Call(t).path \in ToSet(Paths) /\ NewFile(Call(t).path, Call(t).how)
          BY <1>1, <4>1, CallFacts DEF OpenFile, At
        <5> QED
          BY <5>1
      <4>2. CASE ForceOpen(t)
        <5>1. Call(t).path \in ToSet(Paths) /\ NewFile(Call(t).path, "excl")
          BY <1>1, <4>2, CallFacts DEF ForceOpen, At
        <5> QED
          BY <5>1
      <4>3. CASE OpenSource(t)
        <5>1. Call(t).src \in ToSet(Paths) /\ NewFile(Call(t).src, "open")
          BY <1>1, <4>3, CallFacts DEF OpenSource, At
        <5> QED
          BY <5>1
      <4>4. CASE CreateDestination(t)
        <5>1. Call(t).dst \in ToSet(Paths) /\ NewFile(Call(t).dst, DestinationMode(Call(t)))
          BY <1>1, <4>4, CallFacts DEF CreateDestination, At
        <5> QED
          BY <5>1
      <4> QED
        BY <2>8, <4>1, <4>2, <4>3, <4>4
    <3> QED
      BY <1>1, <3>1, RangeNewFile
  <2>9. CASE CloseFileHandle(t) \/ CloseSource(t) \/ CloseDestination(t) \/ CloseAgain(t)
    <3>1. PICK f : Close(t, f) /\ UNCHANGED <<names, content>>
      BY <2>9 DEF CloseFileHandle, CloseSource, CloseDestination, CloseAgain
    <3> QED
      BY <1>1, <3>1, RangeClose
  <2>10. CASE CopyBytes(t)
    <3>1. CASE UNCHANGED <<content, fds>>
      BY <1>1, <2>10, <3>1 DEF CopyBytes, KernelRange
    <3>2. CASE ~UNCHANGED <<content, fds>>
      <4>1. PICK s, src, dst : s = BytesAt(src, thr[t].size) /\ src = thr[t].src /\ dst = thr[t].dst
        OBVIOUS
      <4>2. PICK n \in 0..Len(s) :
              /\ content' = [content EXCEPT ![fds[dst].ino] =
                               Overwritten(@, fds[dst].pos, SubSeq(s, 1, n))]
              /\ fds' = [fds EXCEPT ![src].pos = @ + n, ![dst].pos = @ + n]
        BY ZenonT(30), <2>10, <3>2, <4>1 DEF CopyBytes
      <4>3. IsOpen(dst) /\ UNCHANGED names
        BY <2>10, <3>2, <4>1 DEF CopyBytes, IsRegular
      <4>4. thr[t].size \in Nat
        BY DEF RangeInv
      <4>5. Len(s) \in Nat /\ n \in Nat
        BY <4>1, <4>2, <4>4, BytesFacts
      <4>6. PICK w : w = SubSeq(s, 1, n)
        OBVIOUS
      <4>7. Len(w) \in Nat
        <5>1. PICK S : S = {s[i] : i \in 1..n}
          OBVIOUS
        <5>2. \A i \in 1..n : s[i] \in S
          BY <5>1
        <5>3. Len(w) = IF 1 =< n THEN n - 1 + 1 ELSE 0
          BY <4>5, <4>6, <5>2, SubSeqProperties
        <5> QED
          BY <4>5, <5>3
      <4>8. \A g \in 1..MaxFds : fds'[g].ino = fds[g].ino /\ fds'[g].pos \in Nat
        BY <1>1, <4>2, <4>5 DEF KernelRange, KernelType
      <4> QED
        BY <1>1, <4>2, <4>3, <4>6, <4>7, <4>8, RangeWrite
    <3> QED
      BY <3>1, <3>2
  <2> QED
    BY <1>2, <2>1, <2>2, <2>3, <2>4, <2>5, <2>6, <2>7, <2>8, <2>9, <2>10
       DEF FileStep, ThreadStep, CheckSize, ReadFileAsync, WaitOnIoCompletion, CompareSizes,
           CompareFiles, SizeOfSource, LockOnMutex, UnlockMutex, IncreaseSemaphore,
           WaitOnSemaphore, InitThread, WaitOnThread
<1>3. ASSUME NEW t \in Threads, FileStep(t) \/ ThreadStep(t), NEW u \in Threads
      PROVE  thr'[u].size \in Nat
  <2>1. OthersStay(t) /\ BufferStays(t)
    BY <1>1, <1>3, ThreadFrame
  <2>2. CASE thr'[u].size = thr[u].size
    BY <2>2 DEF RangeInv
  <2>3. CASE thr'[u].size /= thr[u].size
    <3>1. u = t /\ SizeOfSource(t)
      BY <2>1, <2>3 DEF OthersStay, BufferStays
    <3>2. PICK n : n = FileSizeOf(thr[t].src)
      OBVIOUS
    <3>3. thr' = [thr EXCEPT ![t].size = n, ![t].pc = "copy"]
      BY <3>1, <3>2 DEF SizeOfSource
    <3> QED
      BY <1>1, <3>1, <3>2, <3>3, SizeFacts DEF ThreadsType, Idle
  <2> QED
    BY <2>2, <2>3
<1>4. ASSUME NEW t \in Threads, CompleteRead(t)
      PROVE  RangeInv'
  <2>1. UNCHANGED <<names, content, fds>> /\ \A u \in Threads : thr'[u].size = thr[u].size
    BY <1>1, <1>4, RequestFrame
  <2> QED
    BY <2>1 DEF RangeInv, KernelRange
<1>5. CASE UNCHANGED fileVars
  BY <1>5 DEF fileVars, RangeInv, KernelRange
<1> QED
  BY <1>2, <1>3, <1>4, <1>5 DEF Next, AllOver, RangeInv

LEMMA RangeInit == Init => RangeInv
<1> SUFFICES ASSUME Init PROVE RangeInv
  OBVIOUS
<1>1. PICK c \in Contents :
        /\ content = [i \in DOMAIN Paths |-> IF c[i] = Absent THEN << >> ELSE c[i]]
        /\ names = [p \in ToSet(Paths) |->
                      LET i == CHOOSE i \in DOMAIN Paths : Paths[i] = p
                      IN  IF c[i] = Absent THEN 0 ELSE i]
  BY DEF Init
<1>2. PICK n : n = Len(Paths)
  OBVIOUS
<1>3. n \in Nat /\ DOMAIN Paths = 1..n /\ n /= 0
  <2>1. PICK S : S = ToSet(Paths)
    OBVIOUS
  <2>2. Paths \in Seq(S) /\ Paths /= << >>
    BY <2>1, FilesAssumption
  <2>3. Len(Paths) \in Nat /\ DOMAIN Paths = 1..Len(Paths)
    BY <2>2, LenProperties
  <2>4. Len(Paths) /= 0
    BY <2>2, EmptySeq
  <2> QED
    BY <1>2, <2>3, <2>4
<1>4. DOMAIN content = 1..n /\ content = [k \in 1..n |-> content[k]]
  BY <1>1, <1>3
<1>5. Len(content) = n
  BY <1>3, <1>4, LengthOf
<1>6. Sequence(<< >>)
  BY EmptySequence
<1>7. \A k \in 1..n : Sequence(content[k])
  <2> SUFFICES ASSUME NEW k \in 1..n
               PROVE  Sequence(content[k])
    OBVIOUS
  <2>1. Sequence(c[k])
    <3>1. PICK S : S = ToSet(c[k])
      OBVIOUS
    <3>2. c[k] \in Seq(S)
      BY <1>3, <3>1, FilesAssumption
    <3>3. PICK m \in Nat : m = Len(c[k])
      BY <3>2, LenProperties
    <3>4. DOMAIN c[k] = 1..m /\ c[k] = [j \in 1..m |-> c[k][j]]
      BY <3>2, <3>3, LenProperties
    <3> QED
      BY <3>3, <3>4 DEF Sequence
  <2>2. content[k] = << >> \/ content[k] = c[k]
    BY <1>1, <1>3
  <2> QED
    BY <1>6, <2>1, <2>2
<1>8. ASSUME NEW p \in ToSet(Paths)
      PROVE  names[p] \in 0..n
  <2>1. PICK i : i = CHOOSE j \in DOMAIN Paths : Paths[j] = p
    OBVIOUS
  <2>2. \E j \in DOMAIN Paths : Paths[j] = p
    BY DEF ToSet
  <2>3. i \in 1..n
    BY <1>3, <2>1, <2>2
  <2>4. names[p] = IF c[i] = Absent THEN 0 ELSE i
    BY <1>1, <2>1
  <2> QED
    BY <1>3, <2>3, <2>4
<1>9. fds = [f \in 1..MaxFds |-> IF f = 1 THEN [NoFd EXCEPT !.ino = 1] ELSE NoFd]
  BY DEF Init
<1>10. \A f \in 1..MaxFds : fds[f].ino \in 0..n /\ fds[f].pos \in Nat
  BY <1>3, <1>9 DEF NoFd
<1>11. \A u \in Threads : thr[u].size \in Nat
  BY DEF Init, Idle
<1> QED
  BY <1>3, <1>5, <1>7, <1>8, <1>10, <1>11 DEF RangeInv, KernelRange

LEMMA MutexInit == Init => MutexInv
BY DEF Init, Idle, MutexInv, Locked

-------------------------------------------------------------------------------

(***************************************************************************)
(* Where a read takes place, as long as nobody has lost a descriptor.      *)
(***************************************************************************)

\* Thread u is about to read, and has set the position.
Reading(u) == /\ thr[u].ip =< Len(program[u]) /\ Call(u).fn = "read" /\ thr[u].pc = "read"

\* The descriptor it reads from, 0 for none.
Source(u) == Handle(u, Call(u).slot)

\* Handles are of the files they were opened to be, and who reads has its position.
InPlace ==
  /\ fds[1].ino = 1
  /\ \A u \in Threads, i \in 1..2 : thr[u].h[i] /= 0 => fds[thr[u].h[i]].ino = thr[u].ino[i]
  /\ \A u \in Threads : Reading(u) /\ Source(u) /= 0 => fds[Source(u)].pos = Call(u).from

PlaceInv == lost = {} => InPlace

LEMMA LostGrows ==
  ASSUME [Next]_fileVars
  PROVE  /\ lost \subseteq lost'
         /\ lost' = {} => lost = {}
<1>1. ASSUME NEW t \in Threads, FileStep(t) \/ ThreadStep(t) \/ CompleteRead(t)
      PROVE  lost \subseteq lost'
  <2>1. CASE UNCHANGED lost
    BY <2>1
  <2>2. ASSUME NEW f, Close(t, f)
        PROVE  lost \subseteq lost'
    BY <2>2 DEF Close
  <2>3. CASE CloseFileHandle(t) \/ CloseSource(t) \/ CloseDestination(t) \/ CloseAgain(t)
    BY <2>2, <2>3 DEF CloseFileHandle, CloseSource, CloseDestination, CloseAgain
  <2> QED
    BY <1>1, <2>1, <2>3 DEF FileStep, ThreadStep, OpenFile, ForceOpen, RemoveFile, CheckSize,
       SeekToRead, ReadBytes, ReadFileAsync, WaitOnIoCompletion, SeekToWrite, WriteBytes,
       CompareSizes, ReadFileA, ReadFileB, CompareFiles, OpenSource, CreateDestination,
       SizeOfSource, CopyBytes, LockOnMutex, UnlockMutex, IncreaseSemaphore, WaitOnSemaphore,
       InitThread, WaitOnThread, CompleteRead
<1> QED
  BY <1>1 DEF Next, AllOver, fileVars

\* What a handle is when it is one.
LEMMA HandleFacts ==
  ASSUME FilesInv, lost = {}, InPlace, NEW u \in Threads, NEW i \in 1..2, thr[u].h[i] /= 0
  PROVE  thr[u].h[i] \in 2..MaxFds /\ fds[thr[u].h[i]].ino /= 0
<1>1. PICK H, A, I : H = Hands /\ A = Agains /\ I = Inodes
  OBVIOUS
<1>2. Own(H, A, I, {})
  BY <1>1 DEF FilesInv, OwnInv
<1>3. H[u][i] = thr[u].h[i]
  BY <1>1, HandsOf
<1>4. i \in 1..4 /\ u \in Threads \ {}
  OBVIOUS
<1>5. H[u][i] \in 0..MaxFds /\ H[u][i] /= 1 /\ I[H[u][i]] /= 0
  BY <1>2, <1>3, <1>4 DEF Own, OwnType, Fd
<1>6. H[u][i] \in 2..MaxFds
  BY <1>3, <1>5, FilesAssumption
<1> QED
  BY <1>1, <1>3, <1>5, <1>6 DEF Inodes

\* What a thread reads from is open, is its own, or the shared one under the mutex.
LEMMA SourceFacts ==
  ASSUME FilesInv, lost = {}, InPlace, NEW u \in Threads, Reading(u), Source(u) /= 0
  PROVE  /\ Source(u) \in 1..MaxFds /\ fds[Source(u)].ino /= 0
         /\ Call(u).slot \in 0..2 /\ (Call(u).slot = 0 => Source(u) = 1)
         /\ Call(u).slot /= 0 => Source(u) = thr[u].h[Call(u).slot] /\ Source(u) /= 1
<1>1. Call(u).slot \in 0..2
  BY CallFacts DEF FilesInv, Reading
<1>2. CASE Call(u).slot = 0
  BY <1>2, FilesAssumption DEF Source, Handle, InPlace
<1>3. CASE Call(u).slot /= 0
  <2>1. PICK i \in 1..2 : i = Call(u).slot
    BY <1>1, <1>3
  <2>2. Source(u) = thr[u].h[i]
    BY <1>3, <2>1 DEF Source, Handle
  <2>3. thr[u].h[i] \in 2..MaxFds /\ fds[thr[u].h[i]].ino /= 0
    BY <2>2, HandleFacts
  <2> QED
    BY <1>1, <1>3, <2>1, <2>2, <2>3
<1> QED
  BY <1>2, <1>3

\* A step of t that leaves the others' descriptors, and sets up its own.
LEMMA PlaceFrom ==
  ASSUME FilesInv, lost = {}, InPlace, NEW t \in Threads, UNCHANGED program,
         \A u \in Threads \ {t} : /\ thr'[u].ip = thr[u].ip /\ thr'[u].pc = thr[u].pc
                                 /\ thr'[u].h = thr[u].h /\ thr'[u].ino = thr[u].ino,
         fds'[1].ino = fds[1].ino,
         \A u \in Threads \ {t}, i \in 1..2 :
            thr[u].h[i] /= 0 => fds'[thr[u].h[i]].ino = fds[thr[u].h[i]].ino,
         \A i \in 1..2 : thr'[t].h[i] /= 0 => fds'[thr'[t].h[i]].ino = thr'[t].ino[i],
         \A u \in Threads \ {t} :
            Reading(u) /\ Source(u) /= 0 => fds'[Source(u)].pos = fds[Source(u)].pos,
         Reading(t)' /\ Source(t)' /= 0 => fds'[Source(t)'].pos = Call(t)'.from
  PROVE  InPlace'
<1>1. fds'[1].ino = 1
  BY DEF InPlace
<1>2. ASSUME NEW u \in Threads, NEW i \in 1..2, thr'[u].h[i] /= 0
      PROVE  fds'[thr'[u].h[i]].ino = thr'[u].ino[i]
  <2>1. CASE u = t
    BY <1>2, <2>1
  <2>2. CASE u /= t
    <3>1. thr'[u].h = thr[u].h /\ thr'[u].ino = thr[u].ino
      BY <2>2
    <3>2. fds'[thr[u].h[i]].ino = fds[thr[u].h[i]].ino
      BY <1>2, <2>2, <3>1
    <3> QED
      BY <1>2, <3>1, <3>2 DEF InPlace
  <2> QED
    BY <2>1, <2>2
<1>3. ASSUME NEW u \in Threads \ {t}, Reading(u)', Source(u)' /= 0
      PROVE  fds'[Source(u)'].pos = Call(u)'.from
  <2>1. thr'[u].ip = thr[u].ip /\ thr'[u].pc = thr[u].pc /\ thr'[u].h = thr[u].h
    OBVIOUS
  <2>2. Call(u)' = Call(u)
    BY <2>1 DEF Call
  <2>3. Reading(u) /\ Source(u)' = Source(u)
    BY <1>3, <2>1, <2>2 DEF Reading, Source, Handle
  <2> QED
    BY <1>3, <2>2, <2>3 DEF InPlace
<1>4. \A u \in Threads : Reading(u)' /\ Source(u)' /= 0 => fds'[Source(u)'].pos = Call(u)'.from
  BY <1>3
<1> QED
  BY <1>1, <1>2, <1>4 DEF InPlace

\* t opens a file, to a handle or to a local.
LEMMA PlaceOpens ==
  ASSUME FilesInv, lost = {}, InPlace, NEW t \in Threads, UNCHANGED program,
         NEW path \in ToSet(Paths), NEW how, NewFile(path, how),
         \A u \in Threads \ {t} : thr'[u] = thr[u],
         thr'[t].pc /= "read",
         \A i \in 1..2 : \/ thr'[t].h[i] = thr[t].h[i] /\ thr'[t].ino[i] = thr[t].ino[i]
                         \/ thr'[t].h[i] = Opened(path, how) /\ thr'[t].ino[i] = names'[path]
  PROVE  InPlace'
<1>1. PICK f : f = Opened(path, how)
  OBVIOUS
<1>2. KernelType
  BY DEF FilesInv
<1>3. /\ f = 0 => InodesStay
      /\ f /= 0 => /\ f \in 1..MaxFds /\ fds[f].ino = 0
                   /\ fds'[f].ino = names'[path]
                   /\ \A g \in 1..MaxFds : g /= f => fds'[g] = fds[g]
  BY <1>1, <1>2, NewFileFacts
<1>4. f = 0 => fds' = fds
  BY <1>1 DEF NewFile, kernelVars
<1>5. ASSUME NEW g \in 1..MaxFds, fds[g].ino /= 0
      PROVE  fds'[g] = fds[g]
  BY <1>3, <1>4, <1>5
<1>6. fds'[1].ino = fds[1].ino
  BY <1>5, FilesAssumption DEF InPlace
<1>7. ASSUME NEW u \in Threads, NEW i \in 1..2, thr[u].h[i] /= 0
      PROVE  fds'[thr[u].h[i]].ino = fds[thr[u].h[i]].ino
  <2>1. thr[u].h[i] \in 1..MaxFds /\ fds[thr[u].h[i]].ino /= 0
    BY <1>7, HandleFacts
  <2> QED
    BY <1>5, <2>1
<1>8. ASSUME NEW i \in 1..2, thr'[t].h[i] /= 0
      PROVE  fds'[thr'[t].h[i]].ino = thr'[t].ino[i]
  <2>1. CASE thr'[t].h[i] = thr[t].h[i] /\ thr'[t].ino[i] = thr[t].ino[i]
    BY <1>7, <1>8, <2>1 DEF InPlace
  <2>2. CASE thr'[t].h[i] = f /\ thr'[t].ino[i] = names'[path]
    BY <1>3, <1>8, <2>2
  <2> QED
    BY <1>1, <2>1, <2>2
<1>9. ASSUME NEW u \in Threads \ {t}, Reading(u), Source(u) /= 0
      PROVE  fds'[Source(u)].pos = fds[Source(u)].pos
  <2>1. Source(u) \in 1..MaxFds /\ fds[Source(u)].ino /= 0
    BY <1>9, SourceFacts
  <2> QED
    BY <1>5, <2>1
<1>10. ~Reading(t)'
  BY DEF Reading
<1>11. \A u \in Threads \ {t} : /\ thr'[u].ip = thr[u].ip /\ thr'[u].pc = thr[u].pc
                               /\ thr'[u].h = thr[u].h /\ thr'[u].ino = thr[u].ino
  OBVIOUS
<1> QED
  BY <1>6, <1>7, <1>8, <1>9, <1>10, <1>11, PlaceFrom

\* t closes f, which is in none of its handles any more, and nobody loses it.
LEMMA PlaceCloses ==
  ASSUME FilesInv, lost = {}, lost' = {}, InPlace, NEW t \in Threads, UNCHANGED program,
         NEW f, Close(t, f), f /= 1,
         \A u \in Threads \ {t} : thr'[u] = thr[u],
         thr'[t].pc /= "read",
         \A i \in 1..2 : thr'[t].h[i] /= 0 =>
            thr'[t].h[i] = thr[t].h[i] /\ thr'[t].ino[i] = thr[t].ino[i] /\ thr'[t].h[i] /= f
  PROVE  InPlace'
<1>1. ASSUME NEW g \in 1..MaxFds, g /= f
      PROVE  fds'[g] = fds[g]
  BY <1>1 DEF Close, FilesInv, KernelType
<1>2. ASSUME NEW u \in Threads \ {t}, u \in Holders(f)
      PROVE  fds' = fds
  BY <1>2 DEF Close
<1>3. fds'[1].ino = fds[1].ino
  BY <1>1, FilesAssumption
<1>4. ASSUME NEW u \in Threads \ {t}, NEW i \in 1..2, thr[u].h[i] /= 0
      PROVE  fds'[thr[u].h[i]] = fds[thr[u].h[i]]
  <2>1. thr[u].h[i] \in 1..MaxFds
    BY <1>4, HandleFacts
  <2>2. thr[u].h[i] = f => u \in Holders(f)
    BY DEF Holders
  <2> QED
    BY <1>1, <1>2, <2>1, <2>2
<1>5. ASSUME NEW i \in 1..2, thr'[t].h[i] /= 0
      PROVE  fds'[thr'[t].h[i]].ino = thr'[t].ino[i]
  <2>1. thr[t].h[i] /= 0 /\ thr[t].h[i] /= f /\ thr'[t].h[i] = thr[t].h[i] /\ thr'[t].ino[i] = thr[t].ino[i]
    BY <1>5
  <2>2. thr[t].h[i] \in 1..MaxFds
    BY <2>1, HandleFacts
  <2> QED
    BY <1>1, <2>1, <2>2 DEF InPlace
<1>6. ASSUME NEW u \in Threads \ {t}, Reading(u), Source(u) /= 0
      PROVE  fds'[Source(u)].pos = fds[Source(u)].pos
  <2>1. /\ Source(u) \in 1..MaxFds /\ Call(u).slot \in 0..2
        /\ Call(u).slot = 0 => Source(u) = 1
        /\ Call(u).slot /= 0 => Source(u) = thr[u].h[Call(u).slot]
    BY <1>6, SourceFacts
  <2>2. CASE Call(u).slot = 0
    BY <1>1, <2>1, <2>2
  <2>3. CASE Call(u).slot /= 0
    <3>1. PICK i \in 1..2 : i = Call(u).slot
      BY <2>1, <2>3
    <3> QED
      BY <1>4, <1>6, <2>1, <2>3, <3>1
  <2> QED
    BY <2>2, <2>3
<1>7. ~Reading(t)'
  BY DEF Reading
<1>8. \A u \in Threads \ {t} : /\ thr'[u].ip = thr[u].ip /\ thr'[u].pc = thr[u].pc
                              /\ thr'[u].h = thr[u].h /\ thr'[u].ino = thr[u].ino
  OBVIOUS
<1> QED
  BY <1>3, <1>4, <1>5, <1>6, <1>7, <1>8, PlaceFrom

\* Thread t is in a call that uses the shared handle.
Sharing(t) == /\ thr[t].ip =< Len(program[t])
              /\ Call(t).fn \in {"read", "write"} /\ Call(t).slot = 0

\* The position of a descriptor is set by who holds it, or by who uses the shared one.
LEMMA PositionsOf ==
  ASSUME ThreadsType, KernelType, NEW t \in Threads, KeepsHands(t),
         NEW g \in 1..MaxFds, fds'[g] /= fds[g]
  PROVE  (\E j \in 1..4 : Hands[t][j] = g) \/ (g = 1 /\ Sharing(t))
<1>1. ThreadsType /\ KernelType
  OBVIOUS
<1>2. /\ Hands[t][1] = thr[t].h[1] /\ Hands[t][2] = thr[t].h[2]
      /\ Hands[t][3] = thr[t].src /\ Hands[t][4] = thr[t].dst
  BY HandsOf
<1>3. ASSUME thr[t].ip =< Len(program[t]), Call(t).fn \in {"read", "write"}, g = Handle(t, Call(t).slot)
      PROVE  (\E j \in 1..4 : Hands[t][j] = g) \/ (g = 1 /\ Sharing(t))
  <2>1. Call(t).slot \in 0..2
    BY <1>1, <1>3, CallFacts
  <2>2. CASE Call(t).slot = 0
    BY <1>3, <2>2 DEF Handle, Sharing
  <2>3. CASE Call(t).slot /= 0
    BY <1>2, <1>3, <2>1, <2>3 DEF Handle
  <2> QED
    BY <2>2, <2>3
<1>4. CASE SeekToRead(t)
  BY <1>1, <1>3, <1>4 DEF SeekToRead, SeekFile, At, KernelType
<1>5. CASE SeekToWrite(t)
  BY <1>1, <1>3, <1>5 DEF SeekToWrite, SeekFile, At, KernelType
<1>6. CASE ReadBytes(t)
  <2>1. g = Handle(t, Call(t).slot)
    BY <1>1, <1>6 DEF ReadBytes, KernelType
  <2> QED
    BY <1>3, <1>6, <2>1 DEF ReadBytes, At
<1>7. CASE WriteBytes(t)
  <2>1. g = Handle(t, Call(t).slot)
    BY <1>1, <1>7 DEF WriteBytes, KernelType
  <2> QED
    BY <1>3, <1>7, <2>1 DEF WriteBytes, At
<1>8. CASE ReadFileA(t) \/ ReadFileB(t)
  <2>1. ASSUME NEW i \in 1..2, NEW buf, NEW next, ReadEntireFile(t, i, buf, next)
        PROVE  g = thr[t].h[i]
    <3>1. PICK f : f = Handle(t, i)
      OBVIOUS
    <3>2. f = thr[t].h[i]
      BY <3>1 DEF Handle
    <3>3. fds' = [fds EXCEPT ![f].pos = FileSizeOf(f)]
      BY <2>1, <3>1 DEF ReadEntireFile
    <3> QED
      BY <1>1, <3>2, <3>3 DEF KernelType
  <2>2. g = thr[t].h[1] \/ g = thr[t].h[2]
    BY <1>8, <2>1 DEF ReadFileA, ReadFileB
  <2> QED
    BY <1>2, <2>2
<1>9. CASE CopyBytes(t)
  <2>1. PICK n, src, dst : /\ fds' = [fds EXCEPT ![src].pos = @ + n, ![dst].pos = @ + n]
                           /\ src = thr[t].src /\ dst = thr[t].dst
    BY <1>9 DEF CopyBytes
  <2>2. g = src \/ g = dst
    BY <1>1, <2>1 DEF KernelType
  <2> QED
    BY <1>2, <2>1, <2>2
<1> QED
  BY <1>4, <1>5, <1>6, <1>7, <1>8, <1>9
     DEF KeepsHands, kernelVars, RemoveFile, CheckSize, ReadFileAsync, CompleteRead,
         WaitOnIoCompletion, CompareSizes, CompareFiles, SizeOfSource, LockOnMutex, UnlockMutex,
         IncreaseSemaphore, WaitOnSemaphore, InitThread, WaitOnThread

\* Who may use the shared one has the mutex.
LEMMA PositionsMoved ==
  ASSUME AllGuarded, FilesInv, MutexInv, NEW t \in Threads, KeepsHands(t),
         NEW g \in 1..MaxFds, fds'[g] /= fds[g]
  PROVE  (\E j \in 1..4 : Hands[t][j] = g) \/ (g = 1 /\ mutex = t)
<1>1. ThreadsType /\ KernelType
  BY DEF FilesInv
<1>2. (\E j \in 1..4 : Hands[t][j] = g) \/ (g = 1 /\ Sharing(t))
  BY <1>1, PositionsOf
<1>3. Sharing(t) => mutex = t
  <2> SUFFICES ASSUME Sharing(t) PROVE mutex = t
    OBVIOUS
  <2>1. thr[t].ip \in 1..Len(program[t]) /\ program \in Programs
    BY <1>1, ProgramsAssumption DEF ThreadsType, Sharing
  <2>2. Locked(program[t], thr[t].ip)
    BY <2>1 DEF AllGuarded, Guarded, Call, Sharing
  <2> QED
    BY <2>2 DEF MutexInv
<1> QED
  BY <1>2, <1>3

LEMMA PlaceKeeps ==
  ASSUME AllGuarded, FilesInv, MutexInv, lost = {}, InPlace, NEW t \in Threads,
         KeepsHands(t), FileStep(t) \/ ThreadStep(t)
  PROVE  InPlace'
<1>1. ThreadsType /\ KernelType /\ AgainInv /\ OwnInv
  BY DEF FilesInv
<1>2. HandsStay /\ InodesStay
  BY <1>1, KeepStep, KeepKernel
<1>3. OthersStay(t) /\ GoesOn(t)
  BY <1>1, ThreadFrame
<1>4. UNCHANGED program
  BY ProgramStays
<1>5. ASSUME NEW u \in Threads \ {t}, Reading(u), Source(u) /= 0
      PROVE  fds'[Source(u)].pos = fds[Source(u)].pos
  <2>1. PICK g : g = Source(u)
    OBVIOUS
  <2>2. /\ g \in 1..MaxFds /\ Call(u).slot \in 0..2
        /\ Call(u).slot = 0 => g = 1
        /\ Call(u).slot /= 0 => g = thr[u].h[Call(u).slot] /\ g /= 1
    BY <1>5, <2>1, SourceFacts
  <2>3. PICK H, A, I : H = Hands /\ A = Agains /\ I = Inodes
    OBVIOUS
  <2>4. Own(H, A, I, {})
    BY <1>1, <2>3 DEF OwnInv
  <2>5. CASE Call(u).slot = 0
    <3>1. thr[u].ip \in 1..Len(program[u]) /\ program \in Programs
      BY <1>1, <1>5, ProgramsAssumption DEF ThreadsType, Reading
    <3>2. Locked(program[u], thr[u].ip)
      BY <1>5, <2>5, <3>1 DEF AllGuarded, Guarded, Call, Reading
    <3>3. mutex = u
      BY <3>2 DEF MutexInv
    <3>4. g = 1
      BY <2>2, <2>5
    <3>5. \A j \in 1..4 : H[t][j] /= 1
      BY <2>4 DEF Own, OwnType
    <3>6. fds'[g] = fds[g]
      BY <2>2, <2>3, <3>3, <3>4, <3>5, PositionsMoved
    <3> QED
      BY <2>1, <3>6
  <2>6. CASE Call(u).slot /= 0
    <3>1. PICK i \in 1..2 : i = Call(u).slot
      BY <2>2, <2>6
    <3>2. H[u][i] = g /\ g /= 0 /\ i \in 1..4
      BY <1>5, <2>1, <2>2, <2>3, <2>6, <3>1, HandsOf
    <3>3. \A j \in 1..4 : H[t][j] /= g
      BY <2>4, <3>2 DEF Own
    <3>4. fds'[g] = fds[g]
      BY <2>2, <2>3, <2>6, <3>3, PositionsMoved
    <3> QED
      BY <2>1, <3>4
  <2> QED
    BY <2>5, <2>6
<1>6. ASSUME Reading(t)', Source(t)' /= 0
      PROVE  fds'[Source(t)'].pos = Call(t)'.from
  <2>1. thr'[t].ip = thr[t].ip /\ SeekToRead(t)
    BY <1>3, <1>6 DEF Reading, GoesOn
  <2>2. Call(t)' = Call(t) /\ thr'[t].h = thr[t].h
    BY <1>2, <1>4, <2>1 DEF Call, HandsStay
  <2>3. PICK g : g = Source(t)
    OBVIOUS
  <2>4. Source(t)' = g
    BY <2>2, <2>3 DEF Source, Handle
  <2>5. fds' = SeekFile(g, Call(t).from)
    BY <2>1, <2>3 DEF SeekToRead, Source
  <2>6. IsOpen(g)
    <3>1. Call(t).slot \in 0..2
      BY <1>1, <2>1, CallFacts DEF SeekToRead, At
    <3>2. CASE Call(t).slot = 0
      BY <2>3, <3>2, FilesAssumption DEF Source, Handle, IsOpen, InPlace
    <3>3. CASE Call(t).slot /= 0
      <4>1. PICK i \in 1..2 : i = Call(t).slot
        BY <3>1, <3>3
      <4>2. g = thr[t].h[i]
        BY <2>3, <3>3, <4>1 DEF Source, Handle
      <4>3. g \in 2..MaxFds /\ fds[g].ino /= 0
        BY <1>6, <2>4, <4>2, HandleFacts
      <4> QED
        BY <4>3 DEF IsOpen
    <3> QED
      BY <3>2, <3>3
  <2> QED
    BY <1>1, <2>2, <2>4, <2>5, <2>6 DEF SeekFile, IsOpen, KernelType
<1>7. ASSUME NEW u \in Threads, NEW i \in 1..2, thr[u].h[i] /= 0
      PROVE  fds'[thr[u].h[i]].ino = fds[thr[u].h[i]].ino
  <2>1. thr[u].h[i] \in 1..MaxFds
    BY <1>7, HandleFacts
  <2> QED
    BY <1>2, <2>1 DEF InodesStay
<1>8. fds'[1].ino = fds[1].ino
  BY <1>2, FilesAssumption DEF InodesStay
<1>9. \A u \in Threads \ {t} : /\ thr'[u].ip = thr[u].ip /\ thr'[u].pc = thr[u].pc
                              /\ thr'[u].h = thr[u].h /\ thr'[u].ino = thr[u].ino
  BY <1>2, <1>3 DEF HandsStay, OthersStay
<1>10. ASSUME NEW i \in 1..2, thr'[t].h[i] /= 0
       PROVE  fds'[thr'[t].h[i]].ino = thr'[t].ino[i]
  <2>1. thr'[t].h = thr[t].h /\ thr'[t].ino = thr[t].ino
    BY <1>2 DEF HandsStay
  <2> QED
    BY <1>7, <1>10, <2>1 DEF InPlace
<1> QED
  BY <1>4, <1>5, <1>6, <1>7, <1>8, <1>9, <1>10, PlaceFrom

\* What a call that opens a file opens, and to which handle, if to one.
LEMMA OpensToHandles ==
  ASSUME ThreadsType, NEW t \in Threads,
         OpenFile(t) \/ ForceOpen(t) \/ OpenSource(t) \/ CreateDestination(t)
  PROVE  \E path, how :
           /\ path \in ToSet(Paths) /\ NewFile(path, how)
           /\ \A i \in 1..2 : \/ thr'[t].h[i] = thr[t].h[i] /\ thr'[t].ino[i] = thr[t].ino[i]
                              \/ thr'[t].h[i] = Opened(path, how) /\ thr'[t].ino[i] = names'[path]
<1>1. PICK c : c = Call(t)
  OBVIOUS
<1>2. CASE OpenFile(t) \/ ForceOpen(t)
  <2>1. c.slot \in 1..2 /\ c.path \in ToSet(Paths)
    BY <1>1, <1>2, CallFacts DEF OpenFile, ForceOpen, At
  <2>2. PICK how : /\ NewFile(c.path, how)
                   /\ \/ thr' = [thr EXCEPT ![t] = [@ EXCEPT !.pc = "force"]]
                      \/ \E ok : thr' = [thr EXCEPT ![t] = [Returned(@, ok) EXCEPT
                            !.h[c.slot] = Opened(c.path, how), !.ino[c.slot] = names'[c.path]]]
    <3>1. CASE OpenFile(t)
      BY <1>1, <3>1 DEF OpenFile
    <3>2. CASE ForceOpen(t)
      BY <1>1, <3>2 DEF ForceOpen
    <3> QED
      BY <1>2, <3>1, <3>2
  <2>3. PICK f, ino : f = Opened(c.path, how) /\ ino = names'[c.path]
    OBVIOUS
  <2>4. \A i \in 1..2 : \/ thr'[t].h[i] = thr[t].h[i] /\ thr'[t].ino[i] = thr[t].ino[i]
                        \/ thr'[t].h[i] = f /\ thr'[t].ino[i] = ino
    <3>1. CASE thr' = [thr EXCEPT ![t] = [@ EXCEPT !.pc = "force"]]
      BY <3>1 DEF ThreadsType, Idle
    <3>2. CASE thr' /= [thr EXCEPT ![t] = [@ EXCEPT !.pc = "force"]]
      <4>1. PICK ok : thr' = [thr EXCEPT ![t] = [Returned(@, ok) EXCEPT !.h[c.slot] = f,
                                                                         !.ino[c.slot] = ino]]
        BY <2>2, <2>3, <3>2
      <4>2. /\ thr'[t].h = [thr[t].h EXCEPT ![c.slot] = f]
            /\ thr'[t].ino = [thr[t].ino EXCEPT ![c.slot] = ino]
        BY <4>1 DEF ThreadsType, Idle, Returned
      <4> QED
        BY <2>1, <4>2 DEF ThreadsType
    <3> QED
      BY <3>1, <3>2
  <2> QED
    BY <2>1, <2>2, <2>3, <2>4
<1>3. CASE OpenSource(t) \/ CreateDestination(t)
  <2>1. PICK path, how : path \in ToSet(Paths) /\ NewFile(path, how)
    <3>1. c.src \in ToSet(Paths) /\ c.dst \in ToSet(Paths)
      BY <1>1, <1>3, CallFacts DEF OpenSource, CreateDestination, At
    <3> QED
      BY <1>1, <1>3, <3>1 DEF OpenSource, CreateDestination
  <2>2. thr'[t].h = thr[t].h /\ thr'[t].ino = thr[t].ino
    <3>1. CASE OpenSource(t)
      BY <3>1 DEF OpenSource, ThreadsType, Idle, Returned
    <3>2. CASE CreateDestination(t)
      BY <3>2 DEF CreateDestination, ThreadsType, Idle
    <3> QED
      BY <1>3, <3>1, <3>2
  <2> QED
    BY <2>1, <2>2
<1> QED
  BY <1>2, <1>3

LEMMA PlaceOpenSteps ==
  ASSUME FilesInv, lost = {}, InPlace, NEW t \in Threads,
         OpenFile(t) \/ ForceOpen(t) \/ OpenSource(t) \/ CreateDestination(t)
  PROVE  InPlace'
<1>1. ThreadsType
  BY DEF FilesInv
<1>2. UNCHANGED program
  BY DEF OpenFile, ForceOpen, OpenSource, CreateDestination
<1>3. PICK path, how :
        /\ path \in ToSet(Paths) /\ NewFile(path, how)
        /\ \A i \in 1..2 : \/ thr'[t].h[i] = thr[t].h[i] /\ thr'[t].ino[i] = thr[t].ino[i]
                           \/ thr'[t].h[i] = Opened(path, how) /\ thr'[t].ino[i] = names'[path]
  BY <1>1, OpensToHandles
<1>4. \A u \in Threads \ {t} : thr'[u] = thr[u]
  BY <1>1 DEF ThreadsType, OpenFile, ForceOpen, OpenSource, CreateDestination
<1>5. thr'[t].pc /= "read"
  <2>1. FileStep(t) /\ ~CheckSize(t) /\ ~SeekToRead(t)
    BY DEF FileStep, OpenFile, ForceOpen, OpenSource, CreateDestination, CheckSize, SeekToRead, At
  <2> QED
    BY <1>1, <2>1, ThreadFrame DEF GoesOn
<1> QED
  BY <1>2, <1>3, <1>4, <1>5, PlaceOpens

\* What a call that closes a descriptor closes: what is in no handle of the thread any more.
LEMMA ClosesOwn ==
  ASSUME ThreadsType, OwnInv, NEW t \in Threads \ lost,
         CloseFileHandle(t) \/ CloseSource(t) \/ CloseDestination(t) \/ CloseAgain(t)
  PROVE  \E f : /\ Close(t, f) /\ f /= 1
                /\ \A u \in Threads \ {t} : thr'[u] = thr[u]
                /\ thr'[t].pc /= "read"
                /\ \A i \in 1..2 : thr'[t].h[i] /= 0 =>
                      thr'[t].h[i] = thr[t].h[i] /\ thr'[t].ino[i] = thr[t].ino[i] /\ thr'[t].h[i] /= f
<1>1. ThreadsType /\ OwnInv
  OBVIOUS
<1>2. PICK H, A, I, L : H = Hands /\ A = Agains /\ I = Inodes /\ L = lost
  OBVIOUS
<1>3. Own(H, A, I, L) /\ t \in Threads \ L
  BY <1>1, <1>2 DEF OwnInv
<1>4. /\ H[t][1] = thr[t].h[1] /\ H[t][2] = thr[t].h[2]
      /\ H[t][3] = thr[t].src /\ H[t][4] = thr[t].dst /\ A[t] = thr[t].again
  BY <1>2, HandsOf
<1>5. CASE CloseFileHandle(t)
  <2>1. PICK s : s = Call(t).slot
    OBVIOUS
  <2>2. s \in 1..2
    BY <1>1, <1>5, <2>1, CallFacts DEF CloseFileHandle, At
  <2>3. PICK f : f = H[t][s]
    OBVIOUS
  <2>4. Close(t, f)
    BY <1>4, <1>5, <2>1, <2>2, <2>3 DEF CloseFileHandle, Handle
  <2>5. thr' = [thr EXCEPT ![t] = [Returned(@, TRUE) EXCEPT !.h[s] = 0]]
    BY <1>5, <2>1 DEF CloseFileHandle
  <2>6. /\ \A u \in Threads \ {t} : thr'[u] = thr[u]
        /\ thr'[t].pc = "call" /\ thr'[t].ino = thr[t].ino
        /\ thr'[t].h = [thr[t].h EXCEPT ![s] = 0]
    BY <1>1, <2>5 DEF ThreadsType, Idle, Returned
  <2>7. f /= 1
    BY <1>3, <2>2, <2>3 DEF Own, OwnType
  <2>8. ASSUME NEW i \in 1..2, thr'[t].h[i] /= 0
        PROVE  thr'[t].h[i] = thr[t].h[i] /\ thr'[t].ino[i] = thr[t].ino[i] /\ thr'[t].h[i] /= f
    <3>1. i /= s /\ thr'[t].h[i] = thr[t].h[i]
      BY <1>1, <2>2, <2>6, <2>8 DEF ThreadsType
    <3>2. H[t][i] = thr[t].h[i] /\ i \in 1..4 /\ s \in 1..4
      BY <1>4, <2>2
    <3>3. H[t][i] /= 0 /\ H[t][i] /= f
      BY <1>3, <2>3, <2>8, <3>1, <3>2 DEF Own
    <3> QED
      BY <2>6, <3>1, <3>2, <3>3
  <2> QED
    BY <2>4, <2>6, <2>7, <2>8
<1>6. CASE CloseSource(t) \/ CloseDestination(t) \/ CloseAgain(t)
  <2>1. PICK f : /\ Close(t, f)
                 /\ f = H[t][3] \/ f = H[t][4] \/ f = A[t]
    BY <1>4, <1>6 DEF CloseSource, CloseDestination, CloseAgain, SecondClosed
  <2>2. /\ \A u \in Threads \ {t} : thr'[u] = thr[u]
        /\ thr'[t].pc /= "read" /\ thr'[t].ino = thr[t].ino /\ thr'[t].h = thr[t].h
    <3>1. CASE CloseSource(t)
      BY <1>1, <3>1 DEF CloseSource, ThreadsType, Idle
    <3>2. CASE CloseDestination(t)
      BY <1>1, <3>2 DEF CloseDestination, ThreadsType, Idle
    <3>3. CASE CloseAgain(t)
      BY <1>1, <3>3 DEF CloseAgain, ThreadsType, Idle, Returned
    <3> QED
      BY <1>6, <3>1, <3>2, <3>3
  <2>3. f /= 1
    BY <1>3, <2>1 DEF Own, OwnType
  <2>4. ASSUME NEW i \in 1..2, thr'[t].h[i] /= 0
        PROVE  thr'[t].h[i] = thr[t].h[i] /\ thr'[t].ino[i] = thr[t].ino[i] /\ thr'[t].h[i] /= f
    <3>1. H[t][i] = thr[t].h[i] /\ H[t][i] /= 0 /\ i \in 1..4 /\ i /= 3 /\ i /= 4
      BY <1>4, <2>2, <2>4
    <3>2. H[t][i] /= f
      BY <1>3, <2>1, <3>1 DEF Own
    <3> QED
      BY <2>2, <3>1, <3>2
  <2> QED
    BY <2>1, <2>2, <2>3, <2>4
<1> QED
  BY <1>5, <1>6

LEMMA PlaceCloseSteps ==
  ASSUME FilesInv, lost = {}, lost' = {}, InPlace, NEW t \in Threads,
         CloseFileHandle(t) \/ CloseSource(t) \/ CloseDestination(t) \/ CloseAgain(t)
  PROVE  InPlace'
<1>1. UNCHANGED program
  BY DEF CloseFileHandle, CloseSource, CloseDestination, CloseAgain
<1> QED
  BY <1>1, ClosesOwn, PlaceCloses DEF FilesInv

LEMMA PlaceStep ==
  ASSUME AllGuarded, FilesInv, MutexInv, PlaceInv, [Next]_fileVars
  PROVE  PlaceInv'
<1> SUFFICES ASSUME lost' = {} PROVE InPlace'
  BY DEF PlaceInv
<1>1. lost = {} /\ InPlace
  BY LostGrows DEF PlaceInv
<1>2. ASSUME UNCHANGED <<fds, program>>,
             \A u \in Threads : /\ thr'[u].ip = thr[u].ip /\ thr'[u].pc = thr[u].pc
                               /\ thr'[u].h = thr[u].h /\ thr'[u].ino = thr[u].ino
      PROVE  InPlace'
  <2>1. fds'[1].ino = 1
    BY <1>1, <1>2 DEF InPlace
  <2>2. ASSUME NEW u \in Threads, NEW i \in 1..2, thr'[u].h[i] /= 0
        PROVE  fds'[thr'[u].h[i]].ino = thr'[u].ino[i]
    <3>1. thr'[u].h = thr[u].h /\ thr'[u].ino = thr[u].ino /\ fds' = fds
      BY <1>2
    <3>2. thr[u].h[i] /= 0
      BY <2>2, <3>1
    <3>3. fds[thr[u].h[i]].ino = thr[u].ino[i]
      BY <1>1, <3>2 DEF InPlace
    <3> QED
      BY <3>1, <3>3
  <2>3. ASSUME NEW u \in Threads, Reading(u)', Source(u)' /= 0
        PROVE  fds'[Source(u)'].pos = Call(u)'.from
    <3>1. /\ thr'[u].ip = thr[u].ip /\ thr'[u].pc = thr[u].pc /\ thr'[u].h = thr[u].h
          /\ fds' = fds /\ program' = program
      BY <1>2
    <3>2. Call(u)' = Call(u)
      BY <3>1 DEF Call
    <3>3. Reading(u)
      BY <2>3, <3>1, <3>2 DEF Reading, Call
    <3>4. Source(u)' = Source(u)
      BY <3>1, <3>2 DEF Source, Handle, Call
    <3>5. fds[Source(u)].pos = Call(u).from
      BY <1>1, <2>3, <3>3, <3>4 DEF InPlace
    <3> QED
      BY <3>1, <3>2, <3>4, <3>5
  <2> QED
    BY <2>1, <2>2, <2>3 DEF InPlace
<1>3. CASE UNCHANGED fileVars
  BY <1>2, <1>3 DEF fileVars
<1>4. ASSUME NEW t \in Threads, CompleteRead(t)
      PROVE  InPlace'
  <2>1. UNCHANGED <<fds, program>> /\ \A u \in Threads : thr'[u].ip = thr[u].ip /\ thr'[u].pc = thr[u].pc
    BY <1>4, RequestFrame DEF FilesInv
  <2>2. HandsStay
    BY <1>4, KeepStep DEF FilesInv, KeepsHands
  <2> QED
    BY <1>2, <2>1, <2>2 DEF HandsStay
<1>5. ASSUME NEW t \in Threads, FileStep(t) \/ ThreadStep(t)
      PROVE  InPlace'
  <2>1. CASE KeepsHands(t)
    BY <1>1, <1>5, <2>1, PlaceKeeps
  <2>2. CASE OpenFile(t) \/ ForceOpen(t) \/ OpenSource(t) \/ CreateDestination(t)
    BY <1>1, <2>2, PlaceOpenSteps
  <2>3. CASE CloseFileHandle(t) \/ CloseSource(t) \/ CloseDestination(t) \/ CloseAgain(t)
    BY <1>1, <2>3, PlaceCloseSteps
  <2> QED
    BY <1>5, <2>1, <2>2, <2>3 DEF FileStep, ThreadStep, KeepsHands
<1> QED
  BY <1>3, <1>4, <1>5 DEF Next, AllOver

LEMMA PlaceInit == Init => PlaceInv
BY FilesAssumption DEF Init, Idle, NoFd, PlaceInv, InPlace, Reading

\* What a thread reads is what is due to it.
ReadsDue ==
  \A t \in Threads : Reading(t) /\ IsRegular(Source(t))
                    => BytesAt(Source(t), Call(t).n) = DueTo(t, Call(t))

LEMMA DueFacts ==
  ASSUME FilesInv, lost = {}, InPlace
  PROVE  ReadsDue
<1> SUFFICES ASSUME NEW t \in Threads, Reading(t), IsRegular(Source(t))
             PROVE  BytesAt(Source(t), Call(t).n) = DueTo(t, Call(t))
  BY DEF ReadsDue
<1>1. PICK f : f = Source(t)
  OBVIOUS
<1>2. f /= 0
  BY <1>1, FilesAssumption DEF IsOpen, IsRegular
<1>3. fds[f].pos = Call(t).from
  BY <1>1, <1>2 DEF InPlace
<1>4. /\ Call(t).slot \in 0..2 /\ (Call(t).slot = 0 => f = 1)
      /\ Call(t).slot /= 0 => f = thr[t].h[Call(t).slot]
  BY <1>1, <1>2, SourceFacts
<1>5. fds[f].ino = IF Call(t).slot = 0 THEN 1 ELSE thr[t].ino[Call(t).slot]
  BY <1>2, <1>4 DEF InPlace
<1> QED
  BY <1>1, <1>3, <1>5 DEF BytesAt, DueTo

(***************************************************************************)
(* A read with a handle of the thread's own gives the bytes of the file    *)
(* that it opened, from where it asked, and so does a read with the shared *)
(* handle when every program uses it under the mutex, as long as nobody    *)
(* has lost a descriptor: although lseek() and read() are separate calls   *)
(* (tinybase-platform-linux.c:237), and descriptors are used again.        *)
(***************************************************************************)
THEOREM ReadsTakePlace ==
  ASSUME AllGuarded PROVE Spec => [](lost = {} => ReadsDue)
<1> DEFINE Inv == FilesInv /\ MutexInv /\ PlaceInv
<1>1. Init => Inv
  BY FilesInit, MutexInit, PlaceInit
<1>2. Inv /\ [Next]_fileVars => Inv'
  BY FilesStep, MutexStep, PlaceStep DEF FilesInv
<1>3. Inv => (lost = {} => ReadsDue)
  BY DueFacts DEF PlaceInv
<1> QED
  BY <1>1, <1>2, <1>3, PTL DEF Spec

-------------------------------------------------------------------------------

(***************************************************************************)
(* What is in the buffers, in programs without asynchronous reads: these   *)
(* write to the start of the buffer, wherever WriteCur is.                 *)
(***************************************************************************)
NoRequests == \A p \in Programs, t \in Threads : \A i \in 1..Len(p[t]) : p[t][i].fn /= "aread"

\* The last bytes that were put in the buffer are those due.
Exact(x) ==
  /\ x.aio = "none" /\ x.cur \in 0..BufferSize /\ DOMAIN x.buf = 1..BufferSize
  /\ \E S : x.due \in Seq(S)
  /\ Len(x.due) \in 0..x.cur
  /\ \A k \in 1..Len(x.due) : x.buf[x.cur - Len(x.due) + k] = x.due[k]

\* Who is behind the look at the size has room for what it reads.
RoomFor(u) ==
  thr[u].ip =< Len(program[u]) /\ Call(u).fn = "read" /\ thr[u].pc \in {"seek", "read"}
  => HasRoom(u, Call(u).n)

ExactInv == lost = {} => \A u \in Threads : Exact(thr[u]) /\ RoomFor(u)

LEMMA ExactMeans ==
  ASSUME NEW x, Exact(x)
  PROVE  SubSeq(x.buf, x.cur - Len(x.due) + 1, x.cur) = x.due
<1>1. PICK cur, due, n : cur = x.cur /\ due = x.due /\ n = Len(x.due)
  OBVIOUS
<1>2. PICK S : due \in Seq(S)
  BY <1>1 DEF Exact
<1>3. cur \in Nat /\ n \in 0..cur
  BY <1>1, FilesAssumption DEF Exact
<1>4. due = [k \in 1..n |-> due[k]] /\ DOMAIN due = 1..n
  BY <1>1, <1>2, LenProperties
<1>5. PICK T : T = {x.buf[i] : i \in cur - n + 1 .. cur}
  OBVIOUS
<1>6. \A i \in cur - n + 1 .. cur : x.buf[i] \in T
  BY <1>5
<1>7. cur - n + 1 \in Int /\ cur \in Int
  BY <1>3
<1>8. PICK s : s = SubSeq(x.buf, cur - n + 1, cur)
  OBVIOUS
<1>9. /\ s \in Seq(T)
      /\ Len(s) = IF cur - n + 1 =< cur THEN cur - (cur - n + 1) + 1 ELSE 0
      /\ \A i \in 1 .. cur - (cur - n + 1) + 1 : s[i] = x.buf[cur - n + 1 + i - 1]
  BY <1>6, <1>7, <1>8, SubSeqProperties
<1>10. Len(s) = n
  BY <1>3, <1>9
<1>11. s = [k \in 1..n |-> s[k]] /\ DOMAIN s = 1..n
  BY <1>9, <1>10, LenProperties
<1>12. ASSUME NEW k \in 1..n
       PROVE  s[k] = due[k]
  <2>1. k \in 1 .. cur - (cur - n + 1) + 1 /\ cur - n + 1 + k - 1 = cur - n + k
    BY <1>3
  <2>2. s[k] = x.buf[cur - n + k]
    BY <1>9, <2>1
  <2> QED
    BY <1>1, <2>2 DEF Exact
<1>13. s = due
  BY <1>4, <1>11, <1>12
<1> QED
  BY <1>1, <1>8, <1>13

\* The bytes s go in behind those that are in the buffer.
LEMMA ExactFilled ==
  ASSUME NEW x, Exact(x), NEW s, \E S : s \in Seq(S), NEW b, b = Filled(x, s)
  PROVE  /\ DOMAIN b = 1..BufferSize
         /\ \A k \in 1..Len(x.due) : b[x.cur - Len(x.due) + k] = x.due[k]
         /\ x.cur + Len(s) =< BufferSize => \A k \in 1..Len(s) : b[x.cur + k] = s[k]
<1>1. PICK cur, n, m : cur = x.cur /\ n = Len(x.due) /\ m = Len(s)
  OBVIOUS
<1>2. BufferSize \in Nat /\ cur \in 0..BufferSize /\ n \in 0..cur
  BY <1>1, FilesAssumption DEF Exact
<1>3. m \in Nat /\ DOMAIN s = 1..m
  BY <1>1, LenProperties
<1>4. b = [k \in 1..BufferSize |-> IF k - cur \in 1..m THEN s[k - cur] ELSE x.buf[k]]
  BY <1>1, <1>3 DEF Filled, Exact
<1>5. ASSUME NEW k \in 1..n
      PROVE  b[cur - n + k] = x.due[k]
  <2>1. PICK i : i = cur - n + k
    OBVIOUS
  <2>2. i \in 1..BufferSize /\ i - cur \notin 1..m
    BY <1>2, <1>3, <2>1
  <2>3. b[i] = x.buf[i]
    BY <1>4, <2>2
  <2> QED
    BY <1>1, <2>1, <2>3 DEF Exact
<1>6. ASSUME cur + m =< BufferSize, NEW k \in 1..m
      PROVE  b[cur + k] = s[k]
  <2>1. PICK i : i = cur + k
    OBVIOUS
  <2>2. i \in 1..BufferSize /\ i - cur = k
    BY <1>2, <1>3, <1>6, <2>1
  <2>3. b[i] = s[k]
    BY <1>4, <2>2
  <2> QED
    BY <2>1, <2>3
<1> QED
  BY <1>1, <1>4, <1>5, <1>6

LEMMA ExactRead ==
  ASSUME FilesInv, RangeInv, lost = {}, InPlace, NEW t \in Threads, ReadBytes(t),
         Exact(thr[t]), RoomFor(t)
  PROVE  Exact(thr'[t])
<1>1. ThreadsType
  BY DEF FilesInv
<1>2. PICK x, f, n, s, b : /\ x = thr[t] /\ f = Source(t) /\ n = Call(t).n
                           /\ s = BytesAt(f, n) /\ b = Filled(x, s)
  OBVIOUS
<1>3. Reading(t) /\ n \in Nat \ {0}
  BY <1>1, <1>2, CallFacts DEF ReadBytes, At, Reading
<1>4. (\E S : s \in Seq(S)) /\ Len(s) \in 0..n
  BY <1>2, <1>3, BytesFacts
<1>5. /\ DOMAIN b = 1..BufferSize
      /\ \A k \in 1..Len(x.due) : b[x.cur - Len(x.due) + k] = x.due[k]
      /\ x.cur + Len(s) =< BufferSize => \A k \in 1..Len(s) : b[x.cur + k] = s[k]
  BY <1>2, <1>4, ExactFilled
<1>6. CASE Len(s) /= n
  <2>1. thr' = [thr EXCEPT ![t] = Returned([thr[t] EXCEPT !.buf = b], FALSE)]
    BY <1>2, <1>6 DEF ReadBytes, Source
  <2>2. /\ thr'[t].buf = b /\ thr'[t].cur = x.cur /\ thr'[t].due = x.due /\ thr'[t].aio = x.aio
    BY <1>1, <1>2, <2>1 DEF ThreadsType, Idle, Returned
  <2> QED
    BY <1>2, <1>5, <2>2 DEF Exact
<1>7. CASE Len(s) = n
  <2>1. PICK d : /\ thr' = [thr EXCEPT ![t] = [Returned([thr[t] EXCEPT !.buf = b], TRUE) EXCEPT
                              !.cur = @ + n, !.due = d]]
                 /\ d = << >> \/ d = DueTo(t, Call(t))
    BY <1>2, <1>7 DEF ReadBytes, Source
  <2>2. thr'[t].buf = b /\ thr'[t].cur = x.cur + n /\ thr'[t].due = d /\ thr'[t].aio = x.aio
    BY <1>1, <1>2, <2>1 DEF ThreadsType, Idle, Returned
  <2>3. x.cur + n \in 0..BufferSize /\ x.cur \in Nat
    BY <1>2, <1>3, FilesAssumption DEF Exact, RoomFor, Reading, HasRoom
  <2>4. CASE d = << >>
    <3>1. Len(d) = 0 /\ d \in Seq({})
      BY <2>4, EmptySeq
    <3> QED
      BY <1>2, <1>5, <2>2, <2>3, <3>1 DEF Exact
  <2>5. CASE d = DueTo(t, Call(t))
    <3>1. IsRegular(f)
      <4>1. Len(<< >>) = 0
        BY EmptySeq
      <4> QED
        BY <1>2, <1>3, <1>7, <4>1 DEF BytesAt
    <3>2. d = s
      BY <1>2, <1>3, <2>5, <3>1, DueFacts DEF ReadsDue
    <3>3. \A k \in 1..n : b[x.cur + k] = s[k]
      BY <1>5, <1>7, <2>3
    <3>4. PICK y : y = thr'[t]
      OBVIOUS
    <3>5. y.aio = "none" /\ y.cur = x.cur + n /\ y.cur \in 0..BufferSize /\ DOMAIN y.buf = 1..BufferSize
      BY <1>2, <1>5, <2>2, <2>3, <3>4 DEF Exact
    <3>6. y.due = s /\ Len(y.due) = n /\ n \in 0..y.cur
      BY <1>3, <1>7, <2>2, <2>3, <3>2, <3>4, <3>5
    <3>7. ASSUME NEW k \in 1..n
          PROVE  y.buf[y.cur - n + k] = y.due[k]
      <4>1. y.cur - n + k = x.cur + k
        BY <1>3, <2>3, <3>5
      <4>2. b[x.cur + k] = s[k]
        BY <3>3
      <4>3. y.buf = b /\ y.due = s
        BY <2>2, <3>2, <3>4
      <4> QED
        BY <4>1, <4>2, <4>3
    <3> QED
      BY <1>4, <3>4, <3>5, <3>6, <3>7 DEF Exact
  <2> QED
    BY <2>1, <2>4, <2>5
<1> QED
  BY <1>6, <1>7

LEMMA ExactStep ==
  ASSUME NoRequests, FilesInv, RangeInv, PlaceInv, ExactInv, [Next]_fileVars
  PROVE  ExactInv'
<1> SUFFICES ASSUME lost' = {} PROVE \A u \in Threads : Exact(thr'[u]) /\ RoomFor(u)'
  BY DEF ExactInv
<1>1. lost = {} /\ InPlace /\ (\A u \in Threads : Exact(thr[u]) /\ RoomFor(u)) /\ ThreadsType
  BY LostGrows DEF PlaceInv, ExactInv, FilesInv
<1>2. ASSUME NEW u \in Threads, thr'[u].ip = thr[u].ip, thr'[u].pc = thr[u].pc, KeepsBuffer(u),
             UNCHANGED program
      PROVE  Exact(thr'[u]) /\ RoomFor(u)'
  BY <1>1, <1>2 DEF Exact, RoomFor, KeepsBuffer, HasRoom, Call
<1>3. CASE UNCHANGED fileVars
  BY <1>2, <1>3 DEF fileVars, KeepsBuffer
<1>4. ASSUME NEW t \in Threads, CompleteRead(t)
      PROVE  FALSE
  BY <1>1, <1>4 DEF CompleteRead, Exact
<1>5. ASSUME NEW t \in Threads, FileStep(t) \/ ThreadStep(t), NEW u \in Threads
      PROVE  Exact(thr'[u]) /\ RoomFor(u)'
  <2>1. OthersStay(t) /\ GoesOn(t) /\ BufferStays(t) /\ UNCHANGED program
    BY <1>1, <1>5, ThreadFrame, ProgramStays
  <2>2. CASE u /= t
    BY <1>2, <2>1, <2>2 DEF OthersStay
  <2>3. CASE u = t
    <3>1. ~ReadFileAsync(t)
      <4>1. thr[t].ip =< Len(program[t]) => thr[t].ip \in 1..Len(program[t]) /\ program \in Programs
        BY <1>1, ProgramsAssumption DEF ThreadsType
      <4> QED
        BY ZenonT(30), <4>1 DEF NoRequests, ReadFileAsync, At, Call
    <3>2. CASE WaitOnIoCompletion(t)
      <4>1. thr' = [thr EXCEPT ![t] = Returned(@, FALSE)]
        BY <1>1, <3>2 DEF WaitOnIoCompletion, Exact
      <4>2. KeepsBuffer(t) /\ thr'[t].pc = "call"
        BY <1>1, <4>1 DEF KeepsBuffer, ThreadsType, Idle, Returned
      <4> QED
        BY <1>1, <2>3, <4>2 DEF Exact, RoomFor, KeepsBuffer
    <3>3. CASE ReadBytes(t)
      <4>1. Exact(thr'[t])
        BY <1>1, <3>3, ExactRead
      <4>2. thr'[t].pc = "call"
        <5>1. PICK b, c, d, ok :
                \/ thr' = [thr EXCEPT ![t] = Returned([thr[t] EXCEPT !.buf = b], ok)]
                \/ thr' = [thr EXCEPT ![t] = [Returned([thr[t] EXCEPT !.buf = b], ok) EXCEPT
                                               !.cur = c, !.due = d]]
          BY <3>3 DEF ReadBytes
        <5>2. CASE thr' = [thr EXCEPT ![t] = Returned([thr[t] EXCEPT !.buf = b], ok)]
          BY <1>1, <5>2 DEF ThreadsType, Idle, Returned
        <5>3. CASE thr' = [thr EXCEPT ![t] = [Returned([thr[t] EXCEPT !.buf = b], ok) EXCEPT
                                               !.cur = c, !.due = d]]
          BY <1>1, <5>3 DEF ThreadsType, Idle, Returned
        <5> QED
          BY <5>1, <5>2, <5>3
      <4> QED
        BY <2>3, <4>1, <4>2 DEF RoomFor
    <3>4. CASE ~WaitOnIoCompletion(t) /\ ~ReadBytes(t)
      <4>1. KeepsBuffer(t)
        BY <2>1, <3>1, <3>4 DEF BufferStays
      <4>2. Exact(thr'[t])
        BY <1>1, <4>1 DEF Exact, KeepsBuffer
      <4>3. ASSUME thr'[t].pc \in {"seek", "read"}, thr'[t].ip =< Len(program[t])
            PROVE  HasRoom(t, Call(t).n)
        <5>1. CASE CheckSize(t)
          <6>1. HasRoom(t, Call(t).n) \/ thr'[t].pc = "call"
            BY <1>1, <5>1 DEF CheckSize, ThreadsType, Idle, Returned
          <6> QED
            BY <4>3, <6>1
        <5>2. CASE SeekToRead(t)
          BY <1>1, <5>2 DEF SeekToRead, At, RoomFor
        <5> QED
          BY <2>1, <4>3, <5>1, <5>2 DEF GoesOn
      <4>4. RoomFor(t)'
        <5>1. thr'[t].pc \in {"seek", "read"} => Call(t)' = Call(t) /\ thr'[t].cur = thr[t].cur
          BY <2>1, <4>1 DEF GoesOn, Call, KeepsBuffer
        <5> QED
          BY <2>1, <4>3, <5>1 DEF RoomFor, HasRoom
      <4> QED
        BY <2>3, <4>2, <4>4
    <3> QED
      BY <3>2, <3>3, <3>4
  <2> QED
    BY <2>2, <2>3
<1> QED
  BY <1>3, <1>4, <1>5 DEF Next, AllOver

LEMMA ExactInit == Init => ExactInv
<1> SUFFICES ASSUME Init, NEW u \in Threads
             PROVE  Exact(thr[u]) /\ RoomFor(u)
  BY DEF ExactInv
<1>1. /\ thr[u].aio = "none" /\ thr[u].cur = 0 /\ thr[u].due = << >> /\ thr[u].pc = "call"
      /\ thr[u].buf = [k \in 1..BufferSize |-> "?"]
  BY DEF Init, Idle
<1>2. Len(<< >>) = 0 /\ << >> \in Seq({})
  BY EmptySeq
<1>3. DOMAIN thr[u].buf = 1..BufferSize
  BY <1>1
<1>4. 0 \in 0..BufferSize
  BY FilesAssumption
<1> QED
  BY <1>1, <1>2, <1>3, <1>4 DEF Exact, RoomFor

(***************************************************************************)
(* A read that succeeds gives the bytes of the file its caller opened,     *)
(* from where it asked, behind what the buffer had: for any threads and    *)
(* programs that use the shared handle under the mutex and do not read     *)
(* asynchronously, as long as nobody has lost a descriptor.                *)
(***************************************************************************)
THEOREM ReadsAreExact ==
  ASSUME AllGuarded, NoRequests PROVE Spec => [](lost = {} => ReadsExact)
<1> DEFINE Inv == FilesInv /\ RangeInv /\ MutexInv /\ PlaceInv /\ ExactInv
<1>1. Init => Inv
  BY FilesInit, RangeInit, MutexInit, PlaceInit, ExactInit
<1>2. Inv /\ [Next]_fileVars => Inv'
  BY FilesStep, RangeStep, MutexStep, PlaceStep, ExactStep DEF FilesInv
<1>3. Inv => (lost = {} => ReadsExact)
  BY ExactMeans DEF ExactInv, ReadsExact, ReadExact
<1> QED
  BY <1>1, <1>2, <1>3, PTL DEF Spec

-------------------------------------------------------------------------------

(***************************************************************************)
(* What is left when all threads are over: a thread holds a descriptor in  *)
(* a handle only between the open and the close of its program, and in a   *)
(* local only inside of DuplicateFile().                                   *)
(***************************************************************************)

\* Behind an open to slot k, and before the next close of it: s is a program, i a
\* call of it; and behind a comparison.
SlotOpen(s, i, k) ==
  \E j \in 1..i-1 : /\ s[j].fn = "open" /\ s[j].slot = k
                    /\ \A m \in j+1..i-1 : ~(s[m].fn = "close" /\ s[m].slot = k)

Compared(s, i) == \E j \in 1..i-1 : s[j].fn = "equal"

\* A program that opens a handle again only when it has closed it, closes all, and
\* compares at most once.
Tidy(s) ==
  /\ \A i \in 1..Len(s) : s[i].fn = "open" => ~SlotOpen(s, i, s[i].slot)
  /\ \A k \in 1..2 : ~SlotOpen(s, Len(s) + 1, k)
  /\ \A i \in 1..Len(s) : s[i].fn = "equal" => ~Compared(s, i)

AllTidy == \A p \in Programs, t \in Threads : Tidy(p[t])

\* Only a thread that is over is joined, and none is inside of a call behind its last.
EndInv ==
  \A u \in Threads : /\ thr[u].ip =< Len(program[u]) + 1
                     /\ thr[u].pc /= "call" => thr[u].ip =< Len(program[u])
                     /\ thr[u].state = "joined" => thr[u].ip > Len(program[u])

LocalsInv ==
  \A u \in Threads :
    /\ thr[u].src /= 0 => thr[u].pc \in {"create", "size", "copy", "closeSource"}
    /\ thr[u].dst /= 0 => thr[u].pc \in {"size", "copy", "closeSource", "closeDestination"}

SlotsInv ==
  \A u \in Threads, k \in 1..2 : thr[u].h[k] /= 0 => SlotOpen(program[u], thr[u].ip, k)

\* Every descriptor but the shared one is known to a thread while it is open.
Knows(x, f) == \/ x.h[1] = f \/ x.h[2] = f
               \/ x.src = f \/ x.dst = f \/ x.again = f

KnownInv == \A f \in 2..MaxFds : fds[f].ino /= 0 => \E u \in Threads : Knows(thr[u], f)

\* The memory of a comparison is that of its buffers that are not empty.
One(buf)   == IF buf /= << >> THEN 1 ELSE 0
Unequal(x) == IF x.bufA /= << >> <=> x.bufB /= << >> THEN 0 ELSE 1

MapsOf(u) ==
  /\ thr[u].pc \in {"readA", "readB", "compare"} => Call(u).fn = "equal"
  /\ ~Compared(program[u], thr[u].ip) /\ thr[u].pc \notin {"readB", "compare"}
       => thr[u].bufA = << >> /\ thr[u].bufB = << >> /\ maps[u] = 0
  /\ thr[u].pc = "readB" => thr[u].bufB = << >> /\ maps[u] = One(thr[u].bufA)
  /\ thr[u].pc = "compare" => maps[u] = One(thr[u].bufA) + One(thr[u].bufB)
  /\ Compared(program[u], thr[u].ip) => maps[u] = Unequal(thr[u])

MapsInv == DOMAIN maps = Threads /\ \A u \in Threads : MapsOf(u)

LEMMA SlotOn ==
  ASSUME NEW s, NEW i \in Nat \ {0}, NEW k
  PROVE  /\ SlotOpen(s, i, k) /\ ~(s[i].fn = "close" /\ s[i].slot = k) => SlotOpen(s, i + 1, k)
         /\ s[i].fn = "open" /\ s[i].slot = k => SlotOpen(s, i + 1, k)
<1>1. ASSUME SlotOpen(s, i, k), ~(s[i].fn = "close" /\ s[i].slot = k)
      PROVE  SlotOpen(s, i + 1, k)
  <2>1. PICK j \in 1..i-1 : /\ s[j].fn = "open" /\ s[j].slot = k
                            /\ \A m \in j+1..i-1 : ~(s[m].fn = "close" /\ s[m].slot = k)
    BY <1>1 DEF SlotOpen
  <2>2. j \in 1 .. (i+1)-1
    OBVIOUS
  <2>3. ASSUME NEW m \in j+1 .. (i+1)-1
        PROVE  ~(s[m].fn = "close" /\ s[m].slot = k)
    <3>1. m = i \/ m \in j+1..i-1
      OBVIOUS
    <3> QED
      BY <1>1, <2>1, <3>1
  <2> QED
    BY <2>1, <2>2, <2>3 DEF SlotOpen
<1>2. ASSUME s[i].fn = "open", s[i].slot = k
      PROVE  SlotOpen(s, i + 1, k)
  <2>1. i \in 1 .. (i+1)-1 /\ \A m \in i+1 .. (i+1)-1 : FALSE
    OBVIOUS
  <2> QED
    BY <1>2, <2>1 DEF SlotOpen
<1> QED
  BY <1>1, <1>2

LEMMA ComparedOn ==
  ASSUME NEW s, NEW i \in Nat \ {0}
  PROVE  Compared(s, i + 1) <=> Compared(s, i) \/ s[i].fn = "equal"
<1>1. \A j : j \in 1 .. (i+1)-1 <=> j \in 1..i-1 \/ j = i
  OBVIOUS
<1> QED
  BY <1>1 DEF Compared

\* A thread that makes a step is running, and in a call.
LEMMA InACall ==
  ASSUME NEW t \in Threads, FileStep(t) \/ ThreadStep(t)
  PROVE  thr[t].state = "on" /\ thr[t].ip =< Len(program[t])
BY DEF FileStep, ThreadStep, At, OpenFile, ForceOpen, CloseFileHandle, RemoveFile, CheckSize,
       SeekToRead, ReadBytes, ReadFileAsync, WaitOnIoCompletion, SeekToWrite, WriteBytes,
       CompareSizes, ReadFileA, ReadFileB, CompareFiles, OpenSource, CreateDestination,
       SizeOfSource, CopyBytes, CloseSource, CloseDestination, CloseAgain, LockOnMutex,
       UnlockMutex, IncreaseSemaphore, WaitOnSemaphore, InitThread, WaitOnThread

\* A thread is joined by another one only, and when it is over.
StateStays(t) ==
  \A u \in Threads : thr'[u].state = "joined" => thr[u].state = "joined" \/ (u /= t /\ Ended(u))

\* Only a comparison touches its buffers and maps memory.
MemoryStays(t) ==
  /\ \A u \in Threads \ {t} : thr'[u].bufA = thr[u].bufA /\ thr'[u].bufB = thr[u].bufB
  /\ \/ thr'[t].bufA = thr[t].bufA /\ thr'[t].bufB = thr[t].bufB /\ UNCHANGED maps
     \/ ReadFileA(t) \/ ReadFileB(t) \/ CompareFiles(t)

LEMMA MemoryFrame ==
  ASSUME ThreadsType, NEW t \in Threads, FileStep(t) \/ ThreadStep(t) \/ CompleteRead(t)
  PROVE  StateStays(t) /\ MemoryStays(t)
<1> USE DEF ThreadsType, Idle, Returned, StateStays, MemoryStays
<1>1. CASE OpenFile(t)
  <2>1. CASE thr' = [thr EXCEPT ![t] = [@ EXCEPT !.pc = "force"]]
    BY <1>1, <2>1 DEF OpenFile
  <2>2. CASE \E f, ino, ok, s : thr' = [thr EXCEPT ![t] = [Returned(@, ok) EXCEPT !.h[s] = f, !.ino[s] = ino]]
    <3>1. PICK f, ino, ok, s : thr' = [thr EXCEPT ![t] = [Returned(@, ok) EXCEPT !.h[s] = f, !.ino[s] = ino]]
      BY <2>2
    <3> QED
      BY <1>1, <3>1 DEF OpenFile
  <2> QED
    BY <1>1, <2>1, <2>2 DEF OpenFile
<1>2. CASE ForceOpen(t)
  <2>1. PICK f, ino, ok, s : thr' = [thr EXCEPT ![t] = [Returned(@, ok) EXCEPT !.h[s] = f, !.ino[s] = ino]]
    BY <1>2 DEF ForceOpen
  <2> QED
    BY <1>2, <2>1 DEF ForceOpen
<1>3. CASE CloseFileHandle(t)
  BY <1>3 DEF CloseFileHandle
<1>4. CASE RemoveFile(t)
  BY <1>4 DEF RemoveFile
<1>5. CASE CheckSize(t)
  BY <1>5 DEF CheckSize
<1>6. CASE SeekToRead(t)
  BY <1>6 DEF SeekToRead
<1>7. CASE ReadFileAsync(t)
  BY <1>7 DEF ReadFileAsync
<1>8. CASE WaitOnIoCompletion(t)
  BY <1>8 DEF WaitOnIoCompletion
<1>9. CASE SeekToWrite(t)
  BY <1>9 DEF SeekToWrite
<1>10. CASE CompareSizes(t)
  BY <1>10 DEF CompareSizes
<1>11. CASE CompareFiles(t)
  BY <1>11 DEF CompareFiles
<1>12. CASE SizeOfSource(t)
  BY <1>12 DEF SizeOfSource
<1>13. CASE CloseSource(t)
  BY <1>13 DEF CloseSource
<1>14. CASE LockOnMutex(t)
  BY <1>14 DEF LockOnMutex
<1>15. CASE UnlockMutex(t)
  BY <1>15 DEF UnlockMutex
<1>16. CASE IncreaseSemaphore(t)
  BY <1>16 DEF IncreaseSemaphore
<1>17. CASE WaitOnSemaphore(t)
  BY <1>17 DEF WaitOnSemaphore
<1>18. CASE ReadBytes(t)
  <2>1. CASE \E b : thr' = [thr EXCEPT ![t] = Returned([thr[t] EXCEPT !.buf = b], FALSE)]
    <3>1. PICK b : thr' = [thr EXCEPT ![t] = Returned([thr[t] EXCEPT !.buf = b], FALSE)]
      BY <2>1
    <3> QED
      BY <1>18, <3>1 DEF ReadBytes
  <2>2. CASE \E b, c, d : thr' = [thr EXCEPT ![t] = [Returned([thr[t] EXCEPT !.buf = b], TRUE)
                                                       EXCEPT !.cur = c, !.due = d]]
    <3>1. PICK b, c, d : thr' = [thr EXCEPT ![t] = [Returned([thr[t] EXCEPT !.buf = b], TRUE)
                                                      EXCEPT !.cur = c, !.due = d]]
      BY <2>2
    <3> QED
      BY <1>18, <3>1 DEF ReadBytes
  <2> QED
    BY <1>18, <2>1, <2>2 DEF ReadBytes
<1>19. CASE WriteBytes(t)
  <2>1. PICK ok \in BOOLEAN : thr' = [thr EXCEPT ![t] = Returned(@, ok)]
    BY <1>19 DEF WriteBytes
  <2> QED
    BY <1>19, <2>1 DEF WriteBytes
<1>20. CASE ReadFileA(t)
  <2>1. PICK b : thr' = [thr EXCEPT ![t]["bufA"] = b, ![t].pc = "readB"]
    BY <1>20 DEF ReadFileA, ReadEntireFile
  <2>2. PICK mid : mid = [thr EXCEPT ![t]["bufA"] = b]
    OBVIOUS
  <2>3. thr' = [mid EXCEPT ![t].pc = "readB"]
    BY <2>1, <2>2
  <2> QED
    BY <1>20, <2>2, <2>3
<1>21. CASE ReadFileB(t)
  <2>1. PICK b : thr' = [thr EXCEPT ![t]["bufB"] = b, ![t].pc = "compare"]
    BY <1>21 DEF ReadFileB, ReadEntireFile
  <2>2. PICK mid : mid = [thr EXCEPT ![t]["bufB"] = b]
    OBVIOUS
  <2>3. thr' = [mid EXCEPT ![t].pc = "compare"]
    BY <2>1, <2>2
  <2> QED
    BY <1>21, <2>2, <2>3
<1>22. CASE OpenSource(t)
  <2>1. CASE thr' = [thr EXCEPT ![t] = Returned(@, FALSE)]
    BY <1>22, <2>1 DEF OpenSource
  <2>2. CASE \E f : thr' = [thr EXCEPT ![t] = [@ EXCEPT !.src = f, !.pc = "create"]]
    BY <1>22, <2>2 DEF OpenSource
  <2> QED
    BY <1>22, <2>1, <2>2 DEF OpenSource
<1>23. CASE CreateDestination(t)
  <2>1. CASE thr' = [thr EXCEPT ![t] = [@ EXCEPT !.again = thr[t].src, !.src = 0, !.result = FALSE,
                                                  !.pc = "closeAgain"]]
    BY <1>23, <2>1 DEF CreateDestination
  <2>2. CASE \E f : thr' = [thr EXCEPT ![t] = [@ EXCEPT !.dst = f, !.pc = "size"]]
    BY <1>23, <2>2 DEF CreateDestination
  <2> QED
    BY <1>23, <2>1, <2>2 DEF CreateDestination
<1>24. CASE CopyBytes(t)
  <2>1. PICK n : thr' = [thr EXCEPT ![t].count = n, ![t].pc = "closeSource"]
    BY <1>24 DEF CopyBytes
  <2> QED
    BY <1>24, <2>1 DEF CopyBytes
<1>25. CASE CloseDestination(t)
  <2>1. PICK result : thr' = [thr EXCEPT ![t].dst = 0, ![t].pc = "closeAgain", ![t].result = result]
    BY <1>25 DEF CloseDestination
  <2> QED
    BY <1>25, <2>1 DEF CloseDestination
<1>26. CASE CloseAgain(t)
  <2>1. PICK result : thr' = [thr EXCEPT ![t] = [Returned(@, result) EXCEPT !.again = 0]]
    BY <1>26 DEF CloseAgain
  <2> QED
    BY <1>26, <2>1 DEF CloseAgain
<1>27. CASE InitThread(t)
  <2>1. PICK v : thr' = [thr EXCEPT ![t] = Returned(@, TRUE), ![v].state = "on"]
    BY <1>27 DEF InitThread
  <2>2. PICK mid : mid = [thr EXCEPT ![t] = Returned(@, TRUE)]
    OBVIOUS
  <2>3. thr' = [mid EXCEPT ![v].state = "on"]
    BY <2>1, <2>2
  <2>4. /\ DOMAIN mid = Threads
        /\ \A u \in Threads : /\ DOMAIN mid[u] = DOMAIN thr[u] /\ mid[u].bufA = thr[u].bufA
                               /\ mid[u].bufB = thr[u].bufB /\ mid[u].state = thr[u].state
    BY <2>2
  <2> QED
    BY <1>27, <2>3, <2>4 DEF InitThread
<1>28. CASE WaitOnThread(t)
  <2>1. Ended(Call(t).thread) /\ thr[t].ip =< Len(program[t]) /\ UNCHANGED maps
    BY <1>28 DEF WaitOnThread, At
  <2>2. PICK v : v = Call(t).thread /\ thr' = [thr EXCEPT ![t] = Returned(@, TRUE), ![v].state = "joined"]
    BY <1>28 DEF WaitOnThread
  <2>3. PICK mid : mid = [thr EXCEPT ![t] = Returned(@, TRUE)]
    OBVIOUS
  <2>4. thr' = [mid EXCEPT ![v].state = "joined"]
    BY <2>2, <2>3
  <2>5. /\ DOMAIN mid = Threads
        /\ \A u \in Threads : /\ DOMAIN mid[u] = DOMAIN thr[u] /\ mid[u].bufA = thr[u].bufA
                               /\ mid[u].bufB = thr[u].bufB /\ mid[u].state = thr[u].state
    BY <2>3
  <2>6. v /= t
    <3>1. program \in Programs /\ t \in Threads
      OBVIOUS
    <3>2. Len(program[t]) \in Nat /\ thr[t].ip \in Nat
      BY <3>1, ProgramsAssumption
    <3>3. v = t => thr[t].ip > Len(program[t])
      BY <2>1, <2>2 DEF Ended
    <3> QED
      BY <2>1, <3>2, <3>3
  <2>7. \A u \in Threads : /\ thr'[u].bufA = thr[u].bufA /\ thr'[u].bufB = thr[u].bufB
                           /\ u /= v => thr'[u].state = thr[u].state
    BY <2>4, <2>5
  <2> QED
    BY <2>1, <2>2, <2>6, <2>7
<1>29. CASE CompleteRead(t)
  <2>1. PICK n, b, d :
          thr' = [thr EXCEPT ![t].aio = "done", ![t].bytes = n, ![t].buf = b, ![t].due = d]
    BY <1>29 DEF CompleteRead
  <2>2. UNCHANGED maps
    BY <1>29 DEF CompleteRead
  <2> QED
    BY <2>1, <2>2
<1> QED
  BY <1>1, <1>2, <1>3, <1>4, <1>5, <1>6, <1>7, <1>8, <1>9, <1>10, <1>11, <1>12, <1>13, <1>14,
     <1>15, <1>16, <1>17, <1>18, <1>19, <1>20, <1>21, <1>22, <1>23, <1>24, <1>25, <1>26, <1>27, <1>28, <1>29
     DEF FileStep, ThreadStep

\* A step of t that leaves the others' places, and sets up its own.
LEMMA PlacesFrom ==
  ASSUME LocalsInv, SlotsInv, KnownInv, NEW t \in Threads, UNCHANGED program,
         \A u \in Threads \ {t} :
            /\ thr'[u].ip = thr[u].ip /\ thr'[u].pc = thr[u].pc /\ thr'[u].h = thr[u].h
            /\ thr'[u].src = thr[u].src /\ thr'[u].dst = thr[u].dst /\ thr'[u].again = thr[u].again,
         thr'[t].src /= 0 => thr'[t].pc \in {"create", "size", "copy", "closeSource"},
         thr'[t].dst /= 0 => thr'[t].pc \in {"size", "copy", "closeSource", "closeDestination"},
         \A k \in 1..2 : thr'[t].h[k] /= 0 => SlotOpen(program[t], thr'[t].ip, k),
         \A f \in 2..MaxFds : fds'[f].ino /= 0 => fds[f].ino /= 0 \/ Knows(thr'[t], f),
         \A f \in 2..MaxFds : fds'[f].ino /= 0 /\ Knows(thr[t], f) => Knows(thr'[t], f)
  PROVE  LocalsInv' /\ SlotsInv' /\ KnownInv'
<1>1. LocalsInv'
  BY DEF LocalsInv
<1>2. SlotsInv'
  <2> SUFFICES ASSUME NEW u \in Threads, NEW k \in 1..2, thr'[u].h[k] /= 0
               PROVE  SlotOpen(program[u], thr'[u].ip, k)
    BY DEF SlotsInv
  <2>1. CASE u = t
    BY <2>1
  <2>2. CASE u /= t
    <3>1. thr'[u].ip = thr[u].ip /\ thr'[u].h = thr[u].h
      BY <2>2
    <3> QED
      BY <3>1 DEF SlotsInv
  <2> QED
    BY <2>1, <2>2
<1>3. ASSUME NEW f \in 2..MaxFds, fds'[f].ino /= 0
      PROVE  \E u \in Threads : Knows(thr'[u], f)
  <2>1. CASE Knows(thr'[t], f)
    BY <2>1
  <2>2. CASE fds[f].ino /= 0
    <3>1. PICK u \in Threads : Knows(thr[u], f)
      BY <2>2 DEF KnownInv
    <3>2. Knows(thr'[u], f)
      <4>1. CASE u = t
        BY <1>3, <3>1, <4>1
      <4>2. CASE u /= t
        BY <3>1, <4>2 DEF Knows
      <4> QED
        BY <4>1, <4>2
    <3> QED
      BY <3>2
  <2> QED
    BY <1>3, <2>1, <2>2
<1> QED
  BY <1>1, <1>2, <1>3 DEF KnownInv

\* A handle stays with its thread as long as the thread does not close it.
LEMMA SlotStays ==
  ASSUME ThreadsType, SlotsInv, NEW t \in Threads, NEW k \in 1..2, thr[t].h[k] /= 0,
         thr'[t].ip = thr[t].ip \/ thr'[t].ip = thr[t].ip + 1,
         ~(Call(t).fn = "close" /\ Call(t).slot = k)
  PROVE  SlotOpen(program[t], thr'[t].ip, k)
<1>1. PICK s, i : s = program[t] /\ i = thr[t].ip
  OBVIOUS
<1>2. SlotOpen(s, i, k) /\ i \in Nat \ {0}
  BY <1>1 DEF SlotsInv, ThreadsType
<1>3. ~(s[i].fn = "close" /\ s[i].slot = k)
  BY <1>1 DEF Call
<1>4. SlotOpen(s, i + 1, k)
  BY <1>2, <1>3, SlotOn
<1> QED
  BY <1>1, <1>2, <1>4

\* Which calls leave the handles alone.
LEMMA KeepingCalls ==
  ASSUME NEW t \in Threads, KeepsHands(t), ~CompleteRead(t)
  PROVE  /\ Call(t).fn \notin {"open", "close"}
         /\ \/ thr[t].pc \in {"call", "seek", "read", "write", "readA", "readB", "compare"}
            \/ SizeOfSource(t) /\ thr[t].pc = "size"
            \/ CopyBytes(t) /\ thr[t].pc = "copy"
BY DEF KeepsHands, At, RemoveFile, CheckSize, SeekToRead, ReadBytes, ReadFileAsync,
       WaitOnIoCompletion, SeekToWrite, WriteBytes, CompareSizes, ReadFileA, ReadFileB, CompareFiles,
       SizeOfSource, CopyBytes, LockOnMutex, UnlockMutex, IncreaseSemaphore, WaitOnSemaphore,
       InitThread, WaitOnThread

LEMMA CopyPoints ==
  ASSUME ThreadsType, NEW t \in Threads
  PROVE  /\ SizeOfSource(t) => thr'[t].pc = "copy"
         /\ CopyBytes(t) => thr'[t].pc = "closeSource"
<1>1. ASSUME SizeOfSource(t)
      PROVE  thr'[t].pc = "copy"
  BY <1>1 DEF SizeOfSource, ThreadsType, Idle
<1>2. ASSUME CopyBytes(t)
      PROVE  thr'[t].pc = "closeSource"
  <2>1. PICK n : thr' = [thr EXCEPT ![t].count = n, ![t].pc = "closeSource"]
    BY <1>2 DEF CopyBytes
  <2> QED
    BY <2>1 DEF ThreadsType, Idle
<1> QED
  BY <1>1, <1>2

PlacesInv == LocalsInv /\ SlotsInv /\ KnownInv

LEMMA PlacesKept ==
  ASSUME FilesInv, PlacesInv, NEW t \in Threads, KeepsHands(t)
  PROVE  PlacesInv'
<1>1. ThreadsType /\ KernelType /\ AgainInv
  BY DEF FilesInv
<1>2. HandsStay /\ InodesStay
  BY <1>1, KeepStep, KeepKernel
<1>3. UNCHANGED program
  BY RequestFrame, ProgramStays, <1>1 DEF KeepsHands, FileStep, ThreadStep
<1>4. \A f \in 2..MaxFds : fds'[f].ino /= 0 => fds[f].ino /= 0
  BY <1>2 DEF InodesStay
<1>5. \A u \in Threads, f \in 2..MaxFds : Knows(thr[u], f) => Knows(thr'[u], f)
  BY <1>2 DEF HandsStay, Knows
<1>6. CASE CompleteRead(t)
  <2>1. \A u \in Threads : thr'[u].ip = thr[u].ip /\ thr'[u].pc = thr[u].pc
    BY <1>1, <1>6, RequestFrame
  <2>2. \A k \in 1..2 : thr'[t].h[k] /= 0 => SlotOpen(program[t], thr'[t].ip, k)
    BY <1>2, <2>1 DEF HandsStay, PlacesInv, SlotsInv
  <2>3. /\ thr'[t].src /= 0 => thr'[t].pc \in {"create", "size", "copy", "closeSource"}
        /\ thr'[t].dst /= 0 => thr'[t].pc \in {"size", "copy", "closeSource", "closeDestination"}
    BY <1>2, <2>1 DEF HandsStay, PlacesInv, LocalsInv
  <2> QED
    BY <1>2, <1>3, <1>4, <1>5, <2>1, <2>2, <2>3, PlacesFrom DEF PlacesInv, HandsStay
<1>7. CASE ~CompleteRead(t)
  <2>1. OthersStay(t) /\ GoesOn(t)
    BY <1>1, <1>7, ThreadFrame DEF KeepsHands, FileStep, ThreadStep
  <2>2. /\ Call(t).fn \notin {"open", "close"}
        /\ \/ thr[t].pc \in {"call", "seek", "read", "write", "readA", "readB", "compare"}
           \/ SizeOfSource(t) /\ thr[t].pc = "size"
           \/ CopyBytes(t) /\ thr[t].pc = "copy"
    BY <1>7, KeepingCalls
  <2>3. \A k \in 1..2 : thr'[t].h[k] /= 0 => SlotOpen(program[t], thr'[t].ip, k)
    <3> SUFFICES ASSUME NEW k \in 1..2, thr'[t].h[k] /= 0
                 PROVE  SlotOpen(program[t], thr'[t].ip, k)
      OBVIOUS
    <3>1. thr[t].h[k] /= 0
      BY <1>2 DEF HandsStay
    <3>2. thr'[t].ip = thr[t].ip \/ thr'[t].ip = thr[t].ip + 1
      BY <2>1 DEF GoesOn
    <3> QED
      BY <1>1, <2>2, <3>1, <3>2, SlotStays DEF PlacesInv
  <2>4. /\ thr'[t].src /= 0 => thr'[t].pc \in {"create", "size", "copy", "closeSource"}
        /\ thr'[t].dst /= 0 => thr'[t].pc \in {"size", "copy", "closeSource", "closeDestination"}
    <3>1. thr'[t].src = thr[t].src /\ thr'[t].dst = thr[t].dst
      BY <1>2 DEF HandsStay
    <3> QED
      BY <1>1, <2>2, <3>1, CopyPoints DEF PlacesInv, LocalsInv
  <2>5. \A u \in Threads \ {t} :
          /\ thr'[u].ip = thr[u].ip /\ thr'[u].pc = thr[u].pc /\ thr'[u].h = thr[u].h
          /\ thr'[u].src = thr[u].src /\ thr'[u].dst = thr[u].dst /\ thr'[u].again = thr[u].again
    BY <1>2, <2>1 DEF HandsStay, OthersStay
  <2> QED
    BY <1>3, <1>4, <1>5, <2>3, <2>4, <2>5, PlacesFrom DEF PlacesInv
<1> QED
  BY <1>6, <1>7

LEMMA EndStep ==
  ASSUME FilesInv, EndInv, [Next]_fileVars
  PROVE  EndInv'
<1>1. ThreadsType
  BY DEF FilesInv
<1>2. \A u \in Threads : Len(program[u]) \in Nat /\ thr[u].ip \in Nat
  BY <1>1, ProgramsAssumption DEF ThreadsType
<1>3. CASE UNCHANGED fileVars
  BY <1>3 DEF fileVars, EndInv
<1>4. ASSUME NEW t \in Threads, CompleteRead(t)
      PROVE  EndInv'
  <2>1. UNCHANGED program /\ \A u \in Threads : thr'[u].ip = thr[u].ip /\ thr'[u].pc = thr[u].pc
    BY <1>1, <1>4, RequestFrame
  <2>2. StateStays(t)
    BY <1>1, <1>4, MemoryFrame
  <2> QED
    BY <2>1, <2>2 DEF EndInv, StateStays, Ended
<1>5. ASSUME NEW t \in Threads, FileStep(t) \/ ThreadStep(t)
      PROVE  EndInv'
  <2>1. OthersStay(t) /\ GoesOn(t) /\ StateStays(t)
    BY <1>1, <1>5, ThreadFrame, MemoryFrame
  <2>2. UNCHANGED program /\ thr[t].state = "on" /\ thr[t].ip =< Len(program[t])
    BY <1>5, ProgramStays, InACall
  <2>3. ASSUME NEW u \in Threads \ {t}
        PROVE  /\ thr'[u].ip =< Len(program[u]) + 1
               /\ thr'[u].pc /= "call" => thr'[u].ip =< Len(program[u])
               /\ thr'[u].state = "joined" => thr'[u].ip > Len(program[u])
    <3>1. thr'[u].ip = thr[u].ip /\ thr'[u].pc = thr[u].pc
      BY <2>1 DEF OthersStay
    <3>2. thr'[u].state = "joined" => thr[u].state = "joined" \/ thr[u].ip > Len(program[u])
      BY <2>1 DEF StateStays, Ended
    <3> QED
      BY <3>1, <3>2 DEF EndInv
  <2>4. /\ thr'[t].ip =< Len(program[t]) + 1
        /\ thr'[t].pc /= "call" => thr'[t].ip =< Len(program[t])
    BY <1>2, <2>1, <2>2 DEF GoesOn
  <2>5. thr'[t].state /= "joined"
    BY <2>1, <2>2 DEF StateStays
  <2> QED
    BY <2>2, <2>3, <2>4, <2>5 DEF EndInv
<1> QED
  BY <1>3, <1>4, <1>5 DEF Next, AllOver

\* A thread opens a file to a handle that it does not hold a descriptor in, or
\* to the place of a local that holds none.
LEMMA PlacesOpenFile ==
  ASSUME AllTidy, FilesInv, PlacesInv, NEW t \in Threads, OpenFile(t) \/ ForceOpen(t)
  PROVE  PlacesInv'
<1>1. ThreadsType /\ KernelType /\ AgainInv
  BY DEF FilesInv
<1> DEFINE P(c, how, f) ==
             /\ c = Call(t) /\ f = Opened(c.path, how) /\ NewFile(c.path, how)
             /\ \/ thr' = [thr EXCEPT ![t] = [@ EXCEPT !.pc = "force"]] /\ f = 0
                \/ \E ok, ino : thr' = [thr EXCEPT ![t] = [Returned(@, ok) EXCEPT !.h[c.slot] = f,
                                                                             !.ino[c.slot] = ino]]
<1>2. \E c, how, f : P(c, how, f)
  <2> HIDE DEF P
  <2>1. CASE OpenFile(t)
    <3>1. PICK c, f : c = Call(t) /\ f = Opened(c.path, c.how)
      OBVIOUS
    <3>2. NewFile(c.path, c.how)
      BY <2>1, <3>1 DEF OpenFile
    <3>3. CASE f = 0 /\ c.force
      <4>1. thr' = [thr EXCEPT ![t] = [@ EXCEPT !.pc = "force"]]
        BY <2>1, <3>1, <3>3 DEF OpenFile
      <4> QED
        <5>1. P(c, c.how, f)
          BY <3>1, <3>2, <3>3, <4>1 DEF P
        <5> QED
          BY <5>1
    <3>4. CASE ~(f = 0 /\ c.force)
      <4>1. thr' = [thr EXCEPT ![t] = [Returned(@, f /= 0) EXCEPT !.h[c.slot] = f,
                                                                !.ino[c.slot] = names'[c.path]]]
        BY <2>1, <3>1, <3>4 DEF OpenFile
      <4>2. \E ok, ino : thr' = [thr EXCEPT ![t] = [Returned(@, ok) EXCEPT !.h[c.slot] = f,
                                                                        !.ino[c.slot] = ino]]
        BY <4>1
      <4> QED
        <5>1. P(c, c.how, f)
          BY <3>1, <3>2, <4>2 DEF P
        <5> QED
          BY <5>1
    <3> QED
      BY <3>3, <3>4
  <2>2. CASE ForceOpen(t)
    <3>1. PICK c, f : c = Call(t) /\ f = Opened(c.path, "excl")
      OBVIOUS
    <3>2. NewFile(c.path, "excl")
      BY <2>2, <3>1 DEF ForceOpen
    <3>3. thr' = [thr EXCEPT ![t] = [Returned(@, f /= 0) EXCEPT !.h[c.slot] = f,
                                                              !.ino[c.slot] = names'[c.path]]]
      BY <2>2, <3>1 DEF ForceOpen
    <3>4. \E ok, ino : thr' = [thr EXCEPT ![t] = [Returned(@, ok) EXCEPT !.h[c.slot] = f,
                                                                      !.ino[c.slot] = ino]]
      BY <3>3
    <3> QED
      <4>1. P(c, "excl", f)
        BY <3>1, <3>2, <3>4 DEF P
      <4> QED
        BY <4>1
  <2> QED
    BY <2>1, <2>2
<1>3. PICK c, how, f : P(c, how, f)
  BY <1>2
<1>4. /\ c.slot \in 1..2 /\ c.path \in ToSet(Paths) /\ c.fn = "open" /\ thr[t].pc \in {"call", "force"}
      /\ thr[t].ip =< Len(program[t])
  BY <1>1, <1>3, CallFacts DEF OpenFile, ForceOpen, At
<1>5. UNCHANGED program
  BY DEF OpenFile, ForceOpen
<1>6. thr[t].src = 0 /\ thr[t].dst = 0 /\ thr[t].again = 0
  BY <1>1, <1>4 DEF PlacesInv, LocalsInv, AgainInv
<1>7. /\ f = 0 => InodesStay
      /\ f /= 0 => \A g \in 1..MaxFds : g /= f => fds'[g] = fds[g]
  <2>1. f = Opened(c.path, how) /\ NewFile(c.path, how)
    BY <1>3
  <2> QED
    BY <1>1, <1>4, <2>1, NewFileFacts
<1>8. CASE thr' = [thr EXCEPT ![t] = [@ EXCEPT !.pc = "force"]] /\ f = 0
  <2>1. /\ \A u \in Threads : u /= t => thr'[u] = thr[u]
        /\ thr'[t].h = thr[t].h /\ thr'[t].src = thr[t].src /\ thr'[t].dst = thr[t].dst
        /\ thr'[t].again = thr[t].again /\ thr'[t].ip = thr[t].ip
    BY <1>1, <1>8 DEF ThreadsType, Idle
  <2>2. \A k \in 1..2 : thr'[t].h[k] /= 0 => SlotOpen(program[t], thr'[t].ip, k)
    BY <2>1 DEF PlacesInv, SlotsInv
  <2>3. \A g \in 2..MaxFds : fds'[g].ino /= 0 => fds[g].ino /= 0
    BY <1>7, <1>8 DEF InodesStay
  <2>4. \A g \in 2..MaxFds : Knows(thr[t], g) => Knows(thr'[t], g)
    BY <2>1 DEF Knows
  <2>5. thr'[t].src = 0 /\ thr'[t].dst = 0
    BY <1>6, <2>1
  <2> QED
    BY <1>5, <2>1, <2>2, <2>3, <2>4, <2>5, PlacesFrom DEF PlacesInv
<1>9. CASE \E ok, ino : thr' = [thr EXCEPT ![t] = [Returned(@, ok) EXCEPT !.h[c.slot] = f,
                                                                      !.ino[c.slot] = ino]]
  <2>1. PICK ok, ino : thr' = [thr EXCEPT ![t] = [Returned(@, ok) EXCEPT !.h[c.slot] = f,
                                                                    !.ino[c.slot] = ino]]
    BY <1>9
  <2>2. /\ \A u \in Threads : u /= t => thr'[u] = thr[u]
        /\ thr'[t].h = [thr[t].h EXCEPT ![c.slot] = f]
        /\ thr'[t].src = thr[t].src /\ thr'[t].dst = thr[t].dst /\ thr'[t].again = thr[t].again
        /\ thr'[t].ip = thr[t].ip + 1
    BY <1>1, <2>1 DEF ThreadsType, Idle, Returned
  <2>3. /\ thr'[t].h[c.slot] = f
        /\ \A k \in 1..2 : k /= c.slot => thr'[t].h[k] = thr[t].h[k]
    BY <1>1, <1>4, <2>2 DEF ThreadsType
  <2>4. PICK s, i : s = program[t] /\ i = thr[t].ip
    OBVIOUS
  <2>5. s[i].fn = "open" /\ s[i].slot = c.slot /\ i \in 1..Len(s) /\ i \in Nat \ {0}
    <3>1. Len(s) \in Nat /\ i \in Nat \ {0} /\ i =< Len(s)
      BY <1>1, <1>4, <2>4, ProgramsAssumption DEF ThreadsType
    <3>2. c = s[i]
      BY <1>3, <2>4 DEF Call
    <3> QED
      BY <1>4, <3>1, <3>2
  <2>6. Tidy(s)
    BY <1>1, <2>4 DEF AllTidy, ThreadsType
  <2>7. ~SlotOpen(s, i, c.slot)
    BY <2>5, <2>6 DEF Tidy
  <2>8. thr[t].h[c.slot] = 0
    BY <1>4, <2>4, <2>7 DEF PlacesInv, SlotsInv
  <2>9. SlotOpen(s, i + 1, c.slot)
    BY <2>5, SlotOn
  <2>10. \A k \in 1..2 : thr'[t].h[k] /= 0 => SlotOpen(program[t], thr'[t].ip, k)
    <3> SUFFICES ASSUME NEW k \in 1..2, thr'[t].h[k] /= 0
                 PROVE  SlotOpen(program[t], thr'[t].ip, k)
      OBVIOUS
    <3>1. CASE k = c.slot
      BY <2>2, <2>4, <2>9, <3>1
    <3>2. CASE k /= c.slot
      <4>1. thr[t].h[k] /= 0
        BY <2>3, <3>2
      <4> QED
        BY <1>1, <1>3, <1>4, <2>2, <4>1, SlotStays DEF PlacesInv
    <3> QED
      BY <3>1, <3>2
  <2>11. \A g \in 2..MaxFds : fds'[g].ino /= 0 => fds[g].ino /= 0 \/ Knows(thr'[t], g)
    <3> SUFFICES ASSUME NEW g \in 2..MaxFds, fds'[g].ino /= 0
                 PROVE  fds[g].ino /= 0 \/ Knows(thr'[t], g)
      OBVIOUS
    <3>1. g \in 1..MaxFds
      OBVIOUS
    <3>2. CASE g = f
      BY <1>4, <2>3, <3>2 DEF Knows
    <3>3. CASE g /= f
      BY <1>7, <3>1, <3>3 DEF InodesStay
    <3> QED
      BY <3>2, <3>3
  <2>12. \A g \in 2..MaxFds : Knows(thr[t], g) => Knows(thr'[t], g)
    <3> SUFFICES ASSUME NEW g \in 2..MaxFds, Knows(thr[t], g)
                 PROVE  Knows(thr'[t], g)
      OBVIOUS
    <3>1. PICK k \in 1..2 : thr[t].h[k] = g
      BY <1>6 DEF Knows
    <3>2. k /= c.slot
      BY <2>8, <3>1
    <3> QED
      BY <2>3, <3>1, <3>2 DEF Knows
  <2>13. thr'[t].src = 0 /\ thr'[t].dst = 0
    BY <1>6, <2>2
  <2> QED
    BY <1>5, <2>2, <2>10, <2>11, <2>12, <2>13, PlacesFrom DEF PlacesInv
<1> QED
  BY <1>3, <1>8, <1>9

LEMMA PlacesCopyOpens ==
  ASSUME FilesInv, PlacesInv, NEW t \in Threads, OpenSource(t) \/ CreateDestination(t)
  PROVE  PlacesInv'
<1>1. ThreadsType /\ KernelType /\ AgainInv
  BY DEF FilesInv
<1> DEFINE P(c, path, how, f) ==
        /\ c = Call(t) /\ f = Opened(path, how) /\ NewFile(path, how)
        /\ \/ /\ thr[t].pc = "call" /\ path = c.src
              /\ \/ f = 0 /\ thr' = [thr EXCEPT ![t] = Returned(@, FALSE)]
                 \/ thr' = [thr EXCEPT ![t] = [@ EXCEPT !.src = f, !.pc = "create"]]
           \/ /\ thr[t].pc = "create" /\ path = c.dst
              /\ \/ f = 0 /\ thr' = [thr EXCEPT ![t] = [@ EXCEPT !.again = thr[t].src, !.src = 0,
                                                          !.result = FALSE, !.pc = "closeAgain"]]
                 \/ thr' = [thr EXCEPT ![t] = [@ EXCEPT !.dst = f, !.pc = "size"]]
<1>2. \E c, path, how, f : P(c, path, how, f)
  <2> HIDE DEF P
  <2>1. CASE OpenSource(t)
    <3>1. PICK c, f : c = Call(t) /\ f = Opened(c.src, "open")
      OBVIOUS
    <3>2. NewFile(c.src, "open") /\ thr[t].pc = "call"
      BY <2>1, <3>1 DEF OpenSource, At
    <3>3. \/ f = 0 /\ thr' = [thr EXCEPT ![t] = Returned(@, FALSE)]
          \/ thr' = [thr EXCEPT ![t] = [@ EXCEPT !.src = f, !.pc = "create"]]
      BY <2>1, <3>1 DEF OpenSource
    <3> QED
      <4>1. P(c, c.src, "open", f)
        BY <3>1, <3>2, <3>3 DEF P
      <4> QED
        BY <4>1
  <2>2. CASE CreateDestination(t)
    <3>1. PICK c, how, f : c = Call(t) /\ how = DestinationMode(c) /\ f = Opened(c.dst, how)
      OBVIOUS
    <3>2. NewFile(c.dst, how) /\ thr[t].pc = "create"
      BY <2>2, <3>1 DEF CreateDestination, At
    <3>3. \/ f = 0 /\ thr' = [thr EXCEPT ![t] = [@ EXCEPT !.again = thr[t].src, !.src = 0,
                                                          !.result = FALSE, !.pc = "closeAgain"]]
          \/ thr' = [thr EXCEPT ![t] = [@ EXCEPT !.dst = f, !.pc = "size"]]
      BY <2>2, <3>1 DEF CreateDestination
    <3> QED
      <4>1. P(c, c.dst, how, f)
        BY <3>1, <3>2, <3>3 DEF P
      <4> QED
        BY <4>1
  <2> QED
    BY <2>1, <2>2
<1>3. PICK c, path, how, f : P(c, path, how, f)
  BY <1>2
<1>4. c.fn = "copy" /\ path \in ToSet(Paths)
  BY <1>1, <1>3, CallFacts DEF OpenSource, CreateDestination, At
<1>5. UNCHANGED program
  BY DEF OpenSource, CreateDestination
<1>6. /\ thr[t].dst = 0 /\ thr[t].again = 0
      /\ thr[t].pc = "call" => thr[t].src = 0
  BY <1>1, <1>3 DEF PlacesInv, LocalsInv, AgainInv
<1>7. /\ f = 0 => InodesStay
      /\ f /= 0 => \A g \in 1..MaxFds : g /= f => fds'[g] = fds[g]
  BY <1>1, <1>3, <1>4, NewFileFacts
<1>8. /\ \A u \in Threads : u /= t => thr'[u] = thr[u]
      /\ thr'[t].h = thr[t].h /\ (thr'[t].ip = thr[t].ip \/ thr'[t].ip = thr[t].ip + 1)
      /\ \/ /\ f = 0 /\ thr[t].pc = "call"
            /\ thr'[t].src = thr[t].src /\ thr'[t].dst = thr[t].dst /\ thr'[t].again = thr[t].again
         \/ /\ thr[t].pc = "call" /\ thr'[t].pc = "create"
            /\ thr'[t].src = f /\ thr'[t].dst = thr[t].dst /\ thr'[t].again = thr[t].again
         \/ /\ f = 0 /\ thr'[t].src = 0 /\ thr'[t].dst = thr[t].dst /\ thr'[t].again = thr[t].src
         \/ /\ thr'[t].pc = "size"
            /\ thr'[t].src = thr[t].src /\ thr'[t].dst = f /\ thr'[t].again = thr[t].again
  <2>1. CASE thr[t].pc = "call" /\ f = 0 /\ thr' = [thr EXCEPT ![t] = Returned(@, FALSE)]
    BY <1>1, <2>1 DEF ThreadsType, Idle, Returned
  <2>2. CASE thr[t].pc = "call" /\ thr' = [thr EXCEPT ![t] = [@ EXCEPT !.src = f, !.pc = "create"]]
    BY <1>1, <2>2 DEF ThreadsType, Idle
  <2>3. CASE f = 0 /\ thr' = [thr EXCEPT ![t] = [@ EXCEPT !.again = thr[t].src, !.src = 0,
                                                    !.result = FALSE, !.pc = "closeAgain"]]
    BY <1>1, <2>3 DEF ThreadsType, Idle
  <2>4. CASE thr' = [thr EXCEPT ![t] = [@ EXCEPT !.dst = f, !.pc = "size"]]
    BY <1>1, <2>4 DEF ThreadsType, Idle
  <2> QED
    BY <1>3, <2>1, <2>2, <2>3, <2>4
<1>9. /\ thr'[t].src /= 0 => thr'[t].pc \in {"create", "size", "copy", "closeSource"}
      /\ thr'[t].dst /= 0 => thr'[t].pc \in {"size", "copy", "closeSource", "closeDestination"}
  BY <1>6, <1>8
<1>10. \A k \in 1..2 : thr'[t].h[k] /= 0 => SlotOpen(program[t], thr'[t].ip, k)
  <2> SUFFICES ASSUME NEW k \in 1..2, thr'[t].h[k] /= 0
               PROVE  SlotOpen(program[t], thr'[t].ip, k)
    OBVIOUS
  <2>1. thr[t].h[k] /= 0 /\ Call(t).fn /= "close"
    BY <1>3, <1>4, <1>8
  <2> QED
    BY <1>1, <1>8, <2>1, SlotStays DEF PlacesInv
<1>11. \A g \in 2..MaxFds : fds'[g].ino /= 0 => fds[g].ino /= 0 \/ Knows(thr'[t], g)
  <2> SUFFICES ASSUME NEW g \in 2..MaxFds, fds'[g].ino /= 0
               PROVE  fds[g].ino /= 0 \/ Knows(thr'[t], g)
    OBVIOUS
  <2>1. g \in 1..MaxFds
    OBVIOUS
  <2>2. CASE g = f
    BY <1>8, <2>2 DEF Knows
  <2>3. CASE g /= f
    BY <1>7, <2>1, <2>3 DEF InodesStay
  <2> QED
    BY <2>2, <2>3
<1>12. \A g \in 2..MaxFds : Knows(thr[t], g) => Knows(thr'[t], g)
  <2> SUFFICES ASSUME NEW g \in 2..MaxFds, Knows(thr[t], g)
               PROVE  Knows(thr'[t], g)
    OBVIOUS
  <2>1. g /= 0
    OBVIOUS
  <2> QED
    BY <1>6, <1>8, <2>1 DEF Knows
<1> QED
  BY <1>5, <1>8, <1>9, <1>10, <1>11, <1>12, PlacesFrom DEF PlacesInv

\* A descriptor that is closed needs to be known to nobody.
LEMMA CloseInodes ==
  ASSUME KernelType, NEW t, NEW f, Close(t, f)
  PROVE  \A g \in 1..MaxFds : fds'[g].ino /= 0 => g /= f /\ fds[g].ino /= 0
BY DEF KernelType, Close, IsOpen, NoFd

LEMMA PlacesCloseFile ==
  ASSUME FilesInv, PlacesInv, NEW t \in Threads, CloseFileHandle(t)
  PROVE  PlacesInv'
<1>1. ThreadsType /\ KernelType /\ AgainInv
  BY DEF FilesInv
<1>2. PICK s : s = Call(t).slot
  OBVIOUS
<1>3. s \in 1..2 /\ thr[t].pc = "call"
  BY <1>1, <1>2, CallFacts DEF CloseFileHandle, At
<1>4. Close(t, thr[t].h[s]) /\ UNCHANGED program
  BY <1>2, <1>3 DEF CloseFileHandle, Handle
<1>5. thr' = [thr EXCEPT ![t] = [Returned(@, TRUE) EXCEPT !.h[s] = 0]]
  BY <1>2 DEF CloseFileHandle
<1>6. /\ \A u \in Threads : u /= t => thr'[u] = thr[u]
      /\ thr'[t].h = [thr[t].h EXCEPT ![s] = 0] /\ thr'[t].ip = thr[t].ip + 1
      /\ thr'[t].src = thr[t].src /\ thr'[t].dst = thr[t].dst /\ thr'[t].again = thr[t].again
  BY <1>1, <1>5 DEF ThreadsType, Idle, Returned
<1>7. thr'[t].h[s] = 0 /\ \A k \in 1..2 : k /= s => thr'[t].h[k] = thr[t].h[k]
  BY <1>1, <1>3, <1>6 DEF ThreadsType
<1>8. thr'[t].src = 0 /\ thr'[t].dst = 0
  BY <1>3, <1>6 DEF PlacesInv, LocalsInv
<1>9. \A k \in 1..2 : thr'[t].h[k] /= 0 => SlotOpen(program[t], thr'[t].ip, k)
  <2> SUFFICES ASSUME NEW k \in 1..2, thr'[t].h[k] /= 0
               PROVE  SlotOpen(program[t], thr'[t].ip, k)
    OBVIOUS
  <2>1. k /= s /\ thr[t].h[k] /= 0
    BY <1>7
  <2> QED
    BY <1>1, <1>2, <1>6, <2>1, SlotStays DEF PlacesInv
<1>10. \A g \in 1..MaxFds : fds'[g].ino /= 0 => g /= thr[t].h[s] /\ fds[g].ino /= 0
  BY <1>1, <1>4, CloseInodes
<1>11. \A g \in 2..MaxFds : fds'[g].ino /= 0 /\ Knows(thr[t], g) => Knows(thr'[t], g)
  <2> SUFFICES ASSUME NEW g \in 2..MaxFds, fds'[g].ino /= 0, Knows(thr[t], g)
               PROVE  Knows(thr'[t], g)
    OBVIOUS
  <2>1. g /= thr[t].h[s]
    BY <1>10
  <2> QED
    BY <1>3, <1>6, <1>7, <2>1 DEF Knows
<1>12. \A g \in 2..MaxFds : fds'[g].ino /= 0 => fds[g].ino /= 0
  BY <1>10
<1>13. \A u \in Threads \ {t} :
         /\ thr'[u].ip = thr[u].ip /\ thr'[u].pc = thr[u].pc /\ thr'[u].h = thr[u].h
         /\ thr'[u].src = thr[u].src /\ thr'[u].dst = thr[u].dst /\ thr'[u].again = thr[u].again
  BY <1>6
<1> QED
  BY <1>4, <1>8, <1>9, <1>11, <1>12, <1>13, PlacesFrom DEF PlacesInv

LEMMA PlacesCopyCloses ==
  ASSUME FilesInv, PlacesInv, NEW t \in Threads,
         CloseSource(t) \/ CloseDestination(t) \/ CloseAgain(t)
  PROVE  PlacesInv'
<1>1. ThreadsType /\ KernelType /\ AgainInv
  BY DEF FilesInv
<1>2. PICK f : /\ Close(t, f)
               /\ \/ CloseSource(t) /\ f = thr[t].src
                  \/ CloseDestination(t) /\ f = thr[t].dst
                  \/ CloseAgain(t) /\ f = thr[t].again
  BY DEF CloseSource, CloseDestination, CloseAgain, SecondClosed
<1>3. UNCHANGED program /\ Call(t).fn = "copy"
  BY DEF CloseSource, CloseDestination, CloseAgain, At
<1>4. /\ \A u \in Threads : u /= t => thr'[u] = thr[u]
      /\ thr'[t].h = thr[t].h /\ (thr'[t].ip = thr[t].ip \/ thr'[t].ip = thr[t].ip + 1)
      /\ \/ /\ thr[t].pc = "closeSource" /\ thr'[t].pc = "closeDestination" /\ f = thr[t].src
            /\ thr'[t].src = 0 /\ thr'[t].dst = thr[t].dst /\ thr'[t].again = thr[t].src
         \/ /\ thr[t].pc = "closeDestination" /\ f = thr[t].dst
            /\ thr'[t].src = thr[t].src /\ thr'[t].dst = 0 /\ thr'[t].again = thr[t].again
         \/ /\ thr[t].pc = "closeAgain" /\ f = thr[t].again
            /\ thr'[t].src = thr[t].src /\ thr'[t].dst = thr[t].dst /\ thr'[t].again = 0
  <2>1. CASE CloseSource(t) /\ f = thr[t].src
    <3>1. thr' = [thr EXCEPT ![t].again = thr[t].src, ![t].src = 0, ![t].pc = "closeDestination"]
      BY <2>1 DEF CloseSource
    <3>2. thr[t].pc = "closeSource"
      BY <2>1 DEF CloseSource, At
    <3> QED
      BY <1>1, <2>1, <3>1, <3>2 DEF ThreadsType, Idle
  <2>2. CASE CloseDestination(t) /\ f = thr[t].dst
    <3>1. PICK result : thr' = [thr EXCEPT ![t].dst = 0, ![t].pc = "closeAgain", ![t].result = result]
      BY <2>2 DEF CloseDestination
    <3>2. thr[t].pc = "closeDestination"
      BY <2>2 DEF CloseDestination, At
    <3> QED
      BY <1>1, <2>2, <3>1, <3>2 DEF ThreadsType, Idle
  <2>3. CASE CloseAgain(t) /\ f = thr[t].again
    <3>1. PICK result : thr' = [thr EXCEPT ![t] = [Returned(@, result) EXCEPT !.again = 0]]
      BY <2>3 DEF CloseAgain
    <3>2. thr[t].pc = "closeAgain"
      BY <2>3 DEF CloseAgain, At
    <3> QED
      BY <1>1, <2>3, <3>1, <3>2 DEF ThreadsType, Idle, Returned
  <2> QED
    BY <1>2, <2>1, <2>2, <2>3
<1>5. /\ thr'[t].src /= 0 => thr'[t].pc \in {"create", "size", "copy", "closeSource"}
      /\ thr'[t].dst /= 0 => thr'[t].pc \in {"size", "copy", "closeSource", "closeDestination"}
  BY <1>4 DEF PlacesInv, LocalsInv
<1>6. \A k \in 1..2 : thr'[t].h[k] /= 0 => SlotOpen(program[t], thr'[t].ip, k)
  <2> SUFFICES ASSUME NEW k \in 1..2, thr'[t].h[k] /= 0
               PROVE  SlotOpen(program[t], thr'[t].ip, k)
    OBVIOUS
  <2>1. thr[t].h[k] /= 0
    BY <1>4
  <2> QED
    BY <1>1, <1>3, <1>4, <2>1, SlotStays DEF PlacesInv
<1>7. \A g \in 1..MaxFds : fds'[g].ino /= 0 => g /= f /\ fds[g].ino /= 0
  BY <1>1, <1>2, CloseInodes
<1>8. thr[t].pc = "closeSource" => thr[t].again = 0
  BY <1>1 DEF AgainInv
<1>9. \A g \in 2..MaxFds : fds'[g].ino /= 0 /\ Knows(thr[t], g) => Knows(thr'[t], g)
  <2> SUFFICES ASSUME NEW g \in 2..MaxFds, fds'[g].ino /= 0, Knows(thr[t], g)
               PROVE  Knows(thr'[t], g)
    OBVIOUS
  <2>1. g /= f /\ g /= 0
    BY <1>7
  <2> QED
    BY <1>4, <1>8, <2>1 DEF Knows
<1> QED
  BY <1>3, <1>4, <1>5, <1>6, <1>7, <1>9, PlacesFrom DEF PlacesInv

LEMMA PlacesStep ==
  ASSUME AllTidy, FilesInv, PlacesInv, [Next]_fileVars
  PROVE  PlacesInv'
<1>1. CASE UNCHANGED fileVars
  BY <1>1 DEF fileVars, PlacesInv, LocalsInv, SlotsInv, KnownInv
<1>2. ASSUME NEW t \in Threads, FileStep(t) \/ ThreadStep(t) \/ CompleteRead(t)
      PROVE  PlacesInv'
  <2>1. CASE KeepsHands(t)
    BY <2>1, PlacesKept
  <2>2. CASE OpenFile(t) \/ ForceOpen(t)
    BY <2>2, PlacesOpenFile
  <2>3. CASE OpenSource(t) \/ CreateDestination(t)
    BY <2>3, PlacesCopyOpens
  <2>4. CASE CloseFileHandle(t)
    BY <2>4, PlacesCloseFile
  <2>5. CASE CloseSource(t) \/ CloseDestination(t) \/ CloseAgain(t)
    BY <2>5, PlacesCopyCloses
  <2> QED
    BY <1>2, <2>1, <2>2, <2>3, <2>4, <2>5 DEF FileStep, ThreadStep, KeepsHands
<1> QED
  BY <1>1, <1>2 DEF Next, AllOver

LEMMA PlacesInit == Init => EndInv /\ PlacesInv
<1> SUFFICES ASSUME Init PROVE EndInv /\ PlacesInv
  OBVIOUS
<1>1. \A u \in Threads : /\ thr[u].ip = 1 /\ thr[u].pc = "call" /\ thr[u].state /= "joined"
                         /\ thr[u].h = <<0, 0>> /\ thr[u].src = 0 /\ thr[u].dst = 0
  BY DEF Init, Idle
<1>2. \A u \in Threads : Len(program[u]) \in Nat
  BY ProgramsAssumption DEF Init
<1>3. EndInv
  BY <1>1, <1>2 DEF EndInv
<1>4. LocalsInv /\ SlotsInv
  BY <1>1 DEF LocalsInv, SlotsInv
<1>5. \A f \in 2..MaxFds : fds[f].ino = 0
  BY DEF Init, NoFd
<1> QED
  BY <1>3, <1>4, <1>5 DEF PlacesInv, KnownInv

\* A thread gets to a point of FilesAreEqual() or DuplicateFile() from the one before it.
LEMMA PointsReached ==
  ASSUME ThreadsType, NEW t \in Threads, FileStep(t) \/ ThreadStep(t)
  PROVE  \/ thr'[t].pc \notin {"readA", "readB", "compare", "create", "size", "copy", "closeSource"}
         \/ thr'[t].pc = "readA" /\ CompareSizes(t)
         \/ thr'[t].pc = "readB" /\ ReadFileA(t)
         \/ thr'[t].pc = "compare" /\ ReadFileB(t)
         \/ thr'[t].pc = "create" /\ OpenSource(t)
         \/ thr'[t].pc = "size" /\ CreateDestination(t)
         \/ thr'[t].pc = "copy" /\ SizeOfSource(t)
         \/ thr'[t].pc = "closeSource" /\ CopyBytes(t)
<1> USE DEF ThreadsType, Idle, Returned
<1> DEFINE Goal == thr'[t].pc \notin {"readA", "readB", "compare", "create", "size", "copy", "closeSource"}
<1>1. OthersStay(t) /\ GoesOn(t)
  BY ThreadFrame
<1>2. CASE CompareSizes(t)
  BY <1>2 DEF CompareSizes
<1>3. CASE thr'[t].ip = thr[t].ip + 1
  BY <1>1, <1>3 DEF GoesOn
<1>4. CASE OpenFile(t) /\ thr'[t].ip /= thr[t].ip + 1
  <2>1. CASE thr' = [thr EXCEPT ![t] = [@ EXCEPT !.pc = "force"]]
    BY <2>1
  <2>2. ASSUME NEW f, NEW ino, NEW ok, NEW s,
               thr' = [thr EXCEPT ![t] = [Returned(@, ok) EXCEPT !.h[s] = f, !.ino[s] = ino]]
        PROVE  FALSE
    BY <1>4, <2>2
  <2> QED
    BY <1>4, <2>1, <2>2 DEF OpenFile
<1>5. CASE CheckSize(t) \/ SeekToRead(t)
  <2>1. CASE thr' = [thr EXCEPT ![t] = Returned(@, FALSE)]
    BY <1>3, <2>1
  <2>2. CASE \E pc \in {"seek", "read"} : thr' = [thr EXCEPT ![t] = [@ EXCEPT !.pc = pc]]
    BY <2>2
  <2>3. SeekToRead(t) => thr' = [thr EXCEPT ![t] = [@ EXCEPT !.pc = "read"]]
    BY DEF SeekToRead
  <2>4. \/ thr' = [thr EXCEPT ![t] = Returned(@, FALSE)]
        \/ \E pc \in {"seek", "read"} : thr' = [thr EXCEPT ![t] = [@ EXCEPT !.pc = pc]]
    BY <1>5, <2>3 DEF CheckSize
  <2> QED
    BY <2>1, <2>2, <2>4
<1>6. CASE WaitOnIoCompletion(t) \/ SeekToWrite(t)
  <2>1. CASE SeekToWrite(t)
    BY <2>1 DEF SeekToWrite
  <2>2. CASE WaitOnIoCompletion(t) /\ thr' = thr
    BY <2>2 DEF WaitOnIoCompletion, At
  <2>3. CASE WaitOnIoCompletion(t) /\ thr' /= thr
    <3>1. \/ thr' = [thr EXCEPT ![t] = Returned(@, FALSE)]
          \/ thr' = [thr EXCEPT ![t] = [Returned(@, @.bytes > 0) EXCEPT !.aio = "none"]]
      BY <2>3 DEF WaitOnIoCompletion
    <3> QED
      BY <1>3, <3>1
  <2> QED
    BY <1>6, <2>1, <2>2, <2>3
<1>7. CASE OpenSource(t)
  <2>1. CASE thr' = [thr EXCEPT ![t] = Returned(@, FALSE)]
    BY <1>3, <2>1
  <2>2. CASE \E f : thr' = [thr EXCEPT ![t] = [@ EXCEPT !.src = f, !.pc = "create"]]
    BY <1>7, <2>2
  <2> QED
    BY <1>7, <2>1, <2>2 DEF OpenSource
<1>8. CASE CreateDestination(t)
  <2>1. CASE thr' = [thr EXCEPT ![t] = [@ EXCEPT !.again = thr[t].src, !.src = 0, !.result = FALSE,
                                                  !.pc = "closeAgain"]]
    BY <2>1
  <2>2. CASE \E f : thr' = [thr EXCEPT ![t] = [@ EXCEPT !.dst = f, !.pc = "size"]]
    BY <1>8, <2>2
  <2> QED
    BY <1>8, <2>1, <2>2 DEF CreateDestination
<1>9. CASE SizeOfSource(t) \/ CopyBytes(t)
  BY <1>9, CopyPoints
<1>10. CASE CloseSource(t)
  BY <1>10 DEF CloseSource
<1>11. CASE CloseDestination(t)
  <2>1. PICK result : thr' = [thr EXCEPT ![t].dst = 0, ![t].pc = "closeAgain", ![t].result = result]
    BY <1>11 DEF CloseDestination
  <2> QED
    BY <2>1
<1>12. CASE ForceOpen(t)
  <2>1. PICK f, ino, ok, s : thr' = [thr EXCEPT ![t] = [Returned(@, ok) EXCEPT !.h[s] = f, !.ino[s] = ino]]
    BY <1>12 DEF ForceOpen
  <2> QED
    BY <1>3, <2>1
<1>13. CASE CloseFileHandle(t)
  BY <1>3, <1>13 DEF CloseFileHandle
<1>14. CASE RemoveFile(t)
  BY <1>3, <1>14 DEF RemoveFile
<1>15. CASE ReadFileAsync(t)
  BY <1>3, <1>15 DEF ReadFileAsync
<1>16. CASE ReadBytes(t)
  <2>1. PICK b, c, d, ok :
          \/ thr' = [thr EXCEPT ![t] = Returned([thr[t] EXCEPT !.buf = b], ok)]
          \/ thr' = [thr EXCEPT ![t] = [Returned([thr[t] EXCEPT !.buf = b], ok) EXCEPT
                                         !.cur = c, !.due = d]]
    BY <1>16 DEF ReadBytes
  <2>2. CASE thr' = [thr EXCEPT ![t] = Returned([thr[t] EXCEPT !.buf = b], ok)]
    BY <1>3, <2>2
  <2>3. CASE thr' = [thr EXCEPT ![t] = [Returned([thr[t] EXCEPT !.buf = b], ok) EXCEPT
                                         !.cur = c, !.due = d]]
    BY <1>3, <2>3
  <2> QED
    BY <2>1, <2>2, <2>3
<1>17. CASE WriteBytes(t)
  <2>1. PICK ok \in BOOLEAN : thr' = [thr EXCEPT ![t] = Returned(@, ok)]
    BY <1>17 DEF WriteBytes
  <2> QED
    BY <1>3, <2>1
<1>18. CASE CloseAgain(t)
  <2>1. PICK result : thr' = [thr EXCEPT ![t] = [Returned(@, result) EXCEPT !.again = 0]]
    BY <1>18 DEF CloseAgain
  <2> QED
    BY <1>3, <2>1
<1>19. CASE LockOnMutex(t)
  BY <1>3, <1>19 DEF LockOnMutex
<1>20. CASE UnlockMutex(t)
  BY <1>3, <1>20 DEF UnlockMutex
<1>21. CASE IncreaseSemaphore(t) \/ WaitOnSemaphore(t)
  BY ZenonT(30), <1>3, <1>21 DEF IncreaseSemaphore, WaitOnSemaphore
<1>22. CASE InitThread(t) \/ WaitOnThread(t)
  <2>1. PICK v, state : thr' = [thr EXCEPT ![t] = Returned(@, TRUE), ![v].state = state]
    BY <1>22 DEF InitThread, WaitOnThread
  <2>2. PICK mid : mid = [thr EXCEPT ![t] = Returned(@, TRUE)]
    OBVIOUS
  <2>3. thr' = [mid EXCEPT ![v].state = state]
    BY <2>1, <2>2
  <2>4. mid[t].pc = "call" /\ DOMAIN mid = Threads /\ DOMAIN mid[t] = DOMAIN thr[t]
    BY <2>2
  <2>5. Goal
    BY <2>3, <2>4
  <2> QED
    BY <2>5
<1>23. CASE ReadFileA(t)
  <2>1. PICK b : thr' = [thr EXCEPT ![t]["bufA"] = b, ![t].pc = "readB"]
    BY <1>23 DEF ReadFileA, ReadEntireFile
  <2>2. PICK mid : mid = [thr EXCEPT ![t]["bufA"] = b]
    OBVIOUS
  <2>3. thr' = [mid EXCEPT ![t].pc = "readB"]
    BY <2>1, <2>2
  <2> QED
    BY <1>23, <2>2, <2>3
<1>24. CASE ReadFileB(t)
  <2>1. PICK b : thr' = [thr EXCEPT ![t]["bufB"] = b, ![t].pc = "compare"]
    BY <1>24 DEF ReadFileB, ReadEntireFile
  <2>2. PICK mid : mid = [thr EXCEPT ![t]["bufB"] = b]
    OBVIOUS
  <2>3. thr' = [mid EXCEPT ![t].pc = "compare"]
    BY <2>1, <2>2
  <2> QED
    BY <1>24, <2>2, <2>3
<1>25. CASE CompareFiles(t)
  <2>1. PICK ok : thr' = [thr EXCEPT ![t] = Returned(@, ok)]
    BY <1>25 DEF CompareFiles
  <2> QED
    BY <1>3, <2>1
<1> QED
  BY <1>2, <1>3, <1>4, <1>5, <1>6, <1>7, <1>8, <1>9, <1>10, <1>11, <1>12, <1>13, <1>14, <1>15,
     <1>16, <1>17, <1>18, <1>19, <1>20, <1>21, <1>22, <1>23, <1>24, <1>25 DEF FileStep, ThreadStep

LEMMA EqualPoints ==
  ASSUME ThreadsType, NEW t \in Threads, FileStep(t) \/ ThreadStep(t),
         ~ReadFileA(t), ~ReadFileB(t), ~CompareFiles(t)
  PROVE  /\ thr'[t].pc \notin {"readB", "compare"}
         /\ thr'[t].pc = "readA" => CompareSizes(t)
         /\ Call(t).fn = "equal" => CompareSizes(t)
<1>1. /\ thr'[t].pc \notin {"readB", "compare"}
      /\ thr'[t].pc = "readA" => CompareSizes(t)
  BY PointsReached
<1>2. ASSUME ~CompareSizes(t)
      PROVE  Call(t).fn /= "equal"
  BY <1>2 DEF FileStep, ThreadStep, At, OpenFile, ForceOpen, CloseFileHandle, RemoveFile, CheckSize,
       SeekToRead, ReadBytes, ReadFileAsync, WaitOnIoCompletion, SeekToWrite, WriteBytes,
       OpenSource, CreateDestination, SizeOfSource, CopyBytes, CloseSource, CloseDestination,
       CloseAgain, LockOnMutex, UnlockMutex, IncreaseSemaphore, WaitOnSemaphore, InitThread, WaitOnThread
<1> QED
  BY <1>1, <1>2

\* Thread t has read b to its buffer buf, in memory that it mapped unless b is empty.
ReadsTo(t, buf, next, b) ==
  /\ thr' = [thr EXCEPT ![t][buf] = b, ![t].pc = next]
  /\ DOMAIN maps' = Threads /\ \A u \in Threads \ {t} : maps'[u] = maps[u]
  /\ maps'[t] = maps[t] + One(b)

\* ReadEntireFile() maps memory when it gives bytes, and only then.
LEMMA ReadMaps ==
  ASSUME NEW t \in Threads, DOMAIN maps = Threads, maps[t] \in Nat,
         NEW slot, NEW buf, NEW next, ReadEntireFile(t, slot, buf, next)
  PROVE  \E b : ReadsTo(t, buf, next, b)
<1>1. PICK f, size : f = Handle(t, slot) /\ size = FileSizeOf(f)
  OBVIOUS
<1>2. PICK ok \in MemoryFor(size) :
        /\ thr' = [thr EXCEPT ![t][buf] = IF ok THEN content[fds[f].ino] ELSE << >>, ![t].pc = next]
        /\ maps' = IF ok THEN [maps EXCEPT ![t] = @ + 1] ELSE maps
  BY <1>1 DEF ReadEntireFile
<1>3. CASE ok
  <2>1. size /= 0 /\ size /= UszMax
    BY <1>2, <1>3 DEF MemoryFor
  <2>2. size = Len(content[fds[f].ino])
    BY <1>1, <2>1 DEF FileSizeOf
  <2>3. PICK b : b = content[fds[f].ino]
    OBVIOUS
  <2>4. b /= << >>
    BY <2>1, <2>2, <2>3, EmptySeq
  <2>5. One(b) = 1
    BY <2>4 DEF One
  <2>6. thr' = [thr EXCEPT ![t][buf] = b, ![t].pc = next] /\ maps' = [maps EXCEPT ![t] = @ + 1]
    BY <1>2, <1>3, <2>3
  <2>7. ReadsTo(t, buf, next, b)
    BY <2>5, <2>6 DEF ReadsTo
  <2> QED
    BY <2>7
<1>4. CASE ~ok
  <2>1. PICK b : b = << >>
    OBVIOUS
  <2>2. One(b) = 0
    BY <2>1 DEF One
  <2>3. thr' = [thr EXCEPT ![t][buf] = b, ![t].pc = next] /\ maps' = maps
    BY <1>2, <1>4, <2>1
  <2>4. ReadsTo(t, buf, next, b)
    BY <2>2, <2>3 DEF ReadsTo
  <2> QED
    BY <2>4
<1> QED
  BY <1>3, <1>4

\* A thread that changes nothing of its own leaves its memory right.
LEMMA MapsFrame ==
  ASSUME NEW u \in Threads, MapsOf(u), UNCHANGED program, maps'[u] = maps[u],
         thr'[u].ip = thr[u].ip, thr'[u].pc = thr[u].pc,
         thr'[u].bufA = thr[u].bufA, thr'[u].bufB = thr[u].bufB
  PROVE  MapsOf(u)'
<1>1. Call(u)' = Call(u) /\ Unequal(thr'[u]) = Unequal(thr[u])
  BY DEF Call, Unequal
<1>2. program' = program
  OBVIOUS
<1> QED
  BY <1>1, <1>2 DEF MapsOf

\* A thread compares its files.
LEMMA MapsCompares ==
  ASSUME AllTidy, ThreadsType, EndInv, MapsInv, NEW t \in Threads,
         ReadFileA(t) \/ ReadFileB(t) \/ CompareFiles(t)
  PROVE  /\ MapsOf(t)' /\ DOMAIN maps' = Threads
         /\ \A u \in Threads \ {t} : maps'[u] = maps[u]
<1>1. DOMAIN maps = Threads /\ MapsOf(t)
  BY DEF MapsInv
<1>2. UNCHANGED program /\ Call(t).fn = "equal" /\ thr[t].ip =< Len(program[t])
  BY DEF ReadFileA, ReadFileB, CompareFiles, At
<1>3. PICK s, i : s = program[t] /\ i = thr[t].ip
  OBVIOUS
<1>4. i \in 1..Len(s) /\ i \in Nat \ {0} /\ s[i].fn = "equal"
  BY <1>2, <1>3, ProgramsAssumption DEF ThreadsType, Call
<1>5. Tidy(s)
  BY <1>3 DEF AllTidy, ThreadsType
<1>6. ~Compared(s, i)
  BY <1>4, <1>5 DEF Tidy
<1>7. Compared(s, i + 1)
  BY <1>4, ComparedOn
<1>8. \A b : One(b) \in {0, 1}
  BY DEF One
<1>9. One(<< >>) = 0
  BY DEF One
<1>10. CASE ReadFileA(t)
  <2>1. thr[t].pc = "readA" /\ ReadEntireFile(t, 1, "bufA", "readB")
    BY <1>10 DEF ReadFileA, At
  <2>2. thr[t].bufA = << >> /\ thr[t].bufB = << >> /\ maps[t] = 0 /\ maps[t] \in Nat
    BY <1>1, <1>3, <1>6, <2>1 DEF MapsOf
  <2>3. PICK b : ReadsTo(t, "bufA", "readB", b)
    BY <1>1, <2>1, <2>2, ReadMaps
  <2>4. PICK mid : mid = [thr EXCEPT ![t]["bufA"] = b]
    OBVIOUS
  <2>5. thr' = [mid EXCEPT ![t].pc = "readB"]
    BY <2>3, <2>4 DEF ReadsTo
  <2>6. thr'[t].ip = i /\ thr'[t].pc = "readB" /\ thr'[t].bufA = b /\ thr'[t].bufB = << >>
    BY <1>3, <2>2, <2>4, <2>5 DEF ThreadsType, Idle
  <2>7. maps'[t] = One(b)
    BY <1>8, <2>2, <2>3 DEF ReadsTo
  <2>8. Call(t)'.fn = "equal" /\ ~Compared(program[t], i)
    BY <1>2, <1>3, <1>4, <1>6, <2>6 DEF Call
  <2>9. MapsOf(t)'
    BY <1>2, <2>6, <2>7, <2>8 DEF MapsOf
  <2> QED
    BY <2>3, <2>9 DEF ReadsTo
<1>11. CASE ReadFileB(t)
  <2>1. thr[t].pc = "readB" /\ ReadEntireFile(t, 2, "bufB", "compare")
    BY <1>11 DEF ReadFileB, At
  <2>2. thr[t].bufB = << >> /\ maps[t] = One(thr[t].bufA) /\ maps[t] \in Nat
    BY <1>1, <1>8, <2>1 DEF MapsOf
  <2>3. PICK b : ReadsTo(t, "bufB", "compare", b)
    BY <1>1, <2>1, <2>2, ReadMaps
  <2>4. PICK mid : mid = [thr EXCEPT ![t]["bufB"] = b]
    OBVIOUS
  <2>5. thr' = [mid EXCEPT ![t].pc = "compare"]
    BY <2>3, <2>4 DEF ReadsTo
  <2>6. thr'[t].ip = i /\ thr'[t].pc = "compare" /\ thr'[t].bufA = thr[t].bufA /\ thr'[t].bufB = b
    BY <1>3, <2>4, <2>5 DEF ThreadsType, Idle
  <2>7. maps'[t] = One(thr'[t].bufA) + One(thr'[t].bufB)
    BY <2>2, <2>3, <2>6 DEF ReadsTo
  <2>8. Call(t)'.fn = "equal" /\ ~Compared(program[t], i)
    BY <1>2, <1>3, <1>4, <1>6, <2>6 DEF Call
  <2>9. MapsOf(t)'
    BY <1>2, <2>6, <2>7, <2>8 DEF MapsOf
  <2> QED
    BY <2>3, <2>9 DEF ReadsTo
<1>12. CASE CompareFiles(t)
  <2>1. thr[t].pc = "compare"
    BY <1>12 DEF CompareFiles, At
  <2>2. maps[t] = One(thr[t].bufA) + One(thr[t].bufB)
    BY <1>1, <2>1 DEF MapsOf
  <2>3. PICK freed : freed = BuffersFreed(thr[t]) /\ maps' = [maps EXCEPT ![t] = @ - freed]
    BY <1>12 DEF CompareFiles
  <2>4. /\ DOMAIN maps' = Threads /\ maps'[t] = maps[t] - freed
        /\ \A u \in Threads \ {t} : maps'[u] = maps[u]
    BY <1>1, <2>3
  <2>5. PICK ok : thr' = [thr EXCEPT ![t] = Returned(@, ok)]
    BY <1>12 DEF CompareFiles
  <2>6. /\ thr'[t].ip = i + 1 /\ thr'[t].pc = "call"
        /\ thr'[t].bufA = thr[t].bufA /\ thr'[t].bufB = thr[t].bufB
    BY <1>3, <2>5 DEF ThreadsType, Idle, Returned
  <2>7. (One(thr[t].bufA) + One(thr[t].bufB)) - freed = Unequal(thr[t])
    BY <2>3 DEF One, BuffersFreed, Unequal
  <2>8. maps'[t] = Unequal(thr'[t])
    <3>1. Unequal(thr'[t]) = Unequal(thr[t])
      BY <2>6 DEF Unequal
    <3> QED
      BY <2>2, <2>4, <2>7, <3>1
  <2>9. Compared(program[t], i + 1)
    BY <1>3, <1>7
  <2>10. MapsOf(t)'
    BY <1>2, <2>6, <2>8, <2>9 DEF MapsOf
  <2> QED
    BY <2>4, <2>10
<1> QED
  BY <1>10, <1>11, <1>12

\* A thread makes a step that is none of a comparison, but perhaps its first.
LEMMA MapsRest ==
  ASSUME AllTidy, ThreadsType, MapsInv, NEW t \in Threads, FileStep(t) \/ ThreadStep(t),
         ~ReadFileA(t), ~ReadFileB(t), ~CompareFiles(t)
  PROVE  MapsOf(t)'
<1>1. MapsOf(t)
  BY DEF MapsInv
<1>2. /\ thr'[t].pc \notin {"readB", "compare"}
      /\ thr'[t].pc = "readA" => CompareSizes(t)
      /\ Call(t).fn = "equal" => CompareSizes(t)
  BY EqualPoints
<1>3. GoesOn(t) /\ UNCHANGED program /\ thr[t].ip =< Len(program[t])
  BY ThreadFrame, ProgramStays, InACall
<1>4. thr'[t].bufA = thr[t].bufA /\ thr'[t].bufB = thr[t].bufB /\ UNCHANGED maps
  BY MemoryFrame DEF MemoryStays
<1>5. PICK s, i : s = program[t] /\ i = thr[t].ip
  OBVIOUS
<1>6. i \in 1..Len(s) /\ i \in Nat \ {0} /\ s[i] = Call(t)
  BY <1>3, <1>5, ProgramsAssumption DEF ThreadsType, Call
<1>7. Tidy(s)
  BY <1>5 DEF AllTidy, ThreadsType
<1>8. CompareSizes(t) => thr[t].pc = "call" /\ Call(t).fn = "equal"
  BY DEF CompareSizes, At
<1>9. thr[t].pc \notin {"readA", "readB", "compare"}
  BY <1>1, <1>2, <1>8 DEF MapsOf
<1>10. ~Compared(s, i) => thr[t].bufA = << >> /\ thr[t].bufB = << >> /\ maps[t] = 0
  BY <1>1, <1>5, <1>9 DEF MapsOf
<1>11. Compared(s, i) => maps[t] = Unequal(thr[t])
  BY <1>1, <1>5 DEF MapsOf
<1>12. maps[t] = Unequal(thr[t])
  BY <1>10, <1>11 DEF Unequal
<1>13. maps'[t] = Unequal(thr'[t])
  BY <1>4, <1>12 DEF Unequal
<1>14. thr'[t].ip \in {i, i + 1}
  BY <1>3, <1>5 DEF GoesOn
<1>15. ~Compared(s, thr'[t].ip) => ~Compared(s, i)
  BY <1>6, <1>14, ComparedOn
<1>16. ~Compared(program'[t], thr'[t].ip)
         => thr'[t].bufA = << >> /\ thr'[t].bufB = << >> /\ maps'[t] = 0
  BY <1>3, <1>4, <1>5, <1>10, <1>15
<1>17. thr'[t].pc = "readA" => Call(t)'.fn = "equal"
  <2> SUFFICES ASSUME thr'[t].pc = "readA"
               PROVE  Call(t)'.fn = "equal"
    OBVIOUS
  <2>1. thr'[t].ip = thr[t].ip
    BY <1>3 DEF GoesOn
  <2> QED
    BY <1>2, <1>3, <1>8, <2>1 DEF Call
<1> QED
  BY <1>2, <1>13, <1>16, <1>17 DEF MapsOf

LEMMA MapsStep ==
  ASSUME AllTidy, FilesInv, EndInv, MapsInv, [Next]_fileVars
  PROVE  MapsInv'
<1>1. ThreadsType
  BY DEF FilesInv
<1>2. CASE UNCHANGED fileVars
  BY <1>2 DEF fileVars, MapsInv, MapsOf, Call
<1>3. ASSUME NEW t \in Threads, FileStep(t) \/ ThreadStep(t) \/ CompleteRead(t)
      PROVE  MapsInv'
  <2>1. MemoryStays(t)
    BY <1>1, <1>3, MemoryFrame
  <2>2. UNCHANGED program /\ \A u \in Threads \ {t} : thr'[u].ip = thr[u].ip /\ thr'[u].pc = thr[u].pc
    BY <1>1, <1>3, ThreadFrame, ProgramStays, RequestFrame DEF OthersStay
  <2>3. /\ MapsOf(t)' /\ DOMAIN maps' = Threads
        /\ \A u \in Threads \ {t} : maps'[u] = maps[u]
    <3>1. CASE ReadFileA(t) \/ ReadFileB(t) \/ CompareFiles(t)
      BY <1>1, <3>1, MapsCompares
    <3>2. CASE ~ReadFileA(t) /\ ~ReadFileB(t) /\ ~CompareFiles(t)
      <4>1. thr'[t].bufA = thr[t].bufA /\ thr'[t].bufB = thr[t].bufB /\ UNCHANGED maps
        BY <2>1, <3>2 DEF MemoryStays
      <4>2. CASE CompleteRead(t)
        <5>1. thr'[t].ip = thr[t].ip /\ thr'[t].pc = thr[t].pc
          BY <1>1, <4>2, RequestFrame
        <5> QED
          BY <2>2, <4>1, <5>1, MapsFrame DEF MapsInv
      <4>3. CASE FileStep(t) \/ ThreadStep(t)
        BY <1>1, <3>2, <4>1, <4>3, MapsRest DEF MapsInv
      <4> QED
        BY <1>3, <4>2, <4>3
    <3> QED
      BY <3>1, <3>2
  <2>4. ASSUME NEW u \in Threads \ {t}
        PROVE  MapsOf(u)'
    <3>1. /\ maps'[u] = maps[u] /\ thr'[u].ip = thr[u].ip /\ thr'[u].pc = thr[u].pc
          /\ thr'[u].bufA = thr[u].bufA /\ thr'[u].bufB = thr[u].bufB
      BY <2>1, <2>2, <2>3 DEF MemoryStays
    <3> QED
      BY <2>2, <3>1, MapsFrame DEF MapsInv
  <2>5. \A u \in Threads : MapsOf(u)'
    BY <2>3, <2>4
  <2> QED
    BY <2>3, <2>5 DEF MapsInv
<1> QED
  BY <1>2, <1>3 DEF Next, AllOver

LEMMA MapsInit == Init => MapsInv
<1> SUFFICES ASSUME Init PROVE MapsInv
  OBVIOUS
<1>1. DOMAIN maps = Threads /\ \A u \in Threads : maps[u] = 0
  BY DEF Init
<1>2. \A u \in Threads : /\ thr[u].ip = 1 /\ thr[u].pc = "call"
                         /\ thr[u].bufA = << >> /\ thr[u].bufB = << >>
  BY DEF Init, Idle
<1>3. \A s : ~Compared(s, 1)
  BY DEF Compared
<1>4. ASSUME NEW u \in Threads
      PROVE  MapsOf(u)
  BY <1>1, <1>2, <1>3 DEF MapsOf
<1> QED
  BY <1>1, <1>4 DEF MapsInv

\* Where all threads are over, nothing is held any more.
LEMMA NothingHeld ==
  ASSUME AllTidy, FilesInv, EndInv, PlacesInv, MapsInv,
         \A u \in Threads : thr[u].state = "joined" \/ Ended(u)
  PROVE  /\ \A f \in 2..MaxFds : ~IsOpen(f)
         /\ \A u \in Threads : maps[u] = Unequal(thr[u])
<1>1. ThreadsType /\ AgainInv
  BY DEF FilesInv
<1>2. ASSUME NEW u \in Threads
      PROVE  thr[u].ip = Len(program[u]) + 1 /\ thr[u].pc = "call"
  <2>1. Len(program[u]) \in Nat /\ thr[u].ip \in Nat
    BY <1>1, ProgramsAssumption DEF ThreadsType
  <2>2. thr[u].ip > Len(program[u])
    BY DEF EndInv, Ended
  <2> QED
    BY <2>1, <2>2 DEF EndInv
<1>3. \A f \in 2..MaxFds : ~IsOpen(f)
  <2> SUFFICES ASSUME NEW f \in 2..MaxFds, fds[f].ino /= 0
               PROVE  FALSE
    BY DEF IsOpen
  <2>1. PICK u \in Threads : Knows(thr[u], f)
    BY DEF PlacesInv, KnownInv
  <2>2. f /= 0
    OBVIOUS
  <2>3. thr[u].src = 0 /\ thr[u].dst = 0 /\ thr[u].again = 0
    BY <1>1, <1>2 DEF PlacesInv, LocalsInv, AgainInv
  <2>4. PICK k \in 1..2 : thr[u].h[k] /= 0
    BY <2>1, <2>2, <2>3 DEF Knows
  <2>5. SlotOpen(program[u], Len(program[u]) + 1, k)
    BY <1>2, <2>4 DEF PlacesInv, SlotsInv
  <2>6. Tidy(program[u])
    BY <1>1 DEF AllTidy, ThreadsType
  <2> QED
    BY <2>5, <2>6 DEF Tidy
<1>4. ASSUME NEW u \in Threads
      PROVE  maps[u] = Unequal(thr[u])
  <2>1. MapsOf(u)
    BY DEF MapsInv
  <2>2. CASE Compared(program[u], thr[u].ip)
    BY <2>1, <2>2 DEF MapsOf
  <2>3. CASE ~Compared(program[u], thr[u].ip)
    <3>1. thr[u].bufA = << >> /\ thr[u].bufB = << >> /\ maps[u] = 0
      BY <1>2, <2>1, <2>3 DEF MapsOf
    <3> QED
      BY <3>1 DEF Unequal
  <2> QED
    BY <2>2, <2>3
<1> QED
  BY <1>3, <1>4

(***************************************************************************)
(* When all threads are over, every descriptor but the shared one is       *)
(* closed, and the memory of every comparison given back, but that of one  *)
(* which got a single buffer: for any threads and programs that close what *)
(* they open, open a handle again only when it is closed, and compare at   *)
(* most once, whatever calls fail on the way.                              *)
(***************************************************************************)
THEOREM NothingStaysOpen ==
  ASSUME AllTidy PROVE Spec => []NothingLeaks
<1> DEFINE Inv == FilesInv /\ EndInv /\ PlacesInv /\ MapsInv
<1>1. Init => Inv
  BY FilesInit, PlacesInit, MapsInit
<1>2. Inv /\ [Next]_fileVars => Inv'
  BY FilesStep, EndStep, PlacesStep, MapsStep
<1>3. Inv => NothingLeaks
  BY NothingHeld DEF NothingLeaks, Unequal
<1> QED
  BY <1>1, <1>2, <1>3, PTL DEF Spec

-------------------------------------------------------------------------------

(***************************************************************************)
(* Copies and comparisons, while nobody writes the files.                  *)
(***************************************************************************)

\* A thread changes only its own handles and locals.
LEMMA OthersFrame ==
  ASSUME ThreadsType, NEW t \in Threads, FileStep(t) \/ ThreadStep(t) \/ CompleteRead(t),
         NEW u \in Threads, u /= t
  PROVE  /\ thr'[u].h = thr[u].h /\ thr'[u].ino = thr[u].ino /\ thr'[u].pc = thr[u].pc
         /\ thr'[u].src = thr[u].src /\ thr'[u].dst = thr[u].dst
         /\ thr'[u].size = thr[u].size /\ thr'[u].count = thr[u].count
<1>1. CASE thr'[u] = thr[u]
  BY <1>1
<1>2. CASE InitThread(t) \/ WaitOnThread(t)
  <2>1. PICK v, state : thr' = [thr EXCEPT ![t] = Returned(@, TRUE), ![v].state = state]
    BY <1>2 DEF InitThread, WaitOnThread
  <2>2. PICK mid : mid = [thr EXCEPT ![t] = Returned(@, TRUE)]
    OBVIOUS
  <2>3. thr' = [mid EXCEPT ![v].state = state]
    BY <2>1, <2>2
  <2>4. mid[u] = thr[u] /\ DOMAIN mid = Threads
    BY <2>2 DEF ThreadsType
  <2> QED
    BY <2>3, <2>4 DEF ThreadsType, Idle
<1>3. OpenFile(t) \/ ForceOpen(t) \/ CloseFileHandle(t) \/ RemoveFile(t) => thr'[u] = thr[u]
  BY DEF ThreadsType, OpenFile, ForceOpen, CloseFileHandle, RemoveFile
<1>4. CheckSize(t) \/ SeekToRead(t) \/ ReadBytes(t) \/ ReadFileAsync(t) => thr'[u] = thr[u]
  BY DEF ThreadsType, CheckSize, SeekToRead, ReadBytes, ReadFileAsync
<1>5. WaitOnIoCompletion(t) \/ SeekToWrite(t) \/ WriteBytes(t) \/ CompareSizes(t) => thr'[u] = thr[u]
  BY DEF ThreadsType, WaitOnIoCompletion, SeekToWrite, WriteBytes, CompareSizes
<1>6. ReadFileA(t) \/ ReadFileB(t) \/ CompareFiles(t) => thr'[u] = thr[u]
  BY DEF ThreadsType, ReadFileA, ReadFileB, ReadEntireFile, CompareFiles
<1>7. OpenSource(t) \/ CreateDestination(t) \/ SizeOfSource(t) => thr'[u] = thr[u]
  BY DEF ThreadsType, OpenSource, CreateDestination, SizeOfSource
<1>8. CopyBytes(t) \/ CloseSource(t) \/ CloseDestination(t) \/ CloseAgain(t) => thr'[u] = thr[u]
  BY DEF ThreadsType, CopyBytes, CloseSource, CloseDestination, CloseAgain
<1>9. LockOnMutex(t) \/ UnlockMutex(t) \/ IncreaseSemaphore(t) \/ WaitOnSemaphore(t) => thr'[u] = thr[u]
  BY DEF ThreadsType, LockOnMutex, UnlockMutex, IncreaseSemaphore, WaitOnSemaphore
<1>10. CompleteRead(t) => thr'[u] = thr[u]
  BY RequestFrame
<1> QED
  BY <1>1, <1>2, <1>3, <1>4, <1>5, <1>6, <1>7, <1>8, <1>9, <1>10 DEF FileStep, ThreadStep

\* What a thread holds that has lost nothing: open descriptors, that are not the
\* shared one, and that no other such thread holds.
LEMMA HeldFacts ==
  ASSUME OwnInv, NEW u \in Threads \ lost, NEW i \in 1..4, NEW g, g = Hands[u][i], g /= 0
  PROVE  /\ g \in 2..MaxFds /\ fds[g].ino /= 0
         /\ \A v \in Threads \ lost, j \in 1..4 : Hands[v][j] = g => v = u /\ j = i
<1>1. PICK H, A, I, L : H = Hands /\ A = Agains /\ I = Inodes /\ L = lost
  OBVIOUS
<1>2. Own(H, A, I, L)
  BY <1>1 DEF OwnInv
<1>3. u \in Threads \ L /\ H[u][i] = g
  BY <1>1
<1>4. g \in 0..MaxFds /\ g /= 1 /\ I[g] /= 0
  BY <1>2, <1>3 DEF Own, OwnType, Fd
<1>5. g \in 2..MaxFds
  BY <1>4, FilesAssumption
<1>6. \A v \in Threads \ L, j \in 1..4 : H[v][j] = g => v = u /\ j = i
  BY <1>2, <1>3 DEF Own
<1> QED
  BY <1>1, <1>4, <1>5, <1>6 DEF Inodes

\* A descriptor is opened for the start of the file, and one that is open is not opened.
LEMMA NewFilePlace ==
  ASSUME KernelType, NEW path \in ToSet(Paths), NEW how, NewFile(path, how),
         NEW f, f = Opened(path, how)
  PROVE  /\ f /= 0 => fds'[f].pos = 0
         /\ \A g \in 1..MaxFds : fds[g].ino /= 0 => fds'[g] = fds[g]
<1>1. CASE f = 0
  BY <1>1 DEF NewFile, kernelVars
<1>2. CASE f /= 0
  <2>1. /\ f \in 1..MaxFds /\ fds[f].ino = 0
        /\ \A g \in 1..MaxFds : g /= f => fds'[g] = fds[g]
    BY <1>2, NewFileFacts
  <2>2. PICK ino : fds' = [fds EXCEPT ![f] = [ino |-> ino, pos |-> 0]]
    BY <1>2 DEF NewFile
  <2>3. fds'[f].pos = 0
    BY <2>1, <2>2 DEF KernelType
  <2> QED
    BY <2>1, <2>3
<1> QED
  BY <1>1, <1>2

\* What a call that closes a descriptor closes.
LEMMA ClosesSome ==
  ASSUME NEW t \in Threads,
         CloseFileHandle(t) \/ CloseSource(t) \/ CloseDestination(t) \/ CloseAgain(t)
  PROVE  \E f : Close(t, f)
BY DEF CloseFileHandle, CloseSource, CloseDestination, CloseAgain

\* What a thread holds that loses nothing stays open, and that of its inode.
LEMMA InodesKept ==
  ASSUME FilesInv, NEW t \in Threads, FileStep(t) \/ ThreadStep(t) \/ CompleteRead(t),
         NEW u \in Threads \ lost, u \notin lost', NEW i \in 1..4, NEW g, g = Hands[u][i], g /= 0,
         u /= t \/ ~(CloseFileHandle(t) \/ CloseSource(t) \/ CloseDestination(t) \/ CloseAgain(t))
  PROVE  fds'[g].ino = fds[g].ino
<1>1. ThreadsType /\ KernelType /\ OwnInv
  BY DEF FilesInv
<1>2. g \in 2..MaxFds /\ fds[g].ino /= 0
  BY <1>1, HeldFacts
<1>3. g \in 1..MaxFds
  BY <1>2
<1>4. CASE KeepsHands(t)
  BY <1>1, <1>3, <1>4, KeepKernel DEF InodesStay
<1>5. CASE OpenFile(t) \/ ForceOpen(t) \/ OpenSource(t) \/ CreateDestination(t)
  <2>1. PICK path, how : path \in ToSet(Paths) /\ NewFile(path, how)
    BY <1>1, <1>5, OpensToHandles
  <2> QED
    BY <1>1, <1>2, <1>3, <2>1, NewFilePlace
<1>6. CASE u /= t /\ (CloseFileHandle(t) \/ CloseSource(t) \/ CloseDestination(t) \/ CloseAgain(t))
  <2>1. PICK f : Close(t, f)
    BY <1>6, ClosesSome
  <2>2. CASE f = g
    <3>1. IsOpen(f)
      BY <1>2, <1>3, <2>2 DEF IsOpen
    <3>2. \/ thr[u].h[1] = g \/ thr[u].h[2] = g
          \/ thr[u].src = g \/ thr[u].dst = g
      BY HandsOf
    <3>3. u \in Holders(f)
      BY <2>2, <3>2 DEF Holders
    <3> QED
      BY <1>6, <2>1, <3>1, <3>3 DEF Close
  <2>3. CASE f /= g
    BY <1>1, <1>3, <2>1, <2>3 DEF Close, KernelType
  <2> QED
    BY <2>2, <2>3
<1> QED
  BY <1>4, <1>5, <1>6 DEF FileStep, ThreadStep, KeepsHands

\* The handles of a thread that has lost none are of the files they were opened to be.
HandlesMeant == \A u \in Threads \ lost, i \in 1..2 : thr[u].h[i] /= 0 => fds[thr[u].h[i]].ino = thr[u].ino[i]

LEMMA HandlesStep ==
  ASSUME FilesInv, HandlesMeant, [Next]_fileVars
  PROVE  HandlesMeant'
<1>1. lost \subseteq lost'
  BY LostGrows
<1>2. ThreadsType /\ KernelType /\ AgainInv /\ OwnInv
  BY DEF FilesInv
<1>3. CASE UNCHANGED fileVars
  BY <1>3 DEF fileVars, HandlesMeant
<1>4. ASSUME NEW t \in Threads, FileStep(t) \/ ThreadStep(t) \/ CompleteRead(t),
             NEW u \in Threads \ lost', NEW i \in 1..2, thr'[u].h[i] /= 0
      PROVE  fds'[thr'[u].h[i]].ino = thr'[u].ino[i]
  <2>1. ASSUME NEW g, g = thr[u].h[i], g /= 0
        PROVE  g = Hands[u][i] /\ g \in 1..MaxFds /\ fds[g].ino = thr[u].ino[i] /\ fds[g].ino /= 0
    <3>1. g = Hands[u][i] /\ i \in 1..4 /\ u \in Threads \ lost
      BY <1>1, <2>1, HandsOf
    <3>2. g \in 2..MaxFds /\ fds[g].ino /= 0
      BY <1>2, <2>1, <3>1, HeldFacts
    <3>3. fds[g].ino = thr[u].ino[i]
      BY <2>1, <3>1 DEF HandlesMeant
    <3>4. g \in 1..MaxFds
      BY <3>2
    <3> QED
      BY <3>1, <3>2, <3>3, <3>4
  <2>2. ASSUME thr'[u].h[i] = thr[u].h[i], thr'[u].ino[i] = thr[u].ino[i],
               fds'[thr[u].h[i]].ino = fds[thr[u].h[i]].ino
        PROVE  fds'[thr'[u].h[i]].ino = thr'[u].ino[i]
    BY <1>4, <2>1, <2>2
  <2>3. CASE u /= t
    <3>1. thr'[u].h = thr[u].h /\ thr'[u].ino = thr[u].ino
      BY <1>2, <1>4, <2>3, OthersFrame
    <3>2. fds'[thr[u].h[i]].ino = fds[thr[u].h[i]].ino
      <4>1. PICK g : g = thr[u].h[i]
        OBVIOUS
      <4>2. g = Hands[u][i] /\ g /= 0 /\ i \in 1..4 /\ u \in Threads \ lost /\ u \notin lost'
        BY <1>1, <1>4, <2>1, <3>1, <4>1
      <4>3. fds'[g].ino = fds[g].ino
        BY <1>4, <2>3, <4>2, InodesKept
      <4> QED
        BY <4>1, <4>3
    <3> QED
      BY <2>2, <3>1, <3>2
  <2>4. CASE u = t /\ KeepsHands(t)
    <3>1. HandsStay /\ InodesStay
      BY <1>2, <2>4, KeepStep, KeepKernel
    <3>2. thr'[u].h = thr[u].h /\ thr'[u].ino = thr[u].ino
      BY <3>1 DEF HandsStay
    <3>3. thr[u].h[i] \in 1..MaxFds
      BY <1>4, <2>1, <3>2
    <3>4. fds'[thr[u].h[i]].ino = fds[thr[u].h[i]].ino
      BY <3>1, <3>3 DEF InodesStay
    <3> QED
      BY <2>2, <3>2, <3>4
  <2>5. CASE u = t /\ (OpenFile(t) \/ ForceOpen(t) \/ OpenSource(t) \/ CreateDestination(t))
    <3>1. PICK path, how :
            /\ path \in ToSet(Paths) /\ NewFile(path, how)
            /\ \A j \in 1..2 : \/ thr'[t].h[j] = thr[t].h[j] /\ thr'[t].ino[j] = thr[t].ino[j]
                               \/ thr'[t].h[j] = Opened(path, how) /\ thr'[t].ino[j] = names'[path]
      BY <1>2, <2>5, OpensToHandles
    <3>2. CASE thr'[t].h[i] = thr[t].h[i] /\ thr'[t].ino[i] = thr[t].ino[i]
      <4>1. thr[u].h[i] \in 1..MaxFds /\ fds[thr[u].h[i]].ino /= 0
        BY <1>4, <2>1, <2>5, <3>2
      <4>2. fds'[thr[u].h[i]] = fds[thr[u].h[i]]
        BY <1>2, <3>1, <4>1, NewFilePlace
      <4> QED
        BY <2>2, <2>5, <3>2, <4>2
    <3>3. CASE thr'[t].h[i] = Opened(path, how) /\ thr'[t].ino[i] = names'[path]
      <4>1. PICK f : f = Opened(path, how)
        OBVIOUS
      <4>2. f /= 0 => fds'[f].ino = names'[path]
        BY <1>2, <3>1, <4>1, NewFileFacts
      <4> QED
        BY <1>4, <2>5, <3>3, <4>1, <4>2
    <3> QED
      BY <3>1, <3>2, <3>3
  <2>6. CASE u = t /\ (CloseFileHandle(t) \/ CloseSource(t) \/ CloseDestination(t) \/ CloseAgain(t))
    <3>1. PICK f : /\ Close(t, f)
                   /\ \A j \in 1..2 : thr'[t].h[j] /= 0 =>
                         thr'[t].h[j] = thr[t].h[j] /\ thr'[t].ino[j] = thr[t].ino[j] /\ thr'[t].h[j] /= f
      BY <1>1, <1>2, <1>4, <2>6, ClosesOwn
    <3>2. thr'[u].h[i] = thr[u].h[i] /\ thr'[u].ino[i] = thr[u].ino[i] /\ thr[u].h[i] /= f
      BY <1>4, <2>6, <3>1
    <3>3. thr[u].h[i] \in 1..MaxFds
      BY <1>4, <2>1, <3>2
    <3>4. fds'[thr[u].h[i]] = fds[thr[u].h[i]]
      BY <1>2, <3>1, <3>2, <3>3 DEF Close, KernelType
    <3> QED
      BY <2>2, <3>2, <3>4
  <2> QED
    BY <1>4, <2>3, <2>4, <2>5, <2>6 DEF FileStep, ThreadStep, KeepsHands
<1>5. ASSUME NEW t \in Threads, FileStep(t) \/ ThreadStep(t) \/ CompleteRead(t)
      PROVE  HandlesMeant'
  BY <1>4, <1>5 DEF HandlesMeant
<1> QED
  BY <1>3, <1>5 DEF Next, AllOver

LEMMA HandlesInit == Init => HandlesMeant
BY DEF Init, Idle, HandlesMeant

\* Nobody writes the files of a comparison between the first read and the last look.
ComparisonsUndisturbed ==
  \A u \in Threads : thr[u].pc \in {"readB", "compare"} =>
    \A i \in 1..2 : thr[u].h[i] /= 0 => content'[thr[u].ino[i]] = content[thr[u].ino[i]]

\* The buffers that a comparison has filled hold its files.
BuffersOf(u) ==
  /\ thr[u].pc \in {"readB", "compare"} /\ thr[u].bufA /= << >> =>
       thr[u].h[1] /= 0 /\ thr[u].bufA = content[thr[u].ino[1]]
  /\ thr[u].pc = "compare" /\ thr[u].bufB /= << >> =>
       thr[u].h[2] /= 0 /\ thr[u].bufB = content[thr[u].ino[2]]

BuffersInv == \A u \in Threads \ lost : BuffersOf(u)

\* Thread t has read b to its buffer buf: nothing, or what its file i holds.
Gives(t, i, buf, next, b) ==
  /\ thr' = [thr EXCEPT ![t][buf] = b, ![t].pc = next]
  /\ b /= << >> => thr[t].h[i] /= 0 /\ b = content[thr[t].ino[i]]

\* ReadEntireFile() gives nothing, or what the file of the handle holds.
LEMMA ReadGives ==
  ASSUME HandlesMeant, NEW t \in Threads \ lost, NEW i \in 1..2, NEW buf, NEW next,
         ReadEntireFile(t, i, buf, next)
  PROVE  \E b : Gives(t, i, buf, next, b)
<1>1. PICK f, size : f = Handle(t, i) /\ size = FileSizeOf(f)
  OBVIOUS
<1>2. PICK ok \in MemoryFor(size) :
        /\ thr' = [thr EXCEPT ![t][buf] = IF ok THEN content[fds[f].ino] ELSE << >>, ![t].pc = next]
        /\ maps' = IF ok THEN [maps EXCEPT ![t] = @ + 1] ELSE maps
  BY <1>1 DEF ReadEntireFile
<1>3. f = thr[t].h[i]
  BY <1>1 DEF Handle
<1>4. CASE ok
  <2>1. size /= UszMax
    BY <1>2, <1>4 DEF MemoryFor
  <2>2. IsOpen(f)
    BY <1>1, <2>1 DEF FileSizeOf, IsRegular
  <2>3. f /= 0
    BY <2>2, FilesAssumption DEF IsOpen
  <2>4. fds[f].ino = thr[t].ino[i]
    BY <1>3, <2>3 DEF HandlesMeant
  <2>5. PICK b : b = content[fds[f].ino]
    OBVIOUS
  <2>6. thr' = [thr EXCEPT ![t][buf] = b, ![t].pc = next]
    BY <1>2, <1>4, <2>5
  <2> QED
    BY <1>3, <2>3, <2>4, <2>5, <2>6 DEF Gives
<1>5. CASE ~ok
  <2>1. PICK b : b = << >>
    OBVIOUS
  <2>2. thr' = [thr EXCEPT ![t][buf] = b, ![t].pc = next]
    BY <1>2, <1>5, <2>1
  <2> QED
    BY <2>1, <2>2 DEF Gives
<1> QED
  BY <1>4, <1>5

\* A thread reads one of the files it compares.
LEMMA BuffersRead ==
  ASSUME ThreadsType, HandlesMeant, NEW t \in Threads \ lost, BuffersOf(t),
         ReadFileA(t) \/ ReadFileB(t)
  PROVE  BuffersOf(t)'
<1>1. UNCHANGED content
  BY DEF ReadFileA, ReadFileB
<1>2. CASE ReadFileA(t)
  <2>1. PICK b : Gives(t, 1, "bufA", "readB", b)
    BY <1>2, ReadGives DEF ReadFileA
  <2>2. PICK mid : mid = [thr EXCEPT ![t]["bufA"] = b]
    OBVIOUS
  <2>3. thr' = [mid EXCEPT ![t].pc = "readB"]
    BY <2>1, <2>2 DEF Gives
  <2>4. /\ thr'[t].pc = "readB" /\ thr'[t].bufA = b
        /\ thr'[t].ino = thr[t].ino /\ thr'[t].h = thr[t].h
    BY <2>2, <2>3 DEF ThreadsType, Idle
  <2>5. thr'[t].bufA /= << >> => thr'[t].h[1] /= 0 /\ thr'[t].bufA = content'[thr'[t].ino[1]]
    BY <1>1, <2>1, <2>4 DEF Gives
  <2> QED
    BY <2>4, <2>5 DEF BuffersOf
<1>3. CASE ReadFileB(t)
  <2>1. PICK b : Gives(t, 2, "bufB", "compare", b)
    BY <1>3, ReadGives DEF ReadFileB
  <2>2. PICK mid : mid = [thr EXCEPT ![t]["bufB"] = b]
    OBVIOUS
  <2>3. thr' = [mid EXCEPT ![t].pc = "compare"]
    BY <2>1, <2>2 DEF Gives
  <2>4. /\ thr'[t].pc = "compare" /\ thr'[t].bufB = b /\ thr'[t].ino = thr[t].ino
        /\ thr'[t].bufA = thr[t].bufA /\ thr'[t].h = thr[t].h
    BY <2>2, <2>3 DEF ThreadsType, Idle
  <2>5. thr[t].pc = "readB"
    BY <1>3 DEF ReadFileB, At
  <2>6. thr'[t].bufA /= << >> => thr'[t].h[1] /= 0 /\ thr'[t].bufA = content'[thr'[t].ino[1]]
    BY <1>1, <2>4, <2>5 DEF BuffersOf
  <2>7. thr'[t].bufB /= << >> => thr'[t].h[2] /= 0 /\ thr'[t].bufB = content'[thr'[t].ino[2]]
    BY <1>1, <2>1, <2>4 DEF Gives
  <2> QED
    BY <2>4, <2>6, <2>7 DEF BuffersOf
<1> QED
  BY <1>2, <1>3

LEMMA BuffersFrame ==
  ASSUME NEW u \in Threads, BuffersOf(u), ComparisonsUndisturbed,
         thr'[u].pc = thr[u].pc, thr'[u].ino = thr[u].ino, thr'[u].h = thr[u].h,
         thr'[u].bufA = thr[u].bufA, thr'[u].bufB = thr[u].bufB
  PROVE  BuffersOf(u)'
<1>1. thr[u].pc \in {"readB", "compare"} =>
        /\ thr[u].h[1] /= 0 => content'[thr[u].ino[1]] = content[thr[u].ino[1]]
        /\ thr[u].h[2] /= 0 => content'[thr[u].ino[2]] = content[thr[u].ino[2]]
  BY DEF ComparisonsUndisturbed
<1> QED
  BY <1>1 DEF BuffersOf

LEMMA BuffersStep ==
  ASSUME FilesInv, HandlesMeant, BuffersInv, [Next]_fileVars, ComparisonsUndisturbed
  PROVE  BuffersInv'
<1>1. ThreadsType /\ AgainInv /\ lost \subseteq lost'
  BY LostGrows DEF FilesInv
<1>2. CASE UNCHANGED fileVars
  BY <1>2 DEF fileVars, BuffersInv, BuffersOf
<1>3. ASSUME NEW t \in Threads, FileStep(t) \/ ThreadStep(t) \/ CompleteRead(t),
             NEW u \in Threads \ lost'
      PROVE  BuffersOf(u)'
  <2>1. u \in Threads \ lost /\ BuffersOf(u)
    BY <1>1 DEF BuffersInv
  <2>2. MemoryStays(t)
    BY <1>1, <1>3, MemoryFrame
  <2>3. CASE u /= t
    <3>1. thr'[u].pc = thr[u].pc /\ thr'[u].ino = thr[u].ino /\ thr'[u].h = thr[u].h
      BY <1>1, <1>3, <2>3, OthersFrame
    <3>2. thr'[u].bufA = thr[u].bufA /\ thr'[u].bufB = thr[u].bufB
      BY <2>2, <2>3 DEF MemoryStays
    <3> QED
      BY <2>1, <3>1, <3>2, BuffersFrame
  <2>4. CASE u = t /\ CompleteRead(t)
    <3>1. thr'[u].pc = thr[u].pc
      BY <1>1, <2>4, RequestFrame
    <3>2. thr'[u].ino = thr[u].ino /\ thr'[u].h = thr[u].h
      BY <1>1, <2>4, KeepStep DEF KeepsHands, HandsStay
    <3>3. thr'[u].bufA = thr[u].bufA /\ thr'[u].bufB = thr[u].bufB
      <4>1. PICK n, b, d :
              thr' = [thr EXCEPT ![t].aio = "done", ![t].bytes = n, ![t].buf = b, ![t].due = d]
        BY <2>4 DEF CompleteRead
      <4> QED
        BY <1>1, <2>4, <4>1 DEF ThreadsType, Idle
    <3> QED
      BY <2>1, <3>1, <3>2, <3>3, BuffersFrame
  <2>5. CASE u = t /\ (ReadFileA(t) \/ ReadFileB(t))
    BY <1>1, <2>1, <2>5, BuffersRead
  <2>6. CASE u = t /\ (FileStep(t) \/ ThreadStep(t)) /\ ~ReadFileA(t) /\ ~ReadFileB(t)
    <3>1. thr'[t].pc \notin {"readB", "compare"}
      BY <1>1, <2>6, PointsReached
    <3> QED
      BY <2>6, <3>1 DEF BuffersOf
  <2> QED
    BY <1>3, <2>3, <2>4, <2>5, <2>6
<1> QED
  BY <1>2, <1>3 DEF Next, AllOver, BuffersInv

LEMMA BuffersInit == Init => BuffersInv
BY DEF Init, Idle, BuffersInv, BuffersOf

(***************************************************************************)
(* FilesAreEqual() of a thread that has lost no descriptor says that two   *)
(* files are equal, where it gets at both, if and only if they are: for    *)
(* any threads and programs, whatever else they do, as long as nobody      *)
(* writes the two files while they are compared.                           *)
(***************************************************************************)
THEOREM ComparisonsAreRight ==
  Spec /\ [][ComparisonsUndisturbed]_fileVars => []EqualityDecided
<1> DEFINE Inv == FilesInv /\ HandlesMeant /\ BuffersInv
<1>1. Init => Inv
  BY FilesInit, HandlesInit, BuffersInit
<1>2. Inv /\ [Next]_fileVars /\ [ComparisonsUndisturbed]_fileVars => Inv'
  <2> SUFFICES ASSUME Inv, [Next]_fileVars, [ComparisonsUndisturbed]_fileVars
               PROVE  Inv'
    OBVIOUS
  <2>1. FilesInv' /\ HandlesMeant'
    BY FilesStep, HandlesStep
  <2>2. ComparisonsUndisturbed
    BY DEF fileVars, ComparisonsUndisturbed
  <2>3. BuffersInv'
    BY <2>2, BuffersStep
  <2> QED
    BY <2>1, <2>3
<1>3. Inv => EqualityDecided
  <2> SUFFICES ASSUME Inv, NEW t \in Threads \ lost, At(t, "equal", "compare"),
                      thr[t].bufA /= << >>, thr[t].bufB /= << >>
               PROVE  EqualBuffers(thr[t].bufA, thr[t].bufB)
                        <=> content[thr[t].ino[1]] = content[thr[t].ino[2]]
    BY DEF EqualityDecided
  <2>1. thr[t].bufA = content[thr[t].ino[1]] /\ thr[t].bufB = content[thr[t].ino[2]]
    BY DEF BuffersInv, BuffersOf, At
  <2> QED
    BY <2>1 DEF EqualBuffers
<1> QED
  BY <1>1, <1>2, <1>3, PTL DEF Spec

\* Nobody else writes the source and the destination of a copy, from where both are open.
CopiesUndisturbed ==
  \A u \in Threads : thr[u].pc \in {"size", "copy", "closeSource"} /\ ~CopyBytes(u) =>
    \A f \in {thr[u].src, thr[u].dst} : IsOpen(f) => content'[fds[f].ino] = content[fds[f].ino]

\* A thread that copies has opened what it copies from and to, has moved neither, has
\* emptied the destination, and then knows the size and has copied.
CopyOf(u) ==
  /\ thr[u].pc \in {"create", "size", "copy", "closeSource"} => thr[u].src /= 0
  /\ thr[u].pc \in {"size", "copy", "closeSource"} => thr[u].dst /= 0
  /\ thr[u].pc \in {"create", "size", "copy"} => fds[thr[u].src].pos = 0
  /\ thr[u].pc \in {"size", "copy"} => fds[thr[u].dst].pos = 0 /\ content[fds[thr[u].dst].ino] = << >>
  /\ thr[u].pc = "copy" /\ content[fds[thr[u].src].ino] /= Directory =>
       thr[u].size = Len(content[fds[thr[u].src].ino])
  /\ thr[u].pc = "closeSource" /\ content[fds[thr[u].src].ino] /= Directory /\ IsCopied(thr[u]) =>
       content[fds[thr[u].dst].ino] = content[fds[thr[u].src].ino]

CopiesInv == lost = {} => \A u \in Threads : CopyOf(u)

\* What is opened to be a new file, or emptied, is empty.
LEMMA DestinationEmpty ==
  ASSUME KernelType, KernelRange, NEW path \in ToSet(Paths), NEW how \in {"excl", "trunc"},
         NewFile(path, how), NEW f, f = Opened(path, how), f /= 0
  PROVE  content'[fds'[f].ino] = << >>
<1>1. PICK ino : ino = IF names[path] = 0 THEN Len(content) + 1 ELSE names[path]
  OBVIOUS
<1>2. content' = IF names[path] = 0 THEN Append(content, << >>)
                 ELSE IF how = "trunc" THEN [content EXCEPT ![ino] = << >>]
                 ELSE content
  BY <1>1 DEF NewFile
<1>3. fds'[f].ino = ino
  <2>1. f \in 1..MaxFds
    BY NewFileFacts
  <2>2. fds' = [fds EXCEPT ![f] = [ino |-> ino, pos |-> 0]]
    BY <1>1 DEF NewFile
  <2> QED
    BY <2>1, <2>2 DEF KernelType
<1>4. CASE names[path] = 0
  BY <1>1, <1>2, <1>3, <1>4, SequenceFacts DEF KernelType
<1>5. CASE names[path] /= 0
  <2>1. how = "trunc"
    BY <1>5 DEF Opened
  <2>2. ino \in 1..Len(content) /\ DOMAIN content = 1..Len(content)
    BY <1>1, <1>5, SequenceFacts DEF KernelType, KernelRange
  <2> QED
    BY <1>2, <1>3, <1>5, <2>1, <2>2
<1> QED
  BY <1>4, <1>5

\* All of a file is copied to the start of an empty one.
LEMMA WholeCopied ==
  ASSUME NEW c, Sequence(c), NEW n, n = Len(c)
  PROVE  Overwritten(<< >>, 0, SubSeq(Slice(c, 0, n), 1, n)) = c
<1>1. n \in Nat /\ DOMAIN c = 1..n
  BY SequenceFacts
<1>2. c = [k \in 1..n |-> c[k]]
  BY <1>1 DEF Sequence
<1>3. PICK S : S = {c[k] : k \in 1..n}
  OBVIOUS
<1>4. c \in Seq(S)
  BY <1>1, <1>2, <1>3, SeqDef
<1>5. SubSeq(c, 1, n) = c
  BY <1>4, SubSeqFull
<1>6. Slice(c, 0, n) = c
  <2>1. PICK m : m = 0 + n
    OBVIOUS
  <2>2. m = n /\ Min({m, n}) = n
    BY <1>1, <2>1, MinMaxOfTwo
  <2>3. PICK one : one = 0 + 1
    OBVIOUS
  <2>4. one = 1
    BY <2>3
  <2>5. Slice(c, 0, n) = SubSeq(c, one, Min({m, n}))
    BY <2>1, <2>3 DEF Slice
  <2>6. SubSeq(c, one, n) = c
    BY <1>5, <2>4
  <2> QED
    BY <2>2, <2>5, <2>6
<1>7. PICK r : r = Overwritten(<< >>, 0, c)
  OBVIOUS
<1>8. Max({Len(<< >>), 0 + Len(c)}) = n
  <2>1. PICK a, b : a = Len(<< >>) /\ b = 0 + Len(c)
    OBVIOUS
  <2>2. a = 0 /\ b = n
    <3>1. a = 0
      BY <2>1, EmptySequence
    <3> QED
      BY <1>1, <2>1, <3>1
  <2>3. a \in Int /\ b \in Int /\ a =< b
    BY <1>1, <2>2
  <2>4. Max({a, b}) = b
    BY <2>3, MinMaxOfTwo
  <2> QED
    BY <2>1, <2>2, <2>4
<1>9. r = [k \in 1..n |-> IF k - 0 \in DOMAIN c THEN c[k - 0]
                          ELSE IF k \in DOMAIN << >> THEN << >>[k] ELSE "0"]
  BY <1>7, <1>8 DEF Overwritten
<1>10. \A k \in 1..n : k - 0 = k /\ k \in DOMAIN c
  BY <1>1
<1>11. r = [k \in 1..n |-> c[k]]
  BY <1>9, <1>10
<1> QED
  BY <1>2, <1>5, <1>6, <1>7, <1>11

\* What another thread holds is left alone, position and all, as long as nobody loses a descriptor.
LEMMA OthersKeep ==
  ASSUME FilesInv, lost = {}, lost' = {},
         NEW t \in Threads, FileStep(t) \/ ThreadStep(t) \/ CompleteRead(t),
         NEW u \in Threads, u /= t, NEW i \in 1..4, NEW g, g = Hands[u][i], g /= 0
  PROVE  fds'[g] = fds[g]
<1>1. ThreadsType /\ KernelType /\ OwnInv
  BY DEF FilesInv
<1>2. u \in Threads \ lost /\ t \in Threads \ lost /\ u \notin lost'
  OBVIOUS
<1>3. /\ g \in 2..MaxFds /\ fds[g].ino /= 0
      /\ \A v \in Threads \ lost, j \in 1..4 : Hands[v][j] = g => v = u /\ j = i
  BY <1>1, <1>2, HeldFacts
<1>4. g \in 1..MaxFds /\ g /= 1
  BY <1>3
<1>5. CASE KeepsHands(t)
  <2>1. \A j \in 1..4 : Hands[t][j] /= g
    BY <1>2, <1>3
  <2> QED
    BY <1>1, <1>4, <1>5, <2>1, PositionsOf
<1>6. CASE OpenFile(t) \/ ForceOpen(t) \/ OpenSource(t) \/ CreateDestination(t)
  <2>1. PICK path, how : path \in ToSet(Paths) /\ NewFile(path, how)
    BY <1>1, <1>6, OpensToHandles
  <2> QED
    BY <1>1, <1>3, <1>4, <2>1, NewFilePlace
<1>7. CASE CloseFileHandle(t) \/ CloseSource(t) \/ CloseDestination(t) \/ CloseAgain(t)
  <2>1. PICK f : Close(t, f)
    BY <1>7, ClosesSome
  <2>2. fds'[g].ino = fds[g].ino
    BY <1>2, <1>7, InodesKept
  <2>3. f /= g
    BY <1>1, <1>3, <1>4, <2>1, <2>2 DEF Close, IsOpen, NoFd, KernelType
  <2> QED
    BY <1>1, <1>4, <2>1, <2>3 DEF Close, KernelType
<1> QED
  BY <1>5, <1>6, <1>7 DEF FileStep, ThreadStep, KeepsHands

\* What the locals of a copy are.
LEMMA LocalsHeld ==
  ASSUME FilesInv, lost = {}, NEW u \in Threads
  PROVE  /\ thr[u].src /= 0 => thr[u].src \in 2..MaxFds /\ IsOpen(thr[u].src)
         /\ thr[u].dst /= 0 => thr[u].dst \in 2..MaxFds /\ IsOpen(thr[u].dst)
         /\ thr[u].src /= 0 => thr[u].src /= thr[u].dst
<1>1. OwnInv /\ u \in Threads \ lost
  BY DEF FilesInv
<1>2. Hands[u][3] = thr[u].src /\ Hands[u][4] = thr[u].dst
  BY HandsOf
<1>3. ASSUME NEW g, g = Hands[u][3], g /= 0
      PROVE  g \in 2..MaxFds /\ IsOpen(g) /\ Hands[u][4] /= g
  <2>1. /\ g \in 2..MaxFds /\ fds[g].ino /= 0
        /\ \A v \in Threads \ lost, j \in 1..4 : Hands[v][j] = g => v = u /\ j = 3
    BY <1>1, <1>3, HeldFacts
  <2>2. Hands[u][4] /= g
    BY <1>1, <2>1
  <2> QED
    BY <2>1, <2>2 DEF IsOpen
<1>4. ASSUME NEW g, g = Hands[u][4], g /= 0
      PROVE  g \in 2..MaxFds /\ IsOpen(g)
  <2>1. g \in 2..MaxFds /\ fds[g].ino /= 0
    BY <1>1, <1>4, HeldFacts
  <2> QED
    BY <2>1 DEF IsOpen
<1> QED
  BY <1>2, <1>3, <1>4

\* Others leave a copy alone.
LEMMA CopyFrame ==
  ASSUME FilesInv, lost = {}, lost' = {}, CopiesUndisturbed,
         NEW t \in Threads, FileStep(t) \/ ThreadStep(t) \/ CompleteRead(t),
         NEW u \in Threads, u /= t, CopyOf(u)
  PROVE  CopyOf(u)'
<1>1. ThreadsType
  BY DEF FilesInv
<1>2. PICK src, dst, pc : src = thr[u].src /\ dst = thr[u].dst /\ pc = thr[u].pc
  OBVIOUS
<1>3. /\ thr'[u].pc = pc /\ thr'[u].src = src /\ thr'[u].dst = dst
      /\ thr'[u].size = thr[u].size /\ thr'[u].count = thr[u].count
  BY <1>1, <1>2, OthersFrame
<1>4. src = Hands[u][3] /\ dst = Hands[u][4]
  BY <1>2, HandsOf
<1>5. src /= 0 => fds'[src] = fds[src]
  BY <1>4, OthersKeep
<1>6. dst /= 0 => fds'[dst] = fds[dst]
  BY <1>4, OthersKeep
<1>7. (src /= 0 => IsOpen(src)) /\ (dst /= 0 => IsOpen(dst))
  BY <1>2, LocalsHeld
<1>8. ~CopyBytes(u)
  <2>1. CopyBytes(u) => thr[u].pc = "copy" /\ thr'[u].pc = "closeSource"
    BY <1>1, CopyPoints DEF CopyBytes, At
  <2> QED
    BY <1>2, <1>3, <2>1
<1>9. pc \in {"size", "copy", "closeSource"} =>
        /\ src /= 0 /\ dst /= 0
        /\ content'[fds[src].ino] = content[fds[src].ino]
        /\ content'[fds[dst].ino] = content[fds[dst].ino]
  <2>1. pc \in {"size", "copy", "closeSource"} => src /= 0 /\ dst /= 0
    BY <1>2 DEF CopyOf
  <2> QED
    BY <1>2, <1>7, <1>8, <2>1 DEF CopiesUndisturbed
<1>10. /\ pc \in {"create", "size", "copy", "closeSource"} => src /= 0
       /\ pc \in {"create", "size", "copy"} => fds[src].pos = 0
       /\ pc \in {"size", "copy"} => fds[dst].pos = 0 /\ content[fds[dst].ino] = << >>
       /\ pc = "copy" /\ content[fds[src].ino] /= Directory => thr[u].size = Len(content[fds[src].ino])
       /\ pc = "closeSource" /\ content[fds[src].ino] /= Directory /\ IsCopied(thr[u]) =>
            content[fds[dst].ino] = content[fds[src].ino]
  BY <1>2 DEF CopyOf
<1>11. /\ pc \in {"create", "size", "copy"} => fds'[src].pos = 0
       /\ pc \in {"size", "copy"} => fds'[dst].pos = 0 /\ content'[fds'[dst].ino] = << >>
  BY <1>5, <1>6, <1>9, <1>10
<1>12. /\ pc = "copy" /\ content'[fds'[src].ino] /= Directory => thr[u].size = Len(content'[fds'[src].ino])
       /\ pc = "closeSource" /\ content'[fds'[src].ino] /= Directory /\ IsCopied(thr[u]) =>
            content'[fds'[dst].ino] = content'[fds'[src].ino]
  BY <1>5, <1>6, <1>9, <1>10
<1>13. IsCopied(thr'[u]) <=> IsCopied(thr[u])
  BY <1>3 DEF IsCopied
<1> QED
  BY <1>3, <1>9, <1>10, <1>11, <1>12, <1>13 DEF CopyOf

\* DuplicateFile() opens its source, and its destination.
LEMMA CopyOpens ==
  ASSUME FilesInv, KernelRange, lost = {}, NEW t \in Threads, CopyOf(t),
         \/ OpenSource(t) /\ thr'[t].pc = "create"
         \/ CreateDestination(t) /\ thr'[t].pc = "size"
  PROVE  CopyOf(t)'
<1>1. ThreadsType /\ KernelType
  BY DEF FilesInv
<1>2. Call(t).src \in ToSet(Paths) /\ Call(t).dst \in ToSet(Paths)
  BY <1>1, CallFacts DEF OpenSource, CreateDestination, At
<1>3. CASE OpenSource(t) /\ thr'[t].pc = "create"
  <2>1. PICK path, f : path = Call(t).src /\ f = Opened(path, "open")
    OBVIOUS
  <2>2. NewFile(path, "open")
    BY <1>3, <2>1 DEF OpenSource
  <2>3. f /= 0
    <3>1. ASSUME f = 0
          PROVE  thr' = [thr EXCEPT ![t] = Returned(@, FALSE)]
      BY <1>3, <2>1, <3>1 DEF OpenSource
    <3>2. f = 0 => thr'[t].pc = "call"
      BY <1>1, <3>1 DEF ThreadsType, Idle, Returned
    <3> QED
      BY <1>3, <3>2
  <2>4. thr' = [thr EXCEPT ![t] = [@ EXCEPT !.src = f, !.pc = "create"]]
    BY <1>3, <2>1, <2>3 DEF OpenSource
  <2>5. thr'[t].src = f
    BY <1>1, <2>4 DEF ThreadsType, Idle
  <2>6. fds'[f].pos = 0
    BY <1>1, <1>2, <2>1, <2>2, <2>3, NewFilePlace
  <2> QED
    BY <1>3, <2>3, <2>5, <2>6 DEF CopyOf
<1>4. CASE CreateDestination(t) /\ thr'[t].pc = "size"
  <2>1. PICK path, how, f, src :
          path = Call(t).dst /\ how = DestinationMode(Call(t)) /\ f = Opened(path, how) /\ src = thr[t].src
    OBVIOUS
  <2>2. NewFile(path, how) /\ how \in {"excl", "trunc"}
    BY <1>4, <2>1 DEF CreateDestination, DestinationMode
  <2>3. f /= 0
    <3>1. ASSUME f = 0
          PROVE  thr' = [thr EXCEPT ![t] = [@ EXCEPT !.again = src, !.src = 0, !.result = FALSE,
                                                     !.pc = "closeAgain"]]
      BY <1>4, <2>1, <3>1 DEF CreateDestination
    <3>2. f = 0 => thr'[t].pc = "closeAgain"
      BY <1>1, <3>1 DEF ThreadsType, Idle
    <3> QED
      BY <1>4, <3>2
  <2>4. thr' = [thr EXCEPT ![t] = [@ EXCEPT !.dst = f, !.pc = "size"]]
    BY <1>4, <2>1, <2>3 DEF CreateDestination
  <2>5. thr'[t].dst = f /\ thr'[t].src = src
    BY <1>1, <2>1, <2>4 DEF ThreadsType, Idle
  <2>6. /\ fds'[f].pos = 0
        /\ \A g \in 1..MaxFds : fds[g].ino /= 0 => fds'[g] = fds[g]
    BY <1>1, <1>2, <2>1, <2>2, <2>3, NewFilePlace
  <2>7. content'[fds'[f].ino] = << >>
    BY <1>1, <1>2, <2>1, <2>2, <2>3, DestinationEmpty
  <2>8. src /= 0 /\ fds[src].pos = 0
    BY <1>4, <2>1 DEF CopyOf, CreateDestination, At
  <2>9. src \in 1..MaxFds /\ fds[src].ino /= 0
    BY <2>1, <2>8, LocalsHeld DEF IsOpen
  <2>10. fds'[src].pos = 0
    BY <2>6, <2>8, <2>9
  <2> QED
    BY <1>4, <2>3, <2>5, <2>6, <2>7, <2>8, <2>10 DEF CopyOf
<1> QED
  BY <1>3, <1>4

\* It asks for the size.
LEMMA CopySizes ==
  ASSUME FilesInv, lost = {}, NEW t \in Threads, CopyOf(t), SizeOfSource(t)
  PROVE  CopyOf(t)'
<1>1. ThreadsType
  BY DEF FilesInv
<1>2. PICK n : n = FileSizeOf(thr[t].src)
  OBVIOUS
<1>3. thr' = [thr EXCEPT ![t].size = n, ![t].pc = "copy"] /\ UNCHANGED <<content, fds>>
  BY <1>2 DEF SizeOfSource, kernelVars
<1>4. /\ thr'[t].size = n /\ thr'[t].pc = "copy"
      /\ thr'[t].src = thr[t].src /\ thr'[t].dst = thr[t].dst
  BY <1>1, <1>3 DEF ThreadsType, Idle
<1>5. /\ thr[t].src /= 0 /\ thr[t].dst /= 0 /\ fds[thr[t].src].pos = 0
      /\ fds[thr[t].dst].pos = 0 /\ content[fds[thr[t].dst].ino] = << >>
  BY DEF CopyOf, SizeOfSource, At
<1>6. content[fds[thr[t].src].ino] /= Directory => n = Len(content[fds[thr[t].src].ino])
  BY <1>2, <1>5, LocalsHeld DEF FileSizeOf, IsRegular
<1> QED
  BY <1>3, <1>4, <1>5, <1>6 DEF CopyOf

\* It copies.
LEMMA CopyCopies ==
  ASSUME FilesInv, RangeInv, lost = {}, NEW t \in Threads, CopyOf(t), CopyBytes(t)
  PROVE  CopyOf(t)'
<1>1. ThreadsType /\ KernelType /\ KernelRange
  BY DEF FilesInv, RangeInv
<1>2. PICK src, dst, size : src = thr[t].src /\ dst = thr[t].dst /\ size = thr[t].size
  OBVIOUS
<1>3. thr[t].pc = "copy"
  BY DEF CopyBytes, At
<1>4. src /= 0 /\ dst /= 0
  BY <1>2, <1>3 DEF CopyOf
<1>5. src \in 1..MaxFds /\ IsOpen(src) /\ dst \in 1..MaxFds /\ IsOpen(dst)
  BY <1>2, <1>4, LocalsHeld
<1>6. PICK c, si, di : c = content[si] /\ si = fds[src].ino /\ di = fds[dst].ino
  OBVIOUS
<1>7. /\ fds[src].pos = 0 /\ fds[dst].pos = 0 /\ content[di] = << >>
      /\ c /= Directory => size = Len(c)
  BY <1>2, <1>3, <1>6 DEF CopyOf
<1>8. si \in 1..Len(content) /\ di \in 1..Len(content) /\ DOMAIN content = 1..Len(content)
  BY <1>1, <1>5, <1>6, SequenceFacts DEF KernelRange, KernelType, IsOpen
<1>9. CASE c = Directory
  <2>1. ~IsRegular(src)
    BY <1>6, <1>9 DEF IsRegular
  <2>2. thr' = [thr EXCEPT ![t].count = -1, ![t].pc = "closeSource"] /\ UNCHANGED <<content, fds>>
    BY <1>2, <2>1 DEF CopyBytes
  <2>3. thr'[t].src = src /\ thr'[t].dst = dst /\ thr'[t].pc = "closeSource"
    BY <1>1, <1>2, <2>2 DEF ThreadsType, Idle
  <2> QED
    BY <1>4, <1>6, <1>9, <2>2, <2>3 DEF CopyOf
<1>10. CASE c /= Directory
  <2>1. Sequence(c)
    BY <1>1, <1>6, <1>8 DEF KernelRange
  <2>2. << >> /= Directory
    <3>1. << >> \in Seq({}) /\ Len(<< >>) = 0
      BY EmptySeq
    <3> QED
      BY <3>1 DEF Directory
  <2>3. IsRegular(src) /\ IsRegular(dst)
    BY <1>5, <1>6, <1>7, <1>10, <2>2 DEF IsRegular
  <2>4. PICK s : s = BytesAt(src, size)
    OBVIOUS
  <2>5. s = Slice(c, 0, size)
    BY <1>6, <1>7, <2>3, <2>4 DEF BytesAt
  <2>6. PICK n \in 0..Len(s) :
          /\ content' = [content EXCEPT ![fds[dst].ino] =
                           Overwritten(@, fds[dst].pos, SubSeq(s, 1, n))]
          /\ fds' = [fds EXCEPT ![src].pos = @ + n, ![dst].pos = @ + n]
          /\ thr' = [thr EXCEPT ![t].count = n, ![t].pc = "closeSource"]
    BY <1>2, <2>3, <2>4 DEF CopyBytes
  <2>7. fds'[src].ino = si /\ fds'[dst].ino = di
    BY <1>1, <1>5, <1>6, <2>6 DEF KernelType
  <2>8. /\ thr'[t].count = n /\ thr'[t].pc = "closeSource" /\ thr'[t].size = size
        /\ thr'[t].src = src /\ thr'[t].dst = dst
    BY <1>1, <1>2, <2>6 DEF ThreadsType, Idle
  <2>9. PICK v : v = Overwritten(<< >>, 0, SubSeq(s, 1, n))
    OBVIOUS
  <2>10. content' = [content EXCEPT ![di] = v]
    BY <1>6, <1>7, <2>6, <2>9
  <2>11. n = size => v = c
    BY <1>7, <1>10, <2>1, <2>5, <2>9, WholeCopied
  <2>12. n = size => content'[di] = content'[si]
    <3>1. CASE si = di
      BY <3>1
    <3>2. CASE si /= di
      BY <1>6, <1>8, <2>10, <2>11, <3>2
    <3> QED
      BY <3>1, <3>2
  <2>13. IsCopied(thr'[t]) => n = size
    <3>1. n \in Nat
      BY <2>4, <2>6, <1>10, <2>1, BytesFacts, SequenceFacts, <1>7
    <3> QED
      BY <2>8, <3>1 DEF IsCopied, AsUsz
  <2> QED
    BY <1>4, <2>7, <2>8, <2>12, <2>13 DEF CopyOf
<1> QED
  BY <1>9, <1>10

LEMMA CopiesStep ==
  ASSUME FilesInv, RangeInv, CopiesInv, [Next]_fileVars, CopiesUndisturbed
  PROVE  CopiesInv'
<1> SUFFICES ASSUME lost' = {}, NEW u \in Threads
             PROVE  CopyOf(u)'
  BY DEF CopiesInv
<1>1. ThreadsType /\ AgainInv /\ lost = {} /\ CopyOf(u)
  BY LostGrows DEF FilesInv, CopiesInv
<1>2. ASSUME UNCHANGED <<content, fds>>, thr'[u].pc = thr[u].pc, thr'[u].src = thr[u].src,
             thr'[u].dst = thr[u].dst, thr'[u].size = thr[u].size, thr'[u].count = thr[u].count
      PROVE  CopyOf(u)'
  BY <1>1, <1>2 DEF CopyOf, IsCopied
<1>3. CASE UNCHANGED fileVars
  BY <1>2, <1>3 DEF fileVars
<1>4. ASSUME NEW t \in Threads, FileStep(t) \/ ThreadStep(t) \/ CompleteRead(t)
      PROVE  CopyOf(u)'
  <2>1. CASE u /= t
    BY <1>1, <1>4, <2>1, CopyFrame
  <2>2. CASE u = t /\ CompleteRead(t)
    <3>1. PICK n, b, d :
            thr' = [thr EXCEPT ![t].aio = "done", ![t].bytes = n, ![t].buf = b, ![t].due = d]
      BY <2>2 DEF CompleteRead
    <3>2. UNCHANGED <<content, fds>>
      BY <1>1, <2>2, RequestFrame
    <3>3. /\ thr'[u].pc = thr[u].pc /\ thr'[u].src = thr[u].src /\ thr'[u].dst = thr[u].dst
          /\ thr'[u].size = thr[u].size /\ thr'[u].count = thr[u].count
      BY <1>1, <2>2, <3>1 DEF ThreadsType, Idle
    <3> QED
      BY <1>2, <3>2, <3>3
  <2>3. CASE u = t /\ (FileStep(t) \/ ThreadStep(t))
    <3>1. \/ thr'[t].pc \notin {"create", "size", "copy", "closeSource"}
          \/ thr'[t].pc = "create" /\ OpenSource(t)
          \/ thr'[t].pc = "size" /\ CreateDestination(t)
          \/ SizeOfSource(t) \/ CopyBytes(t)
      BY <1>1, <2>3, PointsReached
    <3>2. CASE thr'[t].pc \notin {"create", "size", "copy", "closeSource"}
      BY <2>3, <3>2 DEF CopyOf
    <3>3. CASE \/ thr'[t].pc = "create" /\ OpenSource(t)
               \/ thr'[t].pc = "size" /\ CreateDestination(t)
      BY <1>1, <2>3, <3>3, CopyOpens DEF RangeInv
    <3>4. CASE SizeOfSource(t)
      BY <1>1, <2>3, <3>4, CopySizes
    <3>5. CASE CopyBytes(t)
      BY <1>1, <2>3, <3>5, CopyCopies
    <3> QED
      BY <3>1, <3>2, <3>3, <3>4, <3>5
  <2> QED
    BY <1>4, <2>1, <2>2, <2>3
<1> QED
  BY <1>3, <1>4 DEF Next, AllOver

LEMMA CopiesInit == Init => CopiesInv
BY DEF Init, Idle, CopiesInv, CopyOf

(***************************************************************************)
(* When DuplicateFile() of a file is to return true, the destination holds *)
(* what the source holds: for any threads and programs, however much the   *)
(* kernel copies at a time, as long as nobody has lost a descriptor and    *)
(* nobody else writes either of the two meanwhile.                         *)
(***************************************************************************)
THEOREM CopiesAreWhole ==
  Spec /\ [][CopiesUndisturbed]_fileVars => [](lost = {} => FileCopyComplete)
<1> DEFINE Inv == FilesInv /\ RangeInv /\ CopiesInv
<1>1. Init => Inv
  BY FilesInit, RangeInit, CopiesInit
<1>2. Inv /\ [Next]_fileVars /\ [CopiesUndisturbed]_fileVars => Inv'
  <2> SUFFICES ASSUME Inv, [Next]_fileVars, [CopiesUndisturbed]_fileVars
               PROVE  Inv'
    OBVIOUS
  <2>1. FilesInv' /\ RangeInv'
    BY FilesStep, RangeStep
  <2>2. CopiesUndisturbed
    BY DEF fileVars, CopiesUndisturbed
  <2>3. CopiesInv'
    BY <2>2, CopiesStep
  <2> QED
    BY <2>1, <2>3
<1>3. Inv => (lost = {} => FileCopyComplete)
  BY DEF CopiesInv, CopyOf, FileCopyComplete, Copied, IsRegular, At
<1> QED
  BY <1>1, <1>2, <1>3, PTL DEF Spec

===============================================================================
