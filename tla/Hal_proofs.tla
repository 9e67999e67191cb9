----------------------------- MODULE Hal_proofs ------------------------------
(***************************************************************************)
(* Proofs about the HAL: the table of file descriptors, for any devices,   *)
(* file systems and number of descriptors; the dispatch of interrupts, for *)
(* any number of lines and any nesting; the caches, of any size; the call  *)
(* graph of a profiled program, for any functions, callers and nesting;    *)
(* the heap, for any requests that give back no more than was handed out.  *)
(***************************************************************************)
EXTENDS FileTable, Irq, Cache, Profile, Heap, SequenceLemmas, FiniteSetTheorems, TLAPS

-----------------------------------------------------------------------------
(***************************************************************************)
(* The table of file descriptors                                           *)
(***************************************************************************)
Places  == Devices \cup FileSystems \cup {Null}
Flags   == {"read", "write", "dev", "excl", "nonblock"}
Started == {"ctors", "main", "dtors", "exit"}
Entries == [to : Places, mode : Modes]

FileTypeOK ==
  /\ phase \in {"sysInit", "stdout", "stdin", "stderr"} \cup Started
  /\ registered \in SUBSET Places
  /\ dev \in [Fds -> Places \cup {NoDev}]
  /\ flags \in [Fds -> SUBSET Flags]
  /\ alt_max_fd \in -1 .. MaxFd - 1
  /\ opened \in [owned -> Entries]

\* What programs hold is never one of the standard streams, so that neither the
\* redirection nor a close touches the other.
OwnedApart == \A f \in owned : f > 2

\* A free descriptor has no flags.  The flag of devices, which the lock needs, is
\* set of no file system and only below the mark where searches stop; and locks
\* come after the redirection, which heeds none.
FlagsRight ==
  \A f \in Fds :
    /\ dev[f] = NoDev => flags[f] = {}
    /\ "dev" \in flags[f] => dev[f] \notin FileSystems /\ f <= alt_max_fd
    /\ "excl" \in flags[f] => "dev" \in flags[f] /\ phase \in Started

\* A descriptor is as its open left it, whatever other calls do.
OpenedAs == \A f \in owned : dev[f] = opened[f].to /\ AccMode(f) = opened[f].mode

\* A standard stream before, and after, its turn in alt_io_redirect.
AtNull(f) == dev[f] = Null /\ AccMode(f) = {"read"}
Redirected(f, name, mode) ==
  IF Found(name) = NoDev THEN AtNull(f) ELSE dev[f] = Found(name) /\ AccMode(f) = mode

StandardStreams ==
  /\ IF phase \in {"sysInit", "stdout"}
     THEN AtNull(1) ELSE Redirected(1, Stdout, {"write"})
  /\ IF phase \in {"sysInit", "stdout", "stdin"}
     THEN AtNull(0) ELSE Redirected(0, Stdin, {"read"})
  /\ IF phase \in Started
     THEN Redirected(2, Stderr, {"write"}) ELSE AtNull(2)

FileInv ==
  FileTypeOK /\ FdAccounted /\ OwnedApart /\ FlagsRight /\ OpenedAs /\ StandardStreams

\* The first three descriptors, and what the assumptions keep apart.
LEMMA FirstFds ==
  /\ MaxFd \in Nat /\ 0 \in Fds /\ 1 \in Fds /\ 2 \in Fds
  /\ Null \in Places /\ NoDev \notin Places /\ Null \notin FileSystems
  /\ \A f \in Fds : f \in Int /\ f >= 0 /\ f < MaxFd
<1>0. MaxFd \in Nat /\ MaxFd > 3
  BY FileAssumption
<1>1. /\ 0 \in Fds /\ 1 \in Fds /\ 2 \in Fds
      /\ \A f \in Fds : f \in Int /\ f >= 0 /\ f < MaxFd
  BY <1>0 DEF Fds
<1>2. Null \in Places /\ NoDev \notin Places
  BY FileAssumption DEF Places, Names
<1>3. Null \notin FileSystems
  <2>1. FileSystems \cap (Devices \cup {Null}) = {}
    BY FileAssumption
  <2>. QED BY <2>1
<1>. QED BY <1>0, <1>1, <1>2, <1>3

\* What open finds is registered.
LEMMA FoundIs ==
  ASSUME FileTypeOK, NEW name
  PROVE  Found(name) \in Places \cup {NoDev}
BY DEF FileTypeOK, Found, FoundDev

LEMMA FileStarts == FileInit => FileInv
<1>. SUFFICES ASSUME FileInit PROVE FileInv
  OBVIOUS
<1>. USE FirstFds DEF FileInit
<1>1. owned = {} /\ opened \in [owned -> Entries]
  BY DEF owned
<1>2. FileTypeOK
  <2>1. registered \in SUBSET Places /\ dev \in [Fds -> Places \cup {NoDev}]
    OBVIOUS
  <2>2. flags \in [Fds -> SUBSET Flags]
    BY DEF Flags
  <2>3. alt_max_fd \in -1 .. MaxFd - 1
    OBVIOUS
  <2>. QED BY <1>1, <2>1, <2>2, <2>3 DEF FileTypeOK
<1>5. FdAccounted /\ OwnedApart /\ OpenedAs
  <2>1. \A f \in Fds : dev[f] # NoDev <=> f \in {0, 1, 2}
    OBVIOUS
  <2>. QED BY <1>1, <2>1 DEF FdAccounted, OwnedApart, OpenedAs
<1>3. FlagsRight
  BY DEF FlagsRight
<1>4. StandardStreams
  BY DEF StandardStreams, AtNull, AccMode
<1>. QED BY <1>2, <1>3, <1>4, <1>5 DEF FileInv

\* Only the phase changes, and to what comes after the redirection.
LEMMA FileOnlyPhase ==
  ASSUME FileInv, phase \in Started, phase' \in Started,
         UNCHANGED <<registered, dev, flags, alt_max_fd, opened>>
  PROVE  FileInv'
<1>1. UNCHANGED owned /\ \A f : UNCHANGED AccMode(f)
  BY DEF owned, AccMode
<1>2. \A name : UNCHANGED Found(name)
  BY DEF Found, FoundDev
<1>3. FileTypeOK' /\ FdAccounted' /\ OwnedApart' /\ OpenedAs'
  BY <1>1 DEF FileInv, FileTypeOK, FdAccounted, OwnedApart, OpenedAs
<1>4. FlagsRight'
  BY DEF FileInv, FlagsRight
<1>5. StandardStreams'
  BY <1>1, <1>2 DEF FileInv, StandardStreams, AtNull, Redirected, Started
<1>. QED BY <1>3, <1>4, <1>5 DEF FileInv

LEMMA FileQuiet == FileInv /\ UNCHANGED fileVars => FileInv'
<1>. SUFFICES ASSUME FileInv, UNCHANGED fileVars PROVE FileInv'
  OBVIOUS
<1>1. UNCHANGED owned /\ \A f : UNCHANGED AccMode(f)
  BY DEF owned, AccMode, fileVars
<1>2. \A name : UNCHANGED Found(name)
  BY DEF Found, FoundDev, fileVars
<1>3. FileTypeOK' /\ FdAccounted' /\ OwnedApart' /\ OpenedAs'
  BY <1>1 DEF FileInv, FileTypeOK, FdAccounted, OwnedApart, OpenedAs, fileVars
<1>4. FlagsRight'
  BY DEF FileInv, FlagsRight, fileVars
<1>5. StandardStreams'
  BY <1>1, <1>2 DEF FileInv, StandardStreams, AtNull, Redirected, fileVars
<1>. QED BY <1>3, <1>4, <1>5 DEF FileInv

\* A driver is registered before anything is looked up.
LEMMA FileRegistered == FileInv /\ SysInit => FileInv'
<1>. SUFFICES ASSUME FileInv, SysInit PROVE FileInv'
  OBVIOUS
<1>. USE DEF SysInit, Become
<1>1. UNCHANGED owned /\ \A f : UNCHANGED AccMode(f)
  BY DEF owned, AccMode
<1>2. registered' \in SUBSET Places
  BY DEF FileInv, FileTypeOK, DevReg, FsReg, Insert, Places
<1>3. FileTypeOK' /\ FdAccounted' /\ OwnedApart' /\ OpenedAs'
  BY <1>1, <1>2 DEF FileInv, FileTypeOK, FdAccounted, OwnedApart, OpenedAs
<1>4. FlagsRight'
  BY DEF FileInv, FlagsRight, Started
<1>5. StandardStreams'
  BY <1>1 DEF FileInv, StandardStreams, AtNull, Started
<1>. QED BY <1>3, <1>4, <1>5 DEF FileInv

\* One standard stream is redirected: nothing else in the table changes.
LEMMA FileOpenedFd ==
  ASSUME FileInv, NEW f \in {0, 1, 2}, NEW name, NEW mode \in SUBSET {"read", "write"},
         OpenFd(f, name, mode), AtNull(f), phase \notin Started, UNCHANGED <<registered, opened>>
  PROVE  /\ alt_max_fd' \in -1 .. MaxFd - 1 /\ alt_max_fd <= alt_max_fd'
         /\ dev' \in [Fds -> Places \cup {NoDev}] /\ flags' \in [Fds -> SUBSET Flags]
         /\ FdAccounted'
         /\ \A g \in Fds : g # f => dev'[g] = dev[g] /\ flags'[g] = flags[g]
         /\ \A g \in Fds : /\ dev'[g] = NoDev => flags'[g] = {}
                           /\ "dev" \in flags'[g] => dev'[g] \notin FileSystems /\ g <= alt_max_fd'
                           /\ "excl" \notin flags'[g]
         /\ Redirected(f, name, mode)'
<1>. USE FirstFds DEF FileInv, FileTypeOK
<1>0. UNCHANGED owned /\ UNCHANGED Found(name) /\ f \in Fds /\ f <= 2 /\ f \in Int
  BY DEF owned, Found, FoundDev
<1>1. CASE Found(name) = NoDev
  <2>1. UNCHANGED <<dev, flags, alt_max_fd>>
    BY <1>1 DEF OpenFd
  <2>2. FdAccounted'
    BY <2>1, <1>0 DEF FdAccounted
  <2>3. Redirected(f, name, mode)'
    BY <2>1, <1>0, <1>1 DEF Redirected, AtNull, AccMode
  <2>4. \A g \in Fds : /\ dev[g] = NoDev => flags[g] = {}
                       /\ "dev" \in flags[g] => dev[g] \notin FileSystems /\ g <= alt_max_fd
                       /\ "excl" \notin flags[g]
    BY DEF FlagsRight
  <2>. QED BY <2>1, <2>2, <2>3, <2>4
<1>2. CASE Found(name) # NoDev
  <2>1. PICK old \in Fds : FirstFree(old) /\ alt_max_fd' = Raised(old)
    BY <1>2 DEF OpenFd
  <2>2. dev[old] = NoDev /\ old > 2
    BY <2>1 DEF FirstFree, Free, FdAccounted
  <2>3. /\ alt_max_fd' \in -1 .. MaxFd - 1 /\ alt_max_fd <= alt_max_fd'
        /\ old <= alt_max_fd' /\ f <= alt_max_fd'
    BY <2>1, <2>2, <1>0 DEF Raised
  <2>4. Found(name) \in Places
    BY <1>2, FoundIs
  <2>5. /\ dev' = [dev EXCEPT ![f] = Found(name)]
        /\ flags' = [flags EXCEPT ![f] = OpenFlags(Found(name), mode)]
    BY <1>2 DEF OpenFd
  <2>6. /\ OpenFlags(Found(name), mode) \in SUBSET Flags
        /\ "excl" \notin OpenFlags(Found(name), mode)
        /\ "dev" \in OpenFlags(Found(name), mode) => Found(name) \notin FileSystems
        /\ OpenFlags(Found(name), mode) \cap {"read", "write"} = mode
    BY DEF OpenFlags, Flags
  <2>7. dev' \in [Fds -> Places \cup {NoDev}] /\ flags' \in [Fds -> SUBSET Flags]
    BY <2>4, <2>5, <2>6, <1>0
  <2>8. /\ dev'[f] = Found(name) /\ flags'[f] = OpenFlags(Found(name), mode)
        /\ \A g \in Fds : g # f => dev'[g] = dev[g] /\ flags'[g] = flags[g]
    BY <2>5, <1>0
  <2>9. FdAccounted'
    <3>1. \A g \in Fds : dev'[g] # NoDev <=> dev[g] # NoDev
      BY <2>8, <1>2 DEF AtNull
    <3>. QED BY <3>1, <2>3, <1>0 DEF FdAccounted, OwnedApart, owned
  <2>10. \A g \in Fds : /\ dev'[g] = NoDev => flags'[g] = {}
                        /\ "dev" \in flags'[g] => dev'[g] \notin FileSystems /\ g <= alt_max_fd'
                        /\ "excl" \notin flags'[g]
    BY <2>8, <2>6, <2>3, <1>2 DEF FlagsRight
  <2>11. Redirected(f, name, mode)'
    BY <2>8, <2>6, <1>0, <1>2 DEF Redirected, AccMode
  <2>. QED BY <2>3, <2>7, <2>8, <2>9, <2>10, <2>11
<1>. QED BY <1>1, <1>2

\* One stream after the other.
LEMMA FileRedirected == FileInv /\ Redirect => FileInv'
<1>. SUFFICES ASSUME FileInv, Redirect PROVE FileInv'
  OBVIOUS
<1>. USE DEF Redirect, Become
<1>0. UNCHANGED owned /\ \A name : UNCHANGED Found(name)
  BY DEF owned, Found, FoundDev
<1>1. ASSUME NEW f \in {0, 1, 2}, NEW name, NEW mode \in SUBSET {"read", "write"},
             OpenFd(f, name, mode), AtNull(f), phase \notin Started,
             phase' \in {"stdin", "stderr", "ctors"}
      PROVE  /\ FileTypeOK' /\ FdAccounted' /\ OwnedApart' /\ FlagsRight' /\ OpenedAs'
             /\ Redirected(f, name, mode)'
             /\ \A g \in Fds : g # f => UNCHANGED AccMode(g) /\ dev'[g] = dev[g]
  <2>1. /\ alt_max_fd' \in -1 .. MaxFd - 1
        /\ dev' \in [Fds -> Places \cup {NoDev}] /\ flags' \in [Fds -> SUBSET Flags]
        /\ FdAccounted'
        /\ \A g \in Fds : g # f => dev'[g] = dev[g] /\ flags'[g] = flags[g]
        /\ \A g \in Fds : /\ dev'[g] = NoDev => flags'[g] = {}
                          /\ "dev" \in flags'[g] => dev'[g] \notin FileSystems /\ g <= alt_max_fd'
                          /\ "excl" \notin flags'[g]
        /\ Redirected(f, name, mode)'
    BY <1>1, FileOpenedFd
  <2>2. \A g \in Fds : g # f => UNCHANGED AccMode(g) /\ dev'[g] = dev[g]
    BY <2>1 DEF AccMode
  <2>3. \A g \in owned : g \in Fds /\ g # f
    BY DEF FileInv, OwnedApart, FdAccounted, owned
  <2>4. FileTypeOK'
    BY <1>0, <1>1, <2>1 DEF FileInv, FileTypeOK, Started
  <2>5. OwnedApart' /\ FlagsRight'
    BY <1>0, <2>1 DEF FileInv, OwnedApart, FlagsRight
  <2>6. OpenedAs'
    BY <1>0, <2>2, <2>3 DEF FileInv, OpenedAs
  <2>. QED BY <2>1, <2>2, <2>4, <2>5, <2>6
<1>2. /\ {"write"} \in SUBSET {"read", "write"} /\ {"read"} \in SUBSET {"read", "write"}
      /\ 0 \in Fds /\ 1 \in Fds /\ 2 \in Fds
  BY FirstFds
<1>3. CASE Become("stdout", "stdin") /\ OpenFd(1, Stdout, {"write"})
  <2>1. AtNull(0) /\ AtNull(1) /\ AtNull(2)
    BY <1>3 DEF FileInv, StandardStreams, Started
  <2>2. /\ FileTypeOK' /\ FdAccounted' /\ OwnedApart' /\ FlagsRight' /\ OpenedAs'
        /\ Redirected(1, Stdout, {"write"})'
        /\ UNCHANGED <<AccMode(0), AccMode(2), dev[0], dev[2]>>
    BY <1>1, <1>2, <1>3, <2>1 DEF Started
  <2>3. StandardStreams'
    BY <1>3, <2>1, <2>2 DEF StandardStreams, AtNull, Started
  <2>. QED BY <2>2, <2>3 DEF FileInv
<1>4. CASE Become("stdin", "stderr") /\ OpenFd(0, Stdin, {"read"})
  <2>1. Redirected(1, Stdout, {"write"}) /\ AtNull(0) /\ AtNull(2)
    BY <1>4 DEF FileInv, StandardStreams, Started
  <2>2. /\ FileTypeOK' /\ FdAccounted' /\ OwnedApart' /\ FlagsRight' /\ OpenedAs'
        /\ Redirected(0, Stdin, {"read"})'
        /\ UNCHANGED <<AccMode(1), AccMode(2), dev[1], dev[2]>>
    BY <1>1, <1>2, <1>4, <2>1 DEF Started
  <2>3. Redirected(1, Stdout, {"write"})' /\ AtNull(2)'
    BY <2>1, <2>2, <1>0 DEF Redirected, AtNull
  <2>4. StandardStreams'
    BY <1>4, <2>2, <2>3 DEF StandardStreams, Started
  <2>. QED BY <2>2, <2>4 DEF FileInv
<1>5. CASE Become("stderr", "ctors") /\ OpenFd(2, Stderr, {"write"})
  <2>1. Redirected(1, Stdout, {"write"}) /\ Redirected(0, Stdin, {"read"}) /\ AtNull(2)
    BY <1>5 DEF FileInv, StandardStreams, Started
  <2>2. /\ FileTypeOK' /\ FdAccounted' /\ OwnedApart' /\ FlagsRight' /\ OpenedAs'
        /\ Redirected(2, Stderr, {"write"})'
        /\ UNCHANGED <<AccMode(0), AccMode(1), dev[0], dev[1]>>
    BY <1>1, <1>2, <1>5, <2>1 DEF Started
  <2>3. Redirected(1, Stdout, {"write"})' /\ Redirected(0, Stdin, {"read"})'
    BY <2>1, <2>2, <1>0 DEF Redirected, AtNull
  <2>4. StandardStreams'
    BY <1>5, <2>2, <2>3 DEF StandardStreams, Started
  <2>. QED BY <2>2, <2>4 DEF FileInv
<1>. QED BY <1>3, <1>4, <1>5

\* What a call leaves of the standard streams, if it leaves the devices and
\* access modes of the first three descriptors.
LEMMA FileStreamsStay ==
  ASSUME FileInv, phase \in Started, phase' \in Started, UNCHANGED registered,
         \A f \in {0, 1, 2} : dev'[f] = dev[f] /\ UNCHANGED AccMode(f)
  PROVE  StandardStreams'
<1>1. \A name : UNCHANGED Found(name)
  BY DEF Found, FoundDev
<1>2. UNCHANGED <<AccMode(0), AccMode(1), AccMode(2), dev[0], dev[1], dev[2]>>
  OBVIOUS
<1>. QED BY <1>1, <1>2 DEF FileInv, StandardStreams, Redirected, AtNull, Started

\* A refused open only raises the mark.
LEMMA FileOpenRefused ==
  ASSUME FileInv, phase \in Started, UNCHANGED <<phase, registered>>,
         NEW d, NEW f \in Fds, FirstFree(f), OpenRefused(d, f)
  PROVE  FileInv'
<1>. USE FirstFds DEF FileInv, OpenRefused
<1>1. UNCHANGED owned /\ \A g : UNCHANGED AccMode(g)
  BY DEF owned, AccMode
<1>2. alt_max_fd' \in -1 .. MaxFd - 1 /\ alt_max_fd <= alt_max_fd'
  BY DEF Raised, FileTypeOK
<1>3. FileTypeOK' /\ OwnedApart' /\ OpenedAs'
  BY <1>1, <1>2 DEF FileTypeOK, OwnedApart, OpenedAs
<1>4. FdAccounted' /\ FlagsRight'
  <2>1. \A g \in owned : g \in Fds /\ g <= alt_max_fd
    BY DEF FdAccounted, owned
  <2>2. \A g \in Fds : g <= alt_max_fd => g <= alt_max_fd'
    BY <1>2 DEF FileTypeOK
  <2>. QED BY <1>1, <2>1, <2>2 DEF FdAccounted, FlagsRight
<1>5. StandardStreams'
  BY <1>1, FileStreamsStay
<1>. QED BY <1>3, <1>4, <1>5

\* An open that succeeds takes a descriptor that nobody holds.
LEMMA FileOpenSucceeds ==
  ASSUME FileInv, phase \in Started, UNCHANGED <<phase, registered>>,
         NEW d \in Places, NEW f \in Fds, NEW mode \in Modes,
         FirstFree(f), OpenSucceeds(d, f, mode)
  PROVE  FileInv'
<1>. USE FirstFds DEF FileInv, OpenSucceeds
<1>1. dev[f] = NoDev /\ f > 2 /\ f \notin owned /\ d # NoDev
  BY DEF FirstFree, Free, FdAccounted, owned
<1>2. /\ alt_max_fd' \in -1 .. MaxFd - 1 /\ alt_max_fd <= alt_max_fd' /\ f <= alt_max_fd'
  BY DEF Raised, FileTypeOK
<1>3. mode \in SUBSET {"read", "write"}
  <2>1. Modes \subseteq {{"read"}, {"write"}, {"read", "write"}}
    BY FileAssumption
  <2>. QED BY <2>1
<1>4. /\ OpenFlags(d, mode) \in SUBSET Flags /\ "excl" \notin OpenFlags(d, mode)
      /\ "dev" \in OpenFlags(d, mode) => d \notin FileSystems
      /\ OpenFlags(d, mode) \cap {"read", "write"} = mode
  BY <1>3 DEF OpenFlags, Flags
<1>5. /\ dev' \in [Fds -> Places \cup {NoDev}] /\ flags' \in [Fds -> SUBSET Flags]
      /\ dev'[f] = d /\ flags'[f] = OpenFlags(d, mode)
      /\ \A g \in Fds : g # f => dev'[g] = dev[g] /\ flags'[g] = flags[g]
  BY <1>4 DEF FileTypeOK
<1>6. /\ owned' = owned \cup {f} /\ opened' \in [owned' -> Entries]
      /\ opened'[f] = [to |-> d, mode |-> mode]
      /\ \A g \in owned : opened'[g] = opened[g]
  BY <1>1 DEF owned, FileTypeOK, Entries
<1>7. \A g \in owned : g \in Fds /\ g # f
  BY <1>1 DEF FdAccounted, owned
<1>8. FileTypeOK'
  BY <1>2, <1>5, <1>6 DEF FileTypeOK
<1>9. FdAccounted'
  <2>1. \A g \in Fds : dev'[g] # NoDev <=> (dev[g] # NoDev \/ g = f)
    BY <1>1, <1>5
  <2>2. \A g \in owned' : g <= alt_max_fd'
    BY <1>2, <1>6, <1>7 DEF FdAccounted, FileTypeOK
  <2>3. {g \in Fds : dev'[g] # NoDev} = {g \in Fds : dev[g] # NoDev} \cup {f}
    BY <2>1
  <2>. QED BY <1>6, <2>2, <2>3 DEF FdAccounted
<1>10. OwnedApart'
  BY <1>1, <1>6 DEF OwnedApart
<1>11. FlagsRight'
  <2>1. \A g \in Fds : g <= alt_max_fd => g <= alt_max_fd'
    BY <1>2 DEF FileTypeOK
  <2>. QED BY <1>1, <1>2, <1>4, <1>5, <2>1 DEF FlagsRight
<1>12. \A g \in Fds : g # f => UNCHANGED AccMode(g)
  BY <1>5 DEF AccMode
<1>13. OpenedAs'
  <2>1. dev'[f] = opened'[f].to /\ AccMode(f)' = opened'[f].mode
    BY <1>4, <1>5, <1>6 DEF AccMode
  <2>2. \A g \in owned : dev'[g] = opened'[g].to /\ AccMode(g)' = opened'[g].mode
    BY <1>5, <1>6, <1>7, <1>12 DEF OpenedAs
  <2>. QED BY <1>6, <2>1, <2>2 DEF OpenedAs
<1>14. StandardStreams'
  <2>1. \A g \in {0, 1, 2} : dev'[g] = dev[g] /\ UNCHANGED AccMode(g)
    BY <1>1, <1>5, <1>12
  <2>. QED BY <2>1, FileStreamsStay
<1>. QED BY <1>8, <1>9, <1>10, <1>11, <1>13, <1>14

\* A close, also of stdout when main returns.
LEMMA FileClosed ==
  ASSUME FileInv, phase \in Started, phase' \in Started,
         NEW f \in owned \cup {0, 1, 2}, Close(f)
  PROVE  FileInv'
<1>. USE FirstFds DEF FileInv, Close
<1>1. f \in Fds /\ \A g \in owned : g \in Fds /\ g > 2
  BY DEF FdAccounted, owned, OwnedApart
<1>2. /\ owned' = owned \ {f} /\ opened' \in [owned' -> Entries]
      /\ \A g \in owned' : opened'[g] = opened[g]
  BY DEF owned, FileTypeOK
<1>3. /\ dev' \in [Fds -> Places \cup {NoDev}] /\ flags' \in [Fds -> SUBSET Flags]
      /\ \A g \in Fds : g # f \/ f <= 2 => dev'[g] = dev[g] /\ flags'[g] = flags[g]
      /\ f > 2 => dev'[f] = NoDev /\ flags'[f] = {}
  BY <1>1 DEF FileTypeOK, Flags
<1>4. \A g \in Fds : g # f \/ f <= 2 => UNCHANGED AccMode(g)
  BY <1>3 DEF AccMode
<1>5. FileTypeOK'
  BY <1>2, <1>3 DEF FileTypeOK, Started
<1>6. FdAccounted'
  <2>1. \A g \in Fds : dev'[g] # NoDev <=> (dev[g] # NoDev /\ (g # f \/ f <= 2))
    BY <1>1, <1>3
  <2>2. \A g \in Fds : g \in owned' \cup {0, 1, 2}
                          <=> (g \in owned \cup {0, 1, 2} /\ (g # f \/ f <= 2))
    BY <1>1, <1>2
  <2>3. \A g \in Fds : dev[g] # NoDev <=> g \in owned \cup {0, 1, 2}
    BY DEF FdAccounted
  <2>4. owned' \cup {0, 1, 2} \subseteq Fds
    BY <1>1, <1>2
  <2>5. \A g \in owned' : g <= alt_max_fd'
    BY <1>2 DEF FdAccounted
  <2>. QED BY <2>1, <2>2, <2>3, <2>4, <2>5 DEF FdAccounted
<1>7. OwnedApart'
  BY <1>2 DEF OwnedApart
<1>8. FlagsRight'
  BY <1>1, <1>3 DEF FlagsRight
<1>9. OpenedAs'
  BY <1>1, <1>2, <1>3, <1>4 DEF OpenedAs
<1>10. StandardStreams'
  <2>1. \A g \in {0, 1, 2} : dev'[g] = dev[g] /\ UNCHANGED AccMode(g)
    BY <1>1, <1>3, <1>4
  <2>. QED BY <2>1, FileStreamsStay
<1>. QED BY <1>5, <1>6, <1>7, <1>8, <1>9, <1>10

\* The flags beside those of the access mode change, of a descriptor in use.
LEMMA FileFlagged ==
  ASSUME FileInv, phase \in Started, UNCHANGED <<phase, registered, dev, alt_max_fd, opened>>,
         NEW f \in owned \cup {0, 1, 2}, NEW new \in SUBSET Flags,
         new \cap {"read", "write", "dev"} = flags[f] \cap {"read", "write", "dev"},
         "excl" \in new => "dev" \in new,
         flags' = [flags EXCEPT ![f] = new]
  PROVE  FileInv'
<1>. USE FirstFds DEF FileInv
<1>1. f \in Fds /\ UNCHANGED owned
  BY DEF FdAccounted, owned
<1>2. /\ flags' \in [Fds -> SUBSET Flags] /\ flags'[f] = new
      /\ \A g \in Fds : g # f => flags'[g] = flags[g]
  BY <1>1 DEF FileTypeOK
<1>3. \A g \in Fds : UNCHANGED AccMode(g)
  BY <1>2 DEF AccMode
<1>4. FileTypeOK' /\ FdAccounted' /\ OwnedApart'
  BY <1>1, <1>2 DEF FileTypeOK, FdAccounted, OwnedApart
<1>5. OpenedAs'
  BY <1>1, <1>3 DEF OpenedAs, FdAccounted
<1>6. FlagsRight'
  BY <1>1, <1>2 DEF FlagsRight, FdAccounted
<1>7. StandardStreams'
  BY <1>3, FileStreamsStay
<1>. QED BY <1>4, <1>5, <1>6, <1>7

\* The calls that constructors, main and destructors make.
LEMMA FileCalled == FileInv /\ Calls => FileInv'
<1>. SUFFICES ASSUME FileInv, Calls PROVE FileInv'
  OBVIOUS
<1>1. phase \in Started /\ phase' = phase /\ phase' \in Started
  BY DEF Calls, Started
<1>2. ASSUME NEW name \in Names, NEW mode \in Modes, Open(name, mode) PROVE FileInv'
  <2>1. Found(name) \in Places
    BY <1>2, FoundIs DEF Open, FileInv
  <2>2. PICK f \in Fds : FirstFree(f) /\ (\/ OpenRefused(Found(name), f)
                                          \/ OpenSucceeds(Found(name), f, mode))
    BY <1>2 DEF Open
  <2>3. UNCHANGED <<phase, registered>>
    BY <1>1, <1>2 DEF Open
  <2>. QED BY <1>1, <2>1, <2>2, <2>3, FileOpenRefused, FileOpenSucceeds
<1>3. ASSUME NEW f \in owned \cup {0, 1, 2}, Close(f) PROVE FileInv'
  BY <1>1, <1>3, FileClosed
<1>4. ASSUME NEW f \in owned \cup {0, 1, 2}, Ioctl(f) \/ \E n \in {{}, {"nonblock"}} : Fcntl(f, n)
      PROVE  FileInv'
  <2>1. f \in Fds /\ flags \in [Fds -> SUBSET Flags] /\ flags[f] \in SUBSET Flags
    BY FirstFds DEF FileInv, FileTypeOK, FdAccounted, owned
  <2>2. "excl" \in flags[f] => "dev" \in flags[f]
    BY <2>1 DEF FileInv, FlagsRight
  <2>3. CASE Lock(f)
    <3>1. CASE Others(f, alt_max_fd - 1) = {}
      <4>. DEFINE new == flags[f] \cup {"excl"}
      <4>1. new \in SUBSET Flags /\ "dev" \in new
            /\ new \cap {"read", "write", "dev"} = flags[f] \cap {"read", "write", "dev"}
        BY <2>1, <2>3 DEF Lock, Flags
      <4>2. flags' = [flags EXCEPT ![f] = new]
        BY <2>3, <3>1 DEF Lock
      <4>3. UNCHANGED <<phase, registered, dev, alt_max_fd, opened>>
        BY <1>1, <2>3 DEF Lock
      <4>. HIDE DEF new
      <4>. QED BY <1>1, <4>1, <4>2, <4>3, FileFlagged
    <3>2. CASE Others(f, alt_max_fd - 1) # {}
      BY <1>1, <2>3, <3>2, FileQuiet DEF Lock, fileVars
    <3>. QED BY <3>1, <3>2
  <2>4. CASE Unlock(f)
    <3>. DEFINE new == flags[f] \ {"excl"}
    <3>1. new \in SUBSET Flags /\ "excl" \notin new
          /\ new \cap {"read", "write", "dev"} = flags[f] \cap {"read", "write", "dev"}
      BY <2>1
    <3>2. flags' = [flags EXCEPT ![f] = new]
      BY <2>4 DEF Unlock
    <3>3. UNCHANGED <<phase, registered, dev, alt_max_fd, opened>>
      BY <1>1, <2>4 DEF Unlock
    <3>. HIDE DEF new
    <3>. QED BY <1>1, <3>1, <3>2, <3>3, FileFlagged
  <2>5. ASSUME NEW n \in {{}, {"nonblock"}}, Fcntl(f, n) PROVE FileInv'
    <3>. DEFINE new == (flags[f] \ {"nonblock"}) \cup n
    <3>1. new \in SUBSET Flags /\ ("excl" \in new => "dev" \in new)
          /\ new \cap {"read", "write", "dev"} = flags[f] \cap {"read", "write", "dev"}
      BY <2>1, <2>2 DEF Flags
    <3>2. flags' = [flags EXCEPT ![f] = new]
      BY <2>5 DEF Fcntl
    <3>3. UNCHANGED <<phase, registered, dev, alt_max_fd, opened>>
      BY <1>1, <2>5 DEF Fcntl
    <3>. HIDE DEF new
    <3>. QED BY <1>1, <3>1, <3>2, <3>3, FileFlagged
  <2>. QED BY <1>4, <2>3, <2>4, <2>5 DEF Ioctl
<1>. QED BY <1>2, <1>3, <1>4 DEF Calls

LEMMA FileStep == FileInv /\ [FileNext]_fileVars => FileInv'
<1>. SUFFICES ASSUME FileInv, [FileNext]_fileVars PROVE FileInv'
  OBVIOUS
<1>1. CASE SysInit
  BY <1>1, FileRegistered
<1>2. CASE Redirect
  BY <1>2, FileRedirected
<1>3. CASE DoCtors
  BY <1>3, FileOnlyPhase DEF DoCtors, Become, Started
<1>4. CASE Calls
  BY <1>4, FileCalled
<1>5. CASE MainReturns
  BY <1>5, FileClosed DEF MainReturns, Become, Started
<1>6. CASE DoDtors \/ \E pid \in {0, 1}, signal \in {"ignored", "fatal"} : Kill(pid, signal)
  BY <1>6, FileOnlyPhase DEF DoDtors, Kill, Exit, Started
<1>7. CASE UNCHANGED fileVars
  BY <1>7, FileQuiet
<1>. QED BY <1>1, <1>2, <1>3, <1>4, <1>5, <1>6, <1>7 DEF FileNext

LEMMA FileInvariant == FileSpec => []FileInv
BY FileStarts, FileStep, PTL DEF FileSpec

\* Descriptors are neither leaked nor shared, for any number of them, devices and
\* file systems: those in use are what the program opened and the first three,
\* however opens fail, and the high-water mark of alt_get_fd.c covers them.
THEOREM DescriptorsAccounted == FileSpec => []FdAccounted
<1>1. FileInv => FdAccounted
  BY DEF FileInv
<1>. QED BY <1>1, FileInvariant, PTL

\* What read, write, lseek and isatty do with a descriptor whose device and
\* access mode are known.
LEMMA FileReaches ==
  ASSUME NEW f, NEW d \in Places, dev[f] = d,
         NEW mode \in {{"read"}, {"write"}, {"read", "write"}}, AccMode(f) = mode
  PROVE  Reaches(f, d, mode)
<1>1. d # "character device"
  <2>1. {"EACCES", "ENOTSUP", "character device"} \cap (Devices \cup FileSystems \cup {Null}) = {}
    BY FileAssumption
  <2>. QED BY <2>1 DEF Places
<1>2. /\ AccMode(f) # {"write"} <=> "read" \in mode
      /\ AccMode(f) # {"read"} <=> "write" \in mode
  OBVIOUS
<1>3. /\ ReadFrom(f) = IF "read" \in mode /\ "read" \in Provides[d] THEN d ELSE "EACCES"
      /\ WriteTo(f) = IF "write" \in mode /\ "write" \in Provides[d] THEN d ELSE "EACCES"
  BY <1>2 DEF ReadFrom, WriteTo
<1>4. /\ Isatty(f) <=> "fstat" \notin Provides[d]
      /\ Lseek(f) = IF "lseek" \in Provides[d] THEN d ELSE "ENOTSUP"
  BY <1>1 DEF Isatty, Fstat, Lseek
<1>. QED BY <1>3, <1>4 DEF Reaches

\* A descriptor reads from and writes to what its name meant when it was opened,
\* and only as it was opened for; from the constructors on the standard streams do
\* the same for the configured devices, and stay at /dev/null if there are none.
THEOREM DescriptorsReachTheirs == FileSpec => []DescriptorsReach
<1>1. ASSUME FileInv PROVE DescriptorsReach
  <2>1. Modes \subseteq {{"read"}, {"write"}, {"read", "write"}}
    BY FileAssumption
  <2>2. ASSUME NEW f \in owned PROVE Reaches(f, opened[f].to, opened[f].mode)
    <3>1. opened[f].to \in Places /\ opened[f].mode \in Modes
      BY <1>1 DEF FileInv, FileTypeOK, Entries
    <3>2. dev[f] = opened[f].to /\ AccMode(f) = opened[f].mode
      BY <1>1 DEF FileInv, OpenedAs
    <3>. QED BY <2>1, <3>1, <3>2, FileReaches
  <2>3. ASSUME NEW f, NEW name, NEW mode \in {{"read"}, {"write"}, {"read", "write"}},
               Redirected(f, name, mode)
        PROVE  IF Found(name) = NoDev THEN Reaches(f, Null, {"read"})
                                      ELSE Reaches(f, Found(name), mode)
    <3>1. CASE Found(name) = NoDev
      <4>1. dev[f] = Null /\ AccMode(f) = {"read"} /\ Null \in Places
        BY <2>3, <3>1, FirstFds DEF Redirected, AtNull
      <4>2. Reaches(f, Null, {"read"})
        BY <4>1, FileReaches
      <4>. QED BY <3>1, <4>2
    <3>2. CASE Found(name) # NoDev
      <4>1. dev[f] = Found(name) /\ AccMode(f) = mode /\ Found(name) \in Places
        BY <1>1, <2>3, <3>2, FoundIs DEF Redirected, FileInv
      <4>2. Reaches(f, Found(name), mode)
        BY <4>1, FileReaches
      <4>. QED BY <3>2, <4>2
    <3>. QED BY <3>1, <3>2
  <2>4. ASSUME phase \in {"ctors", "main", "dtors", "exit"},
               NEW s \in {<<0, Stdin, {"read"}>>, <<1, Stdout, {"write"}>>, <<2, Stderr, {"write"}>>}
        PROVE  IF Found(s[2]) = NoDev THEN Reaches(s[1], Null, {"read"})
                                      ELSE Reaches(s[1], Found(s[2]), s[3])
    <3>1. /\ Redirected(1, Stdout, {"write"}) /\ Redirected(0, Stdin, {"read"})
          /\ Redirected(2, Stderr, {"write"})
      BY <1>1, <2>4 DEF FileInv, StandardStreams, Started
    <3>2. Redirected(s[1], s[2], s[3])
      BY <3>1
    <3>3. s[3] \in {{"read"}, {"write"}, {"read", "write"}}
      OBVIOUS
    <3>. QED BY <2>3, <3>2, <3>3
  <2>. QED BY <2>2, <2>4 DEF DescriptorsReach
<1>. QED BY <1>1, FileInvariant, PTL

\* A step that opens nothing gives no device to a further descriptor.
LEMMA LockUndisturbed ==
  ASSUME UNCHANGED dev, NEW f
  PROVE  {g \in Fds : dev'[g] = dev[f]} \subseteq {g \in Fds : dev[g] = dev[f]}
OBVIOUS

\* While a descriptor holds the lock of its device, nobody else opens the device
\* (alt_fd_lock.c:44), for any number of descriptors.
THEOREM LocksHold == FileSpec => LockHolds
<1>. DEFINE To(f) == {g \in Fds : dev[g] = dev[f]}
            Then(f) == {g \in Fds : dev'[g] = dev[f]}
            Held(f) == "excl" \in flags[f] /\ "excl" \in flags'[f]
<1>1. ASSUME FileInv, [FileNext]_fileVars, NEW f \in Fds, Held(f)
      PROVE  Then(f) \subseteq To(f)
  <2>1. /\ dev[f] # NoDev /\ dev[f] \notin FileSystems /\ f <= alt_max_fd
        /\ "excl" \in flags[f] /\ phase \in Started
    BY <1>1 DEF FileInv, FlagsRight
  <2>2. dev \in [Fds -> Places \cup {NoDev}]
    BY <1>1 DEF FileInv, FileTypeOK
  <2>3. ASSUME NEW c \in owned \cup {0, 1, 2}, Close(c) PROVE Then(f) \subseteq To(f)
    <3>1. \A g \in Fds : dev'[g] = dev[g] \/ dev'[g] = NoDev
      BY <2>2, <2>3, FirstFds DEF Close
    <3>. QED BY <2>1, <3>1
  <2>4. ASSUME NEW name, NEW mode, Open(name, mode) PROVE Then(f) \subseteq To(f)
    <3>1. PICK n \in Fds : FirstFree(n) /\ (\/ OpenRefused(Found(name), n)
                                            \/ OpenSucceeds(Found(name), n, mode))
      BY <2>4 DEF Open
    <3>2. CASE OpenRefused(Found(name), n)
      BY <3>2, LockUndisturbed DEF OpenRefused
    <3>3. CASE OpenSucceeds(Found(name), n, mode)
      <4>1. n # f
        BY <2>1, <3>1 DEF FirstFree, Free
      <4>2. f <= Raised(n)
        BY <1>1, <2>1, FirstFds DEF Raised, FileInv, FileTypeOK
      <4>3. Found(name) # dev[f]
        BY <2>1, <3>3, <4>1, <4>2 DEF OpenSucceeds, FileLocked
      <4>4. \A g \in Fds : dev'[g] = dev[g] \/ dev'[g] = Found(name)
        BY <2>2, <3>3 DEF OpenSucceeds
      <4>. QED BY <4>3, <4>4
    <3>. QED BY <3>1, <3>2, <3>3
  <2>5. CASE Calls
    <3>1. CASE \E name \in Names, mode \in Modes : Open(name, mode)
      BY <3>1, <2>4
    <3>2. CASE \E c \in owned \cup {0, 1, 2} : Close(c)
      BY <3>2, <2>3
    <3>3. CASE \E c \in owned \cup {0, 1, 2} :
                 Ioctl(c) \/ \E n \in {{}, {"nonblock"}} : Fcntl(c, n)
      BY <3>3, LockUndisturbed DEF Ioctl, Lock, Unlock, Fcntl
    <3>. QED BY <2>5, <3>1, <3>2, <3>3 DEF Calls
  <2>6. CASE MainReturns
    BY <2>3, <2>6 DEF MainReturns
  <2>7. CASE Redirect
    BY <2>1, <2>7 DEF Redirect, Become, Started
  <2>8. CASE UNCHANGED dev
    BY <2>8, LockUndisturbed
  <2>. QED BY <1>1, <2>5, <2>6, <2>7, <2>8
           DEF FileNext, SysInit, DoCtors, DoDtors, Exit, Kill, fileVars
<1>2. FileInv /\ [FileNext]_fileVars =>
        [\A f \in Fds : "excl" \in flags[f] /\ "excl" \in flags'[f]
           => {g \in Fds : dev'[g] = dev[f]} \subseteq {g \in Fds : dev[g] = dev[f]}]_fileVars
  BY <1>1
<1>. QED BY <1>2, FileInvariant, PTL DEF FileSpec, LockHolds

-----------------------------------------------------------------------------
(***************************************************************************)
(* Interrupts                                                              *)
(***************************************************************************)
Steps  == {"dispatch", "run", "open", "acked", "fault", "stopped"}
Frames == [step : Steps, irq : 0 .. NIrq, old : SUBSET Irqs, estatus : BOOLEAN]

IrqTypeOK ==
  /\ lines \in SUBSET Irqs /\ raises \in Nat
  /\ pie \in BOOLEAN /\ faultHandler \in BOOLEAN
  /\ alt_irq_active \in SUBSET Irqs /\ alt_priority_mask \in SUBSET Irqs
  /\ handlers \in SUBSET Irqs
  /\ frames \in Seq(Frames) /\ contexts \in Seq(BOOLEAN)

\* IENABLE is what is active and allowed, and what is active has a handler.
LinesEnabled ==
  /\ ienable = alt_irq_active \cap alt_priority_mask
  /\ alt_irq_active \subseteq handlers

\* A frame whose handler lets others interrupt it, and one of a fault.
Reopened(r) == r.step \in {"open", "acked"}
Faulted(r)  == r.step \in {"fault", "stopped"}

\* A frame below another is of a handler; one that does not let others interrupt
\* it has only a fault above it, which has nothing above it.
Stacked ==
  \A k \in 1 .. Len(frames) - 1 :
    Reopened(frames[k]) \/ (frames[k].step = "run" /\ Faulted(frames[k + 1]))

\* The line of a frame, and the interrupts that its return restores.
Lined ==
  \A k \in 1 .. Len(frames) :
    /\ frames[k].irq \in handlers \cup {NIrq}
    /\ Reopened(frames[k]) \/ frames[k].step = "run" => frames[k].irq # NIrq
    /\ Faulted(frames[k]) => frames[k].irq = NIrq
    /\ frames[k].estatus => k = 1 \/ Reopened(frames[k - 1])

Ordered ==
  \A k, m \in 1 .. Len(frames) :
    k < m => frames[m].irq < frames[k].irq \/ frames[m].irq = NIrq

\* The mask lets through only what every open frame does, and so does the one that
\* an open frame restores; the outermost of them restores that of the thread.
Masked ==
  /\ \A k \in 1 .. Len(frames) : Reopened(frames[k]) =>
       /\ alt_priority_mask \subseteq Below(frames[k].irq)
       /\ \A m \in 1 .. Len(frames) :
            k < m /\ Reopened(frames[m]) => frames[m].old \subseteq Below(frames[k].irq)
       /\ (\A j \in 1 .. Len(frames) : j < k => ~Reopened(frames[j])) => frames[k].old = Irqs
  /\ (\A k \in 1 .. Len(frames) : ~Reopened(frames[k])) => alt_priority_mask = Irqs

\* Interrupts are on in the thread and in open frames only.
PieRight == pie => frames = << >> \/ Reopened(frames[Len(frames)])

\* In a critical section they are off, and a fault there restores that; only the
\* outermost section may restore that they are on.
Critical ==
  /\ contexts # << >> => /\ ~pie
                         /\ frames # << >> => /\ Len(frames) = 1 /\ Faulted(frames[1])
                                              /\ ~frames[1].estatus
  /\ \A i \in 2 .. Len(contexts) : ~contexts[i]

IrqInv == IrqTypeOK /\ LinesEnabled /\ Stacked /\ Lined /\ Ordered /\ Masked /\ PieRight /\ Critical

\* What IrqInv says beyond the types depends on these only.
irqStackVars == <<pie, ienable, alt_irq_active, alt_priority_mask, handlers, frames, contexts>>

LEMMA IrqFacts ==
  /\ NIrq \in Nat /\ NIrq \notin Irqs /\ Irqs \subseteq Nat
  /\ \A p \in 0 .. NIrq : Below(p) \in SUBSET Irqs
BY IrqAssumption DEF Irqs, Below

\* The three ways in which the stack of activations changes.
LEMMA StackPushed ==
  ASSUME NEW S, NEW s \in Seq(S), NEW r \in S
  PROVE  /\ Append(s, r) \in Seq(S) /\ Len(Append(s, r)) = Len(s) + 1 /\ Len(s) \in Nat
         /\ Append(s, r)[Len(s) + 1] = r
         /\ \A k \in 1 .. Len(s) : Append(s, r)[k] = s[k]
OBVIOUS

LEMMA StackReplaced ==
  ASSUME NEW S, NEW s \in Seq(S), s # << >>, NEW r \in S
  PROVE  /\ [s EXCEPT ![Len(s)] = r] \in Seq(S) /\ Len([s EXCEPT ![Len(s)] = r]) = Len(s)
         /\ Len(s) \in Nat \ {0}
         /\ [s EXCEPT ![Len(s)] = r][Len(s)] = r
         /\ \A k \in 1 .. Len(s) - 1 : [s EXCEPT ![Len(s)] = r][k] = s[k]
OBVIOUS

LEMMA StackPopped ==
  ASSUME NEW S, NEW s \in Seq(S), s # << >>
  PROVE  /\ SubSeq(s, 1, Len(s) - 1) \in Seq(S)
         /\ Len(SubSeq(s, 1, Len(s) - 1)) = Len(s) - 1 /\ Len(s) \in Nat \ {0}
         /\ \A k \in 1 .. Len(s) - 1 : SubSeq(s, 1, Len(s) - 1)[k] = s[k]
<1>1. Len(s) \in Nat \ {0}
  OBVIOUS
<1>2. 1 \in Int /\ Len(s) - 1 \in Int /\ \A i \in 1 .. Len(s) - 1 : s[i] \in S
  BY <1>1
<1>3. /\ SubSeq(s, 1, Len(s) - 1) \in Seq(S)
      /\ Len(SubSeq(s, 1, Len(s) - 1)) = IF 1 <= Len(s) - 1 THEN (Len(s) - 1) - 1 + 1 ELSE 0
      /\ \A i \in 1 .. (Len(s) - 1) - 1 + 1 : SubSeq(s, 1, Len(s) - 1)[i] = s[1 + i - 1]
  BY <1>2, SubSeqProperties
<1>4. \A k \in 1 .. Len(s) - 1 : k \in 1 .. (Len(s) - 1) - 1 + 1 /\ 1 + k - 1 = k
  BY <1>1
<1>5. Len(SubSeq(s, 1, Len(s) - 1)) = Len(s) - 1
  <2>. DEFINE m == Len(s)
              t == Len(SubSeq(s, 1, m - 1))
  <2>1. m \in Nat \ {0} /\ t = IF 1 <= m - 1 THEN (m - 1) - 1 + 1 ELSE 0
    BY <1>1, <1>3
  <2>. HIDE DEF m, t
  <2>2. t = m - 1
    BY <2>1
  <2>. QED BY <2>2 DEF m, t
<1>6. ASSUME NEW k \in 1 .. Len(s) - 1 PROVE SubSeq(s, 1, Len(s) - 1)[k] = s[k]
  <2>1. SubSeq(s, 1, Len(s) - 1)[k] = s[1 + k - 1]
    BY <1>3, <1>4
  <2>. QED BY <2>1, <1>4
<1>. QED BY <1>1, <1>3, <1>5, <1>6

LEMMA IrqStarts == IrqInit => IrqInv
<1>. SUFFICES ASSUME IrqInit PROVE IrqInv
  OBVIOUS
<1>. USE IrqFacts DEF IrqInit
<1>1. IrqTypeOK
  <2>1. frames \in Seq(Frames)
    OBVIOUS
  <2>2. contexts \in Seq(BOOLEAN)
    OBVIOUS
  <2>. QED BY <2>1, <2>2 DEF IrqTypeOK
<1>2. LinesEnabled /\ Stacked /\ Lined /\ Ordered /\ Masked /\ PieRight /\ Critical
  BY DEF LinesEnabled, Stacked, Lined, Ordered, Masked, PieRight, Critical
<1>. QED BY <1>1, <1>2 DEF IrqInv

\* Lines and handlers of faults matter to the types only.
LEMMA IrqApart ==
  ASSUME IrqInv, UNCHANGED irqStackVars, IrqTypeOK'
  PROVE  IrqInv'
BY DEF irqStackVars, IrqInv, LinesEnabled, Stacked, Lined, Ordered, Masked, PieRight, Critical

\* The exception handler is entered: on an interrupt where interrupts are on, or
\* on a fault of an instruction of the thread or of a handler.
LEMMA IrqEntered ==
  ASSUME IrqInv, NEW step \in {"dispatch", "fault"}, Enter(step),
         UNCHANGED <<ienable, alt_irq_active, alt_priority_mask, handlers, contexts>>,
         lines' \in SUBSET Irqs, raises' \in Nat, faultHandler' \in BOOLEAN,
         step = "dispatch" => pie,
         step = "fault" => frames = << >> \/ Top.step \in {"run", "open", "acked"}
  PROVE  IrqInv'
<1>. USE IrqFacts DEF IrqInv
<1>. DEFINE n == Len(frames)
            r == [step |-> step, irq |-> NIrq, old |-> {}, estatus |-> pie]
<1>1. frames \in Seq(Frames) /\ pie \in BOOLEAN /\ n \in Nat
  BY DEF IrqTypeOK
<1>2. r \in Frames
  BY <1>1 DEF Frames, Steps
<1>3. frames' = Append(frames, r) /\ pie' = FALSE
  BY DEF Enter
<1>. HIDE DEF r
<1>4. /\ frames' \in Seq(Frames) /\ Len(frames') = n + 1
      /\ frames'[n + 1] = r
      /\ \A k \in 1 .. n : frames'[k] = frames[k]
  BY <1>1, <1>2, <1>3, StackPushed
<1>5. /\ r.step = step /\ r.irq = NIrq /\ r.estatus = pie
      /\ ~Reopened(r) /\ r.step # "run" /\ (Faulted(r) <=> step = "fault")
  BY DEF r, Reopened, Faulted
<1>6. 1 .. n + 1 = (1 .. n) \cup {n + 1}
  BY <1>1
<1>7. IrqTypeOK'
  BY <1>3, <1>4 DEF IrqTypeOK
<1>8. LinesEnabled' /\ PieRight'
  BY <1>3 DEF LinesEnabled, PieRight
<1>9. n > 0 => Reopened(frames[n]) \/ (frames[n].step = "run" /\ step = "fault")
  BY <1>1 DEF Top, PieRight, Reopened
<1>10. Stacked'
  <2>1. \A k \in 1 .. n - 1 : k \in 1 .. n /\ k + 1 \in 1 .. n
    BY <1>1
  <2>2. \A k \in 1 .. n - 1 :
          Reopened(frames'[k]) \/ (frames'[k].step = "run" /\ Faulted(frames'[k + 1]))
    BY <2>1, <1>4 DEF Stacked
  <2>3. n > 0 => Reopened(frames'[n]) \/ (frames'[n].step = "run" /\ Faulted(frames'[n + 1]))
    BY <1>1, <1>4, <1>5, <1>9
  <2>4. \A k \in 1 .. (n + 1) - 1 : k \in 1 .. n - 1 \/ (n > 0 /\ k = n)
    BY <1>1
  <2>. QED BY <2>2, <2>3, <2>4, <1>4 DEF Stacked
<1>11. Lined'
  <2>1. \A k \in 1 .. n : k = 1 \/ k - 1 \in 1 .. n
    BY <1>1
  <2>2. \A k \in 1 .. n :
          /\ frames'[k].irq \in handlers' \cup {NIrq}
          /\ Reopened(frames'[k]) \/ frames'[k].step = "run" => frames'[k].irq # NIrq
          /\ Faulted(frames'[k]) => frames'[k].irq = NIrq
          /\ frames'[k].estatus => k = 1 \/ Reopened(frames'[k - 1])
    BY <1>4, <2>1 DEF Lined
  <2>3. pie => n + 1 = 1 \/ (n > 0 /\ Reopened(frames[n]))
    BY <1>1 DEF PieRight
  <2>4. pie => n + 1 = 1 \/ Reopened(frames'[(n + 1) - 1])
    BY <2>3, <1>1, <1>4
  <2>. QED BY <2>2, <2>4, <1>4, <1>5, <1>6 DEF Lined
<1>12. Ordered'
  <2>1. \A k, m \in 1 .. n : k < m => frames'[m].irq < frames'[k].irq \/ frames'[m].irq = NIrq
    BY <1>4 DEF Ordered
  <2>2. frames'[n + 1].irq = NIrq
    BY <1>4, <1>5
  <2>3. \A k, m \in 1 .. n + 1 : k < m => k \in 1 .. n /\ (m \in 1 .. n \/ m = n + 1)
    BY <1>1
  <2>. QED BY <1>4, <2>1, <2>2, <2>3 DEF Ordered
<1>13. Masked'
  BY <1>1, <1>4, <1>5, <1>6 DEF Masked
<1>14. Critical'
  <2>1. contexts # << >> => frames = << >> /\ ~pie /\ step = "fault"
    BY <1>1 DEF Critical, Top, Faulted
  <2>2. frames = << >> => n = 0
    OBVIOUS
  <2>. QED BY <2>1, <2>2, <1>3, <1>4, <1>5 DEF Critical
<1>. QED BY <1>7, <1>8, <1>10, <1>11, <1>12, <1>13, <1>14

\* The innermost activation goes on, with another line or step.
LEMMA IrqGoesOn ==
  ASSUME IrqInv, frames # << >>, NEW r \in Frames,
         frames' = [frames EXCEPT ![Len(frames)] = r],
         r.estatus = Top.estatus, UNCHANGED <<alt_irq_active, handlers, contexts>>,
         r.irq \in handlers \cup {NIrq},
         Reopened(r) \/ r.step = "run" => r.irq # NIrq,
         Faulted(r) <=> Faulted(Top), Faulted(r) => r.irq = NIrq,
         pie' \in BOOLEAN, contexts # << >> => ~pie',
         pie' => Reopened(r),
         \A k \in 1 .. Len(frames) - 1 : r.irq < frames[k].irq \/ r.irq = NIrq,
         alt_priority_mask' \in SUBSET Irqs, ienable' = alt_irq_active \cap alt_priority_mask',
         Masked', lines' \in SUBSET Irqs, UNCHANGED <<raises, faultHandler>>
  PROVE  IrqInv'
<1>. USE IrqFacts DEF IrqInv
<1>. DEFINE n == Len(frames)
<1>1. frames \in Seq(Frames)
  BY DEF IrqTypeOK
<1>2. /\ frames' \in Seq(Frames) /\ Len(frames') = n /\ n \in Nat \ {0}
      /\ frames'[n] = r
      /\ \A k \in 1 .. n - 1 : frames'[k] = frames[k]
  BY <1>1, StackReplaced
<1>. HIDE DEF n
<1>3. 1 .. n = (1 .. n - 1) \cup {n}
  BY <1>2
<1>4. Top = frames[n] /\ Len(frames) = n
  BY DEF n, Top
<1>5. IrqTypeOK' /\ LinesEnabled'
  BY <1>2 DEF IrqTypeOK, LinesEnabled
<1>6. PieRight'
  BY <1>2 DEF PieRight
<1>7. Stacked'
  <2>1. \A k \in 1 .. n - 1 :
          Reopened(frames[k]) \/ (frames[k].step = "run" /\ Faulted(frames[k + 1]))
    BY <1>4 DEF Stacked
  <2>2. \A k \in 1 .. n - 1 : k + 1 \in 1 .. n - 1 \/ k + 1 = n
    BY <1>2
  <2>3. \A k \in 1 .. n - 1 : Faulted(frames[k + 1]) <=> Faulted(frames'[k + 1])
    BY <1>2, <1>4, <2>2
  <2>. QED BY <1>2, <2>1, <2>3 DEF Stacked
<1>8. Lined'
  <2>1. \A k \in 1 .. n : k = 1 \/ k - 1 \in 1 .. n - 1
    BY <1>2
  <2>2. \A k \in 1 .. n : frames'[k].estatus => k = 1 \/ Reopened(frames'[k - 1])
    <3>1. \A k \in 1 .. n : frames'[k].estatus = frames[k].estatus
      BY <1>2, <1>3, <1>4
    <3>2. \A k \in 1 .. n : frames[k].estatus => k = 1 \/ Reopened(frames[k - 1])
      BY <1>4 DEF Lined
    <3>. QED BY <3>1, <3>2, <2>1, <1>2
  <2>3. \A k \in 1 .. n - 1 :
          /\ frames'[k].irq \in handlers' \cup {NIrq}
          /\ Reopened(frames'[k]) \/ frames'[k].step = "run" => frames'[k].irq # NIrq
          /\ Faulted(frames'[k]) => frames'[k].irq = NIrq
    BY <1>2, <1>3, <1>4 DEF Lined
  <2>. QED BY <1>2, <1>3, <2>2, <2>3 DEF Lined
<1>9. Ordered'
  <2>1. ASSUME NEW k \in 1 .. n, NEW m \in 1 .. n, k < m
        PROVE  frames'[m].irq < frames'[k].irq \/ frames'[m].irq = NIrq
    <3>1. k \in 1 .. n - 1
      BY <1>2, <2>1
    <3>2. CASE m = n
      BY <3>1, <3>2, <1>2, <1>4
    <3>3. CASE m \in 1 .. n - 1
      BY <2>1, <3>1, <3>3, <1>2, <1>4 DEF Ordered
    <3>. QED BY <1>3, <3>2, <3>3
  <2>. QED BY <2>1, <1>2 DEF Ordered
<1>10. Critical'
  <2>1. n = 1 => frames'[1] = r /\ Top = frames[1]
    BY <1>2, <1>4
  <2>2. contexts # << >> => n = 1 /\ Faulted(r) /\ ~r.estatus
    BY <2>1, <1>4 DEF Critical
  <2>3. \A i \in 2 .. Len(contexts') : ~contexts'[i]
    BY DEF Critical
  <2>. QED BY <2>1, <2>2, <2>3, <1>2 DEF Critical
<1>. QED BY <1>5, <1>6, <1>7, <1>8, <1>9, <1>10

\* The innermost activation returns.
LEMMA IrqReturned ==
  ASSUME IrqInv, frames # << >>, Eret, ~Reopened(Top),
         UNCHANGED <<lines, raises, ienable, alt_irq_active, alt_priority_mask, handlers,
                     faultHandler, contexts>>
  PROVE  IrqInv'
<1>. USE IrqFacts DEF IrqInv, Eret
<1>. DEFINE n == Len(frames)
<1>1. frames \in Seq(Frames)
  BY DEF IrqTypeOK
<1>2. /\ frames' \in Seq(Frames) /\ Len(frames') = n - 1 /\ n \in Nat \ {0}
      /\ \A k \in 1 .. n - 1 : frames'[k] = frames[k]
  BY <1>1, StackPopped
<1>. HIDE DEF n
<1>3. 1 .. n = (1 .. n - 1) \cup {n}
  BY <1>2
<1>4. Top = frames[n] /\ Len(frames) = n /\ pie' = Top.estatus
  BY DEF n, Top
<1>5. Top \in Frames
  BY <1>1, <1>2, <1>4
<1>6. IrqTypeOK' /\ LinesEnabled'
  BY <1>2, <1>4, <1>5 DEF IrqTypeOK, LinesEnabled, Frames
<1>7. PieRight'
  <2>1. Top.estatus => n = 1 \/ Reopened(frames[n - 1])
    BY <1>2, <1>4 DEF Lined
  <2>2. n = 1 => frames' = << >>
    BY <1>2
  <2>3. n # 1 => n - 1 \in 1 .. n - 1
    BY <1>2
  <2>. QED BY <2>1, <2>2, <2>3, <1>2, <1>4 DEF PieRight
<1>8. Stacked'
  <2>1. \A k \in 1 .. (n - 1) - 1 : k \in 1 .. n - 1 /\ k + 1 \in 1 .. n - 1
    BY <1>2
  <2>. QED BY <1>2, <1>4, <2>1 DEF Stacked
<1>9. Lined'
  <2>1. \A k \in 1 .. n - 1 : k \in 1 .. n /\ (k = 1 \/ k - 1 \in 1 .. n - 1)
    BY <1>2
  <2>. QED BY <1>2, <1>4, <2>1 DEF Lined
<1>10. Ordered'
  BY <1>2, <1>3, <1>4 DEF Ordered
<1>11. Masked'
  BY <1>2, <1>3, <1>4 DEF Masked
<1>12. Critical'
  <2>1. contexts # << >> => n = 1 /\ ~Top.estatus
    BY <1>4 DEF Critical
  <2>2. n = 1 => frames' = << >>
    BY <1>2
  <2>3. \A i \in 2 .. Len(contexts') : ~contexts'[i]
    BY DEF Critical
  <2>. QED BY <2>1, <2>2, <2>3, <1>4 DEF Critical
<1>. QED BY <1>6, <1>7, <1>8, <1>9, <1>10, <1>11, <1>12

\* The mask is untouched while the innermost activation stays open or closed.
LEMMA IrqMaskStays ==
  ASSUME IrqInv, frames # << >>, NEW r \in Frames,
         frames' = [frames EXCEPT ![Len(frames)] = r],
         Reopened(r) <=> Reopened(Top), Reopened(r) => r.irq = Top.irq /\ r.old = Top.old,
         UNCHANGED alt_priority_mask
  PROVE  Masked'
<1>. USE DEF IrqInv
<1>. DEFINE n == Len(frames)
<1>1. frames \in Seq(Frames)
  BY DEF IrqTypeOK
<1>2. /\ Len(frames') = n /\ n \in Nat \ {0} /\ frames'[n] = r
      /\ \A k \in 1 .. n - 1 : frames'[k] = frames[k]
  BY <1>1, StackReplaced
<1>. HIDE DEF n
<1>3. 1 .. n = (1 .. n - 1) \cup {n}
  BY <1>2
<1>4. Top = frames[n] /\ Len(frames) = n
  BY DEF n, Top
<1>5. \A k \in 1 .. n : /\ Reopened(frames'[k]) <=> Reopened(frames[k])
                        /\ Reopened(frames[k]) => /\ frames'[k].irq = frames[k].irq
                                                  /\ frames'[k].old = frames[k].old
  BY <1>2, <1>3, <1>4
<1>. QED BY <1>2, <1>4, <1>5 DEF Masked

\* Under an activation that is not of a fault, every one is open.
LEMMA IrqOpenBelow ==
  ASSUME IrqInv, frames # << >>, ~Faulted(Top)
  PROVE  \A k \in 1 .. Len(frames) - 1 : Reopened(frames[k])
<1>. DEFINE n == Len(frames)
<1>1. n \in Nat \ {0}
  BY DEF IrqInv, IrqTypeOK
<1>2. ASSUME NEW k \in 1 .. n - 1 PROVE Reopened(frames[k])
  <2>1. CASE k = n - 1
    BY <1>1, <2>1 DEF IrqInv, Stacked, Top
  <2>2. CASE k + 1 \in 1 .. n - 1
    <3>1. Reopened(frames[k + 1]) \/ frames[k + 1].step = "run"
      BY <2>2 DEF IrqInv, Stacked
    <3>2. ~Faulted(frames[k + 1])
      BY <3>1 DEF Reopened, Faulted
    <3>. QED BY <3>2, <1>2 DEF IrqInv, Stacked
  <2>. QED BY <1>1, <2>1, <2>2
<1>. QED BY <1>2

LEMMA IrqTop ==
  ASSUME IrqInv, frames # << >>
  PROVE  /\ Top \in Frames /\ Len(frames) \in Nat \ {0}
         /\ Top.irq \in handlers \cup {NIrq}
         /\ Reopened(Top) \/ Top.step = "run" => Top.irq \in Irqs
         /\ Faulted(Top) => Top.irq = NIrq
         /\ contexts # << >> => Faulted(Top)
         /\ \A k \in 1 .. Len(frames) - 1 : Top.irq < frames[k].irq \/ Top.irq = NIrq
<1>1. Top \in Frames /\ Len(frames) \in Nat \ {0} /\ Len(frames) \in 1 .. Len(frames)
  BY DEF IrqInv, IrqTypeOK, Top
<1>2. /\ Top.irq \in handlers \cup {NIrq}
      /\ Reopened(Top) \/ Top.step = "run" => Top.irq # NIrq
      /\ Faulted(Top) => Top.irq = NIrq
  BY <1>1 DEF IrqInv, Lined, Top
<1>3. contexts # << >> => Faulted(Top)
  BY <1>1 DEF IrqInv, Critical, Top
<1>4. handlers \subseteq Irqs
  BY DEF IrqInv, IrqTypeOK
<1>5. \A k \in 1 .. Len(frames) - 1 : Top.irq < frames[k].irq \/ Top.irq = NIrq
  BY <1>1 DEF IrqInv, Ordered, Top
<1>. QED BY <1>1, <1>2, <1>3, <1>4, <1>5

\* alt_irq_handler calls the handler of a pending line.
LEMMA IrqDispatched == IrqInv /\ Dispatch => IrqInv'
<1>. SUFFICES ASSUME IrqInv, Dispatch PROVE IrqInv'
  OBVIOUS
<1>. USE IrqFacts
<1>1. frames # << >> /\ Top.step = "dispatch" /\ ~Reopened(Top) /\ ~Faulted(Top)
  BY DEF Dispatch, Reopened, Faulted
<1>2. PICK i \in Pending :
        frames' = [frames EXCEPT ![Len(frames)] = [@ EXCEPT !.step = "run", !.irq = i, !.old = {}]]
  BY DEF Dispatch
<1>. DEFINE r == [Top EXCEPT !.step = "run", !.irq = i, !.old = {}]
<1>3. frames' = [frames EXCEPT ![Len(frames)] = r]
  BY <1>2 DEF Top
<1>4. i \in Irqs /\ i \in handlers /\ i \in alt_priority_mask /\ i # NIrq
  BY <1>2 DEF IrqInv, LinesEnabled, IrqTypeOK, Pending
<1>5. /\ r \in Frames /\ r.estatus = Top.estatus /\ r.irq = i
      /\ ~Reopened(r) /\ ~Faulted(r)
  <2>1. i \in 0 .. NIrq
    BY <1>4 DEF Irqs
  <2>. QED BY <1>1, <2>1, IrqTop DEF Frames, Steps, Reopened, Faulted
<1>6. contexts = << >>
  BY <1>1, IrqTop
<1>7. ~pie
  BY <1>1 DEF IrqInv, PieRight, Top
<1>8. \A k \in 1 .. Len(frames) - 1 : i < frames[k].irq
  <2>1. \A k \in 1 .. Len(frames) - 1 : Reopened(frames[k]) /\ k \in 1 .. Len(frames)
    BY <1>1, IrqOpenBelow, IrqTop
  <2>2. \A k \in 1 .. Len(frames) - 1 : i \in Below(frames[k].irq)
    BY <2>1, <1>4 DEF IrqInv, Masked
  <2>. QED BY <2>2 DEF Below
<1>9. UNCHANGED <<lines, raises, pie, ienable, alt_irq_active, alt_priority_mask, handlers, faultHandler, contexts>>
  BY DEF Dispatch
<1>10. ienable = alt_irq_active \cap alt_priority_mask /\ lines \in SUBSET Irqs /\ pie \in BOOLEAN
       /\ alt_priority_mask \in SUBSET Irqs
  BY DEF IrqInv, LinesEnabled, IrqTypeOK
<1>. HIDE DEF r
<1>11. Masked'
  BY <1>1, <1>3, <1>5, <1>9, IrqMaskStays
<1>. QED BY <1>1, <1>3, <1>4, <1>5, <1>6, <1>7, <1>8, <1>9, <1>10, <1>11, IrqGoesOn

\* A handler acknowledges its device, in an open activation or not.
LEMMA IrqHandled == IrqInv /\ Handled => IrqInv'
<1>. SUFFICES ASSUME IrqInv, Handled PROVE IrqInv'
  OBVIOUS
<1>. USE IrqFacts
<1>1. PICK a \in {"run", "open"}, b \in {"dispatch", "acked"} :
        /\ a = "run" <=> b = "dispatch"
        /\ Step(a, b)
  BY DEF Handled
<1>. DEFINE r == [Top EXCEPT !.step = b]
<1>2. frames # << >> /\ Top.step = a
  BY <1>1 DEF Step
<1>3. frames' = [frames EXCEPT ![Len(frames)] = r]
  BY <1>1 DEF Step, Top
<1>4. /\ r \in Frames /\ r.estatus = Top.estatus /\ r.irq = Top.irq /\ r.old = Top.old
      /\ Reopened(r) <=> Reopened(Top)
      /\ ~Faulted(r) /\ ~Faulted(Top) /\ r.step # "run"
  BY <1>1, <1>2, IrqTop DEF Frames, Steps, Reopened, Faulted
<1>5. contexts = << >>
  BY <1>2, <1>4, IrqTop
<1>6. pie => Reopened(r)
  BY <1>2, <1>4 DEF IrqInv, PieRight, Top
<1>7. UNCHANGED <<raises, pie, ienable, alt_irq_active, alt_priority_mask, handlers, faultHandler, contexts>>
  BY DEF Handled
<1>8. /\ ienable = alt_irq_active \cap alt_priority_mask /\ lines' \in SUBSET Irqs /\ pie \in BOOLEAN
      /\ alt_priority_mask \in SUBSET Irqs
  BY DEF IrqInv, LinesEnabled, IrqTypeOK, Handled
<1>9. /\ r.irq \in handlers \cup {NIrq}
      /\ Reopened(r) => r.irq # NIrq
      /\ \A k \in 1 .. Len(frames) - 1 : r.irq < frames[k].irq \/ r.irq = NIrq
  BY <1>2, <1>4, IrqTop
<1>. HIDE DEF r
<1>10. Masked'
  BY <1>2, <1>3, <1>4, <1>7, IrqMaskStays
<1>. QED BY <1>2, <1>3, <1>4, <1>5, <1>6, <1>7, <1>8, <1>9, <1>10, IrqGoesOn

\* alt_irq_interruptible: the mask shrinks to the numbers below the handler's own.
LEMMA IrqInterruptible == IrqInv /\ Interruptible => IrqInv'
<1>. SUFFICES ASSUME IrqInv, Interruptible PROVE IrqInv'
  OBVIOUS
<1>. USE IrqFacts
<1>. DEFINE n == Len(frames)
            r == [Top EXCEPT !.step = "open", !.old = alt_priority_mask]
<1>1. frames # << >> /\ Top.step = "run" /\ ~Reopened(Top) /\ ~Faulted(Top)
  BY DEF Interruptible, Reopened, Faulted
<1>2. frames' = [frames EXCEPT ![Len(frames)] = r]
  BY DEF Interruptible, Top
<1>3. alt_priority_mask \in SUBSET Irqs /\ frames \in Seq(Frames)
  BY DEF IrqInv, IrqTypeOK
<1>4. /\ r \in Frames /\ r.estatus = Top.estatus /\ r.irq = Top.irq /\ r.old = alt_priority_mask
      /\ Reopened(r) /\ ~Faulted(r)
  BY <1>1, <1>3, IrqTop DEF Frames, Steps, Reopened, Faulted
<1>5. contexts = << >>
  BY <1>1, IrqTop
<1>6. /\ Top.irq \in Irqs /\ Top.irq \in handlers /\ Top.irq # NIrq
      /\ \A k \in 1 .. n - 1 : Top.irq < frames[k].irq
  BY <1>1, IrqTop
<1>7. /\ alt_priority_mask' = Below(Top.irq) /\ ienable' = alt_irq_active \cap alt_priority_mask'
      /\ pie' = TRUE /\ UNCHANGED <<lines, raises, alt_irq_active, handlers, faultHandler, contexts>>
  BY DEF Interruptible
<1>8. alt_priority_mask' \in SUBSET Irqs /\ lines \in SUBSET Irqs
  BY <1>7 DEF IrqInv, IrqTypeOK, Below
<1>. HIDE DEF r
<1>9. /\ Len(frames') = n /\ n \in Nat \ {0} /\ frames'[n] = r
      /\ \A k \in 1 .. n - 1 : frames'[k] = frames[k]
  BY <1>1, <1>2, <1>3, <1>4, StackReplaced
<1>10. \A k \in 1 .. n - 1 : Reopened(frames[k])
  BY <1>1, IrqOpenBelow
<1>11. Top = frames[n] /\ Len(frames) = n
  BY DEF Top
<1>. HIDE DEF n
<1>12. 1 .. n = (1 .. n - 1) \cup {n} /\ n \in 1 .. n
  BY <1>9
<1>13. Masked'
  <2>1. ASSUME NEW k \in 1 .. n - 1
        PROVE  /\ alt_priority_mask' \subseteq Below(frames'[k].irq)
               /\ \A m \in 1 .. n : k < m /\ Reopened(frames'[m])
                                       => frames'[m].old \subseteq Below(frames'[k].irq)
               /\ (\A j \in 1 .. n : j < k => ~Reopened(frames'[j])) => frames'[k].old = Irqs
    <3>1. k \in 1 .. n /\ frames'[k] = frames[k] /\ Reopened(frames[k])
      BY <1>9, <1>10, <1>12
    <3>2. frames[k] \in Frames
      BY <1>3, <1>11, <3>1
    <3>3. Below(Top.irq) \subseteq Below(frames[k].irq)
      BY <1>6, <3>2 DEF Below, Frames, Irqs
    <3>4. alt_priority_mask \subseteq Below(frames[k].irq)
      BY <1>11, <3>1 DEF IrqInv, Masked
    <3>5. \A m \in 1 .. n - 1 : k < m /\ Reopened(frames[m])
                                   => frames[m].old \subseteq Below(frames[k].irq)
      BY <1>11, <1>12, <3>1 DEF IrqInv, Masked
    <3>6. (\A j \in 1 .. n : j < k => ~Reopened(frames[j])) => frames[k].old = Irqs
      BY <1>11, <3>1 DEF IrqInv, Masked
    <3>7. \A j \in 1 .. n : j < k => frames'[j] = frames[j]
      BY <1>9
    <3>. QED BY <1>4, <1>7, <1>9, <1>12, <3>1, <3>3, <3>4, <3>5, <3>6, <3>7
  <2>2. /\ alt_priority_mask' \subseteq Below(frames'[n].irq)
        /\ \A m \in 1 .. n : ~(n < m)
        /\ (\A j \in 1 .. n : j < n => ~Reopened(frames'[j])) => frames'[n].old = Irqs
    <3>1. ASSUME \A j \in 1 .. n : j < n => ~Reopened(frames'[j]) PROVE frames'[n].old = Irqs
      <4>1. \A j \in 1 .. n : ~Reopened(frames[j])
        BY <1>1, <1>9, <1>11, <1>12, <3>1
      <4>2. alt_priority_mask = Irqs
        BY <4>1, <1>11 DEF IrqInv, Masked
      <4>. QED BY <4>2, <1>4, <1>9
    <3>. QED BY <3>1, <1>4, <1>7, <1>9
  <2>3. Reopened(frames'[n])
    BY <1>4, <1>9
  <2>. QED BY <2>1, <2>2, <2>3, <1>9, <1>12 DEF Masked
<1>. QED BY <1>1, <1>2, <1>4, <1>5, <1>6, <1>7, <1>8, <1>11, <1>13, IrqGoesOn

\* alt_irq_non_interruptible: the mask is what it was before.
LEMMA IrqNonInterruptible == IrqInv /\ NonInterruptible => IrqInv'
<1>. SUFFICES ASSUME IrqInv, NonInterruptible PROVE IrqInv'
  OBVIOUS
<1>. USE IrqFacts
<1>. DEFINE n == Len(frames)
            r == [Top EXCEPT !.step = "dispatch"]
<1>1. frames # << >> /\ Top.step = "acked" /\ Reopened(Top) /\ ~Faulted(Top)
  BY DEF NonInterruptible, Step, Reopened, Faulted
<1>2. frames' = [frames EXCEPT ![Len(frames)] = r]
  BY DEF NonInterruptible, Step, Top
<1>3. frames \in Seq(Frames)
  BY DEF IrqInv, IrqTypeOK
<1>4. /\ r \in Frames /\ r.estatus = Top.estatus /\ r.irq = Top.irq
      /\ ~Reopened(r) /\ ~Faulted(r) /\ r.step # "run"
  BY <1>1, <1>3, IrqTop DEF Frames, Steps, Reopened, Faulted
<1>5. contexts = << >>
  BY <1>1, IrqTop
<1>6. /\ r.irq \in handlers \cup {NIrq}
      /\ \A k \in 1 .. n - 1 : r.irq < frames[k].irq \/ r.irq = NIrq
  BY <1>1, <1>4, IrqTop
<1>7. /\ alt_priority_mask' = Top.old /\ ienable' = alt_irq_active \cap alt_priority_mask'
      /\ pie' = FALSE /\ UNCHANGED <<lines, raises, alt_irq_active, handlers, faultHandler, contexts>>
  BY DEF NonInterruptible
<1>8. alt_priority_mask' \in SUBSET Irqs /\ lines \in SUBSET Irqs
  BY <1>1, <1>7, IrqTop DEF IrqInv, IrqTypeOK, Frames
<1>. HIDE DEF r
<1>9. /\ Len(frames') = n /\ n \in Nat \ {0} /\ frames'[n] = r
      /\ \A k \in 1 .. n - 1 : frames'[k] = frames[k]
  BY <1>1, <1>2, <1>3, <1>4, StackReplaced
<1>10. Top = frames[n] /\ Len(frames) = n
  BY DEF Top
<1>. HIDE DEF n
<1>11. 1 .. n = (1 .. n - 1) \cup {n} /\ n \in 1 .. n
  BY <1>9
<1>12. Masked'
  <2>1. ASSUME NEW k \in 1 .. n, Reopened(frames'[k])
        PROVE  /\ alt_priority_mask' \subseteq Below(frames'[k].irq)
               /\ \A m \in 1 .. n : k < m /\ Reopened(frames'[m])
                                       => frames'[m].old \subseteq Below(frames'[k].irq)
               /\ (\A j \in 1 .. n : j < k => ~Reopened(frames'[j])) => frames'[k].old = Irqs
    <3>1. k \in 1 .. n - 1 /\ k < n /\ frames'[k] = frames[k] /\ Reopened(frames[k])
      BY <1>4, <1>9, <1>11, <2>1
    <3>2. \A m \in 1 .. n : k < m /\ Reopened(frames[m])
                                   => frames[m].old \subseteq Below(frames[k].irq)
      BY <1>10, <3>1, <2>1 DEF IrqInv, Masked
    <3>3. Top.old \subseteq Below(frames[k].irq)
      BY <1>1, <1>10, <1>11, <3>1, <3>2
    <3>4. (\A j \in 1 .. n : j < k => ~Reopened(frames[j])) => frames[k].old = Irqs
      BY <1>10, <3>1, <2>1 DEF IrqInv, Masked
    <3>5. \A j \in 1 .. n : j < k => frames'[j] = frames[j]
      BY <1>9, <3>1
    <3>6. \A m \in 1 .. n : Reopened(frames'[m]) => frames'[m] = frames[m]
      BY <1>4, <1>9, <1>11
    <3>. QED BY <1>7, <3>1, <3>2, <3>3, <3>4, <3>5, <3>6
  <2>2. ASSUME \A k \in 1 .. n : ~Reopened(frames'[k]) PROVE alt_priority_mask' = Irqs
    <3>1. \A j \in 1 .. n : j < n => ~Reopened(frames[j])
      BY <2>2, <1>9, <1>11
    <3>. QED BY <3>1, <1>1, <1>7, <1>10, <1>11 DEF IrqInv, Masked
  <2>. QED BY <2>1, <2>2, <1>9 DEF Masked
<1>. QED BY <1>1, <1>2, <1>4, <1>5, <1>6, <1>7, <1>8, <1>10, <1>12, IrqGoesOn

\* A fault's handler returns to what faulted; without one all is over.
LEMMA IrqServedFault == IrqInv /\ ServeFault => IrqInv'
<1>. SUFFICES ASSUME IrqInv, ServeFault PROVE IrqInv'
  OBVIOUS
<1>. USE IrqFacts
<1>1. frames # << >> /\ Top.step = "fault" /\ ~Reopened(Top) /\ Faulted(Top)
  BY DEF ServeFault, Reopened, Faulted
<1>2. CASE faultHandler
  BY <1>1, <1>2, IrqReturned DEF ServeFault
<1>3. CASE ~faultHandler
  <2>. DEFINE r == [Top EXCEPT !.step = "stopped"]
  <2>1. frames' = [frames EXCEPT ![Len(frames)] = r]
    BY <1>3 DEF ServeFault, Step, Top
  <2>2. /\ r \in Frames /\ r.estatus = Top.estatus /\ r.irq = Top.irq
        /\ ~Reopened(r) /\ Faulted(r) /\ r.step # "run"
    BY <1>1, IrqTop DEF Frames, Steps, Reopened, Faulted
  <2>3. UNCHANGED <<lines, raises, pie, ienable, alt_irq_active, alt_priority_mask, handlers, faultHandler, contexts>>
    BY <1>3 DEF ServeFault
  <2>4. ~pie /\ pie \in BOOLEAN
    BY <1>1 DEF IrqInv, IrqTypeOK, PieRight, Top
  <2>5. /\ ienable = alt_irq_active \cap alt_priority_mask /\ lines \in SUBSET Irqs
        /\ alt_priority_mask \in SUBSET Irqs
    BY DEF IrqInv, LinesEnabled, IrqTypeOK
  <2>6. /\ r.irq \in handlers \cup {NIrq} /\ r.irq = NIrq
        /\ \A k \in 1 .. Len(frames) - 1 : r.irq < frames[k].irq \/ r.irq = NIrq
    BY <1>1, <2>2, IrqTop
  <2>. HIDE DEF r
  <2>7. Masked'
    BY <1>1, <2>1, <2>2, <2>3, IrqMaskStays
  <2>. QED BY <1>1, <2>1, <2>2, <2>3, <2>4, <2>5, <2>6, <2>7, IrqGoesOn
<1>. QED BY <1>2, <1>3

\* The thread runs only when no activation is left.
LEMMA IrqThreadKeeps == IrqInv /\ IrqThread(IrqThreadStep) => IrqInv'
<1>. SUFFICES ASSUME IrqInv, IrqThread(IrqThreadStep) PROVE IrqInv'
  OBVIOUS
<1>. USE IrqFacts DEF IrqInv
<1>1. /\ frames = << >> /\ frames' = << >> /\ UNCHANGED <<lines, raises, alt_priority_mask>>
      /\ IrqThreadStep
  BY DEF IrqThread
<1>2. alt_priority_mask = Irqs
  BY <1>1 DEF Masked
<1>3. ienable = alt_irq_active /\ alt_irq_active \in SUBSET Irqs
  BY <1>2 DEF LinesEnabled, IrqTypeOK
<1>4. Stacked' /\ Lined' /\ Ordered' /\ Masked' /\ PieRight'
  BY <1>1, <1>2 DEF Stacked, Lined, Ordered, Masked, PieRight
<1>5. contexts \in Seq(BOOLEAN) /\ pie \in BOOLEAN /\ Len(contexts) \in Nat
  BY DEF IrqTypeOK
<1>6. CASE DisableAll
  <2>1. UNCHANGED <<ienable, alt_irq_active, handlers, faultHandler>> /\ pie' = FALSE
    BY <1>6 DEF DisableAll
  <2>2. /\ contexts' \in Seq(BOOLEAN) /\ Len(contexts') = Len(contexts) + 1
        /\ contexts'[Len(contexts) + 1] = pie
        /\ \A k \in 1 .. Len(contexts) : contexts'[k] = contexts[k]
    BY <1>5, <1>6, StackPushed DEF DisableAll
  <2>3. Critical'
    <3>1. ASSUME NEW i \in 2 .. Len(contexts) + 1 PROVE ~contexts'[i]
      <4>1. CASE i = Len(contexts) + 1
        <5>1. contexts # << >>
          BY <4>1, <1>5
        <5>. QED BY <4>1, <5>1, <2>2 DEF Critical
      <4>2. CASE i \in 2 .. Len(contexts)
        BY <4>2, <2>2 DEF Critical
      <4>. QED BY <4>1, <4>2, <1>5
    <3>. QED BY <3>1, <1>1, <2>1, <2>2 DEF Critical
  <2>4. IrqTypeOK' /\ LinesEnabled'
    BY <1>1, <2>1, <2>2 DEF IrqTypeOK, LinesEnabled
  <2>. QED BY <1>4, <2>3, <2>4
<1>7. CASE EnableAll
  <2>1. UNCHANGED <<ienable, alt_irq_active, handlers, faultHandler>> /\ contexts # << >>
        /\ pie' = contexts[Len(contexts)]
    BY <1>7 DEF EnableAll
  <2>2. /\ contexts' \in Seq(BOOLEAN) /\ Len(contexts') = Len(contexts) - 1 /\ Len(contexts) \in Nat \ {0}
        /\ \A k \in 1 .. Len(contexts) - 1 : contexts'[k] = contexts[k]
    BY <1>5, <1>7, StackPopped DEF EnableAll
  <2>3. Critical'
    <3>1. \A i \in 2 .. Len(contexts) - 1 : i \in 1 .. Len(contexts) - 1 /\ i \in 2 .. Len(contexts)
      BY <2>2
    <3>2. \A i \in 2 .. Len(contexts') : ~contexts'[i]
      BY <3>1, <2>2 DEF Critical
    <3>3. contexts' # << >> => Len(contexts) \in 2 .. Len(contexts)
      BY <2>2
    <3>4. contexts' # << >> => ~pie'
      BY <3>3, <2>1 DEF Critical
    <3>. QED BY <3>2, <3>4, <1>1 DEF Critical
  <2>4. IrqTypeOK' /\ LinesEnabled'
    BY <1>1, <2>1, <2>2 DEF IrqTypeOK, LinesEnabled
  <2>. QED BY <1>4, <2>3, <2>4
<1>8. CASE RegisterFault
  <2>1. IrqTypeOK'
    BY <1>1, <1>8 DEF RegisterFault, IrqTypeOK
  <2>. QED BY <1>1, <1>8, <2>1, IrqApart DEF RegisterFault, irqStackVars
<1>9. CASE \E i \in Irqs : Enable(i) \/ Disable(i) \/ Register(i) \/ Unregister(i)
  <2>1. PICK i \in Irqs : Enable(i) \/ Disable(i) \/ Register(i) \/ Unregister(i)
    BY <1>9
  <2>2. UNCHANGED <<pie, faultHandler, contexts>>
    BY <2>1 DEF Enable, Disable, Register, Unregister
  <2>3. /\ ienable' = alt_irq_active' /\ alt_irq_active' \in SUBSET Irqs
        /\ handlers' \in SUBSET Irqs /\ alt_irq_active' \subseteq handlers'
    BY <2>1, <1>3 DEF Enable, Disable, Register, Unregister, SetActive, LinesEnabled, IrqTypeOK
  <2>4. IrqTypeOK' /\ LinesEnabled'
    BY <1>1, <1>2, <2>2, <2>3 DEF IrqTypeOK, LinesEnabled
  <2>5. Critical'
    BY <1>1, <2>2 DEF Critical
  <2>. QED BY <1>4, <2>4, <2>5
<1>. QED BY <1>1, <1>6, <1>7, <1>8, <1>9 DEF IrqThreadStep

LEMMA IrqStep == IrqInv /\ [IrqNext]_irqVars => IrqInv'
<1>. SUFFICES ASSUME IrqInv, [IrqNext]_irqVars PROVE IrqInv'
  OBVIOUS
<1>1. ASSUME NEW i \in Irqs, Raise(i) PROVE IrqInv'
  <2>1. IrqTypeOK' /\ UNCHANGED irqStackVars
    BY <1>1 DEF Raise, IrqInv, IrqTypeOK, irqStackVars
  <2>. QED BY <2>1, IrqApart
<1>2. CASE Fault
  <2>1. raises' \in Nat /\ lines' \in SUBSET Irqs /\ faultHandler' \in BOOLEAN
    BY <1>2 DEF Fault, IrqInv, IrqTypeOK
  <2>. QED BY <1>2, <2>1, IrqEntered DEF Fault
<1>3. CASE TakeInterrupt
  <2>1. raises' \in Nat /\ lines' \in SUBSET Irqs /\ faultHandler' \in BOOLEAN
    BY <1>3 DEF TakeInterrupt, IrqInv, IrqTypeOK
  <2>. QED BY <1>3, <2>1, IrqEntered DEF TakeInterrupt
<1>4. CASE Dispatch
  BY <1>4, IrqDispatched
<1>5. CASE ReturnFromInterrupt
  BY <1>5, IrqReturned DEF ReturnFromInterrupt, Reopened
<1>6. CASE Handled
  BY <1>6, IrqHandled
<1>7. CASE Interruptible
  BY <1>7, IrqInterruptible
<1>8. CASE NonInterruptible
  BY <1>8, IrqNonInterruptible
<1>9. CASE ServeFault
  BY <1>9, IrqServedFault
<1>10. CASE IrqThread(IrqThreadStep)
  BY <1>10, IrqThreadKeeps
<1>11. CASE UNCHANGED irqVars
  <2>1. IrqTypeOK' /\ UNCHANGED irqStackVars
    BY <1>11 DEF IrqInv, IrqTypeOK, irqStackVars, irqVars
  <2>. QED BY <2>1, IrqApart
<1>. QED BY <1>1, <1>2, <1>3, <1>4, <1>5, <1>6, <1>7, <1>8, <1>9, <1>10, <1>11
         DEF IrqNext, IrqHandler

\* Interrupts stay off in a critical section however sections are nested and
\* whatever faults in them; a handler is interrupted only by lines of higher
\* priority or its own faults, and every line that is dispatched has a handler;
\* and the thread finds IENABLE as it enabled it.  For any number of lines and any
\* depth of nesting (alt_irq.h:133, alt_legacy_irq.h:103).
THEOREM InterruptsNest == IrqSpec => []IrqNesting
<1>1. IrqSpec => []IrqInv
  BY IrqStarts, IrqStep, PTL DEF IrqSpec
<1>2. ASSUME IrqInv PROVE IrqNesting
  <2>. USE IrqFacts, <1>2 DEF IrqInv
  <2>1. contexts # << >> =>
          ~pie /\ (frames = << >> \/ (Len(frames) = 1 /\ Top.step \in {"fault", "stopped"}))
    BY DEF Critical, Top, Faulted
  <2>2. \A k \in 1 .. Len(frames) - 1 :
          /\ frames[k].step \in {"open", "acked"} \/ frames[k + 1].step \in {"fault", "stopped"}
          /\ \A m \in k + 1 .. Len(frames) : frames[m].irq < frames[k].irq \/ frames[m].irq = NIrq
    <3>1. ASSUME NEW k \in 1 .. Len(frames) - 1
          PROVE  frames[k].step \in {"open", "acked"} \/ frames[k + 1].step \in {"fault", "stopped"}
      BY <3>1 DEF Stacked, Reopened, Faulted
    <3>2. ASSUME NEW k \in 1 .. Len(frames) - 1, NEW m \in k + 1 .. Len(frames)
          PROVE  frames[m].irq < frames[k].irq \/ frames[m].irq = NIrq
      <4>1. Len(frames) \in Nat
        BY DEF IrqTypeOK
      <4>2. k \in 1 .. Len(frames) /\ m \in 1 .. Len(frames) /\ k < m
        BY <3>2, <4>1
      <4>. QED BY <4>2 DEF Ordered
    <3>. QED BY <3>1, <3>2
  <2>3. \A k \in 1 .. Len(frames) : frames[k].irq \in handlers \cup {NIrq}
    BY DEF Lined
  <2>4. frames = << >> => ienable = alt_irq_active /\ alt_priority_mask = Irqs
    <3>1. frames = << >> => alt_priority_mask = Irqs
      BY DEF Masked
    <3>2. ienable = alt_irq_active \cap alt_priority_mask /\ alt_irq_active \in SUBSET Irqs
      BY DEF LinesEnabled, IrqTypeOK
    <3>. QED BY <3>1, <3>2
  <2>. QED BY <2>1, <2>2, <2>3, <2>4 DEF IrqNesting
<1>. QED BY <1>1, <1>2, PTL

-----------------------------------------------------------------------------
(***************************************************************************)
(* The caches                                                              *)
(***************************************************************************)

Stages == {"load", "loadFlushed", "run", "patch", "patchFlushed", "device"}

CacheTypeOK ==
  /\ mfresh \subseteq Words /\ dfresh \subseteq Words /\ ifresh \subseteq Words
  /\ dlines \subseteq Lines /\ ddirty \subseteq dlines /\ ilines \subseteq Lines
  /\ stage \in Stages /\ region \subseteq Words /\ uncached \subseteq Words
  /\ shared \subseteq Lines

\* What a device fills, and what is used past the data cache.
Given == IF stage = "device" THEN region ELSE {}
Past  == uncached \cup Given

\* But for lines shared with other words, it has its lines for itself, and they are not
\* in the cache.
PastApart ==
  /\ stage = "device" => uncached = {}
  /\ Past \cap Code = {}
  /\ \A a \in Past :
       LineOf(a) \notin shared =>
         LineOf(a) \notin dlines /\ \A b \in Words : LineOf(b) = LineOf(a) => b \in Past

\* The code, which is in nobody's region, and what is not in a shared line.
Vouched == {a \in Words : a \in Code \/ LineOf(a) \notin shared}

\* Any such word is fresh in the data cache if its line is there, and else in memory; a
\* line that is not to be written back is as in memory.
Current ==
  \A a \in Vouched :
    /\ \/ a \in Given
       \/ IF LineOf(a) \in dlines THEN a \in dfresh ELSE a \in mfresh
    /\ LineOf(a) \in dlines \ ddirty => a \in mfresh

\* Code that is not being changed is fresh in memory and where it was fetched.
CodeInMemory ==
  stage # "load" =>
    \A a \in Code : (stage = "patch" /\ a \in region) \/ a \in mfresh
CodeFetched ==
  stage \notin {"load", "loadFlushed"} =>
    \A a \in Code : \/ stage \in {"patch", "patchFlushed"} /\ a \in region
                    \/ LineOf(a) \in ilines => a \in ifresh

\* What is being changed is one piece of code.
Patching ==
  /\ stage \in {"load", "patch", "patchFlushed"} => region \subseteq Code
  /\ stage \in {"patch", "patchFlushed"} =>
       \E r \in Regions : region = Span(r[1], r[2])

CacheInv ==
  CacheTypeOK /\ PastApart /\ Current /\ CodeInMemory /\ CodeFetched /\ Patching

LEMMA InWordsOf == \A S, a : a \in WordsOf(S) <=> a \in Words /\ LineOf(a) \in S
BY DEF WordsOf

LEMMA InWrittenBack ==
  \A S, a : a \in Words =>
    (a \in WrittenBack(S) <=> IF LineOf(a) \in S /\ LineOf(a) \in ddirty THEN a \in dfresh
                                                                        ELSE a \in mfresh)
BY InWordsOf DEF WrittenBack

\* Lines leave the data cache.
LEMMA LinesLeave ==
  ASSUME CacheTypeOK, Current, NEW S \in SUBSET dlines, Leave(S), Given' = Given,
         shared \subseteq shared'
  PROVE  /\ mfresh' \subseteq Words /\ dfresh' \subseteq Words
         /\ dlines' = dlines \ S /\ ddirty' \subseteq dlines'
         /\ Current'
         /\ \A a \in Vouched \ Given : a \in mfresh \/ LineOf(a) \in S => a \in mfresh'
<1>1. /\ mfresh' = WrittenBack(S) /\ dlines' = dlines \ S /\ ddirty' = ddirty \ S
      /\ dfresh' = dfresh \ WordsOf(S)
  BY DEF Leave
<1>2. /\ mfresh \subseteq Words /\ dfresh \subseteq Words /\ ddirty \subseteq dlines
  BY DEF CacheTypeOK
<1>3. \A a \in Words :
        /\ a \in mfresh' <=> IF LineOf(a) \in S /\ LineOf(a) \in ddirty THEN a \in dfresh ELSE a \in mfresh
        /\ a \in dfresh' <=> a \in dfresh /\ LineOf(a) \notin S
  BY <1>1, InWrittenBack, InWordsOf
<1>4. mfresh' \subseteq Words /\ dfresh' \subseteq Words
  BY <1>1, <1>2 DEF WrittenBack
<1>5. ASSUME NEW a \in Vouched
      PROVE  /\ a \in Given' \/ (IF LineOf(a) \in dlines' THEN a \in dfresh' ELSE a \in mfresh')
             /\ LineOf(a) \in dlines' \ ddirty' => a \in mfresh'
             /\ a \notin Given /\ (a \in mfresh \/ LineOf(a) \in S) => a \in mfresh'
  <2>1. a \in Words
    BY DEF Vouched
  <2>. QED BY <1>1, <1>2, <1>3, <2>1 DEF Current
<1>6. Vouched' \subseteq Vouched
  BY DEF Vouched
<1>. QED BY <1>1, <1>2, <1>4, <1>5, <1>6 DEF Current

\* A word that is not used past the cache is loaded or stored.
LEMMA WordUsed ==
  ASSUME CacheTypeOK, PastApart, Current, NEW a \in Words \ Past,
         LineOf(a) \in Lines, Load(a) \/ Store(a),
         UNCHANGED <<stage, uncached, shared, Given>>, region' \subseteq region
  PROVE  /\ CacheTypeOK' /\ PastApart' /\ Current'
         /\ ilines' = ilines
         /\ \A b \in Vouched \ Given : b # a =>
              (b \in mfresh => b \in mfresh') /\ (b \in ifresh <=> b \in ifresh')
         /\ Load(a) /\ a \in mfresh => a \in mfresh'
         /\ Load(a) => ifresh' = ifresh
<1>. DEFINE E == Evicted(a)
            l == LineOf(a)
<1>1. /\ mfresh \subseteq Words /\ dfresh \subseteq Words /\ ddirty \subseteq dlines
      /\ ifresh \subseteq Words /\ ilines \subseteq Lines /\ dlines \subseteq Lines
  BY DEF CacheTypeOK
<1>2. E \subseteq dlines /\ l \notin E
  BY DEF Evicted, Conflicts
<1>3. Given' = Given /\ Past' = Past /\ Given \subseteq Past
  BY DEF Past
<1>4. /\ dlines' = (dlines \ E) \cup {l} /\ ilines' = ilines
      /\ \/ /\ mfresh' = WrittenBack(E) /\ ddirty' = ddirty \ E /\ dfresh' = Filled(a)
            /\ ifresh' = ifresh
         \/ /\ mfresh' = WrittenBack(E) \ {a} /\ ddirty' = (ddirty \ E) \cup {l}
            /\ dfresh' = Filled(a) \cup {a} /\ ifresh' = ifresh \ {a}
  BY DEF Load, Store
<1>5. Load(a) => mfresh' = WrittenBack(E) /\ ifresh' = ifresh
  BY DEF Load
<1>. HIDE DEF E, l
<1>6. \A b \in Words :
        /\ b \in WrittenBack(E) <=> IF LineOf(b) \in E /\ LineOf(b) \in ddirty THEN b \in dfresh
                                                                               ELSE b \in mfresh
        /\ b \in Filled(a) <=> \/ b \in dfresh /\ LineOf(b) \notin E
                               \/ LineOf(b) = l /\ l \notin dlines /\ b \in WrittenBack(E)
  BY InWrittenBack, InWordsOf DEF Filled, E, l
<1>7. CacheTypeOK'
  <2>1. WrittenBack(E) \subseteq Words /\ Filled(a) \subseteq Words
    BY <1>1 DEF WrittenBack, Filled, WordsOf
  <2>. QED BY <1>1, <1>2, <1>4, <2>1 DEF CacheTypeOK, l
<1>8. PastApart'
  BY <1>2, <1>3, <1>4 DEF PastApart, l
<1>9. ASSUME NEW b \in Vouched
      PROVE  /\ b \in Given \/ (IF LineOf(b) \in dlines' THEN b \in dfresh' ELSE b \in mfresh')
             /\ LineOf(b) \in dlines' \ ddirty' => b \in mfresh'
             /\ b \notin Given /\ b # a => (b \in mfresh => b \in mfresh')
  <2>1. /\ b \in Given \/ (IF LineOf(b) \in dlines THEN b \in dfresh ELSE b \in mfresh)
        /\ LineOf(b) \in dlines \ ddirty => b \in mfresh
    BY DEF Current
  <2>2. LineOf(b) = l => b \notin Given
    BY <1>3 DEF PastApart, Vouched, l
  <2>3. b \in Words /\ (b = a => LineOf(b) = l)
    BY DEF Vouched, l
  <2>. QED BY <1>1, <1>2, <1>4, <1>6, <2>1, <2>2, <2>3
<1>10. Current'
  <2>1. Vouched' = Vouched
    BY DEF Vouched
  <2>. QED BY <1>3, <1>9, <2>1 DEF Current
<1>11. Load(a) /\ a \in mfresh => a \in mfresh'
  BY <1>2, <1>5, <1>6 DEF l
<1>. QED BY <1>4, <1>5, <1>7, <1>8, <1>9, <1>10, <1>11

-----------------------------------------------------------------------------
(* Words, lines and the addresses that a flush touches. *)

LEMMA CacheFacts ==
  /\ LineWords \in Nat \ {0} /\ NLines \in Nat /\ ISets \in Nat \ {0} /\ Code \subseteq Words
  /\ NLines * LineWords \in Nat
  /\ \A a : a \in Words <=> a \in Nat /\ a < NLines * LineWords
<1>1. LineWords \in Nat \ {0} /\ NLines \in Nat /\ ISets \in Nat \ {0} /\ Code \subseteq Words
  BY CacheAssumption
<1>2. NLines * LineWords \in Nat
  BY <1>1
<1>. QED BY <1>1, <1>2 DEF Words

\* A word is at a place in its line, and a place in a line is a word of it.
LEMMA PlaceInLine ==
  ASSUME NEW a \in Nat
  PROVE  /\ LineOf(a) \in Nat /\ a % LineWords \in 0 .. LineWords - 1
         /\ a = LineWords * LineOf(a) + (a % LineWords)
<1>1. /\ LineOf(a) \in Int /\ a % LineWords \in 0 .. LineWords - 1
      /\ a = LineWords * LineOf(a) + (a % LineWords)
  BY CacheFacts, Division DEF LineOf
<1>. DEFINE k == LineOf(a)
            r == a % LineWords
<1>. HIDE DEF k, r
<1>2. k <= -1 => LineWords * k <= -LineWords
  BY <1>1, CacheFacts DEF k, r
<1>3. k >= 0
  BY <1>1, <1>2, CacheFacts DEF k, r
<1>. QED BY <1>1, <1>3 DEF k, r

LEMMA LineAt ==
  ASSUME NEW k \in Nat, NEW r \in 0 .. LineWords - 1
  PROVE  LineOf(LineWords * k + r) = k /\ (LineWords * k + r) % LineWords = r
BY CacheFacts, DivisionUnique DEF LineOf

\* Lines come in the order of their words.
LEMMA LinesBelow ==
  ASSUME NEW k \in Nat, NEW m \in Nat, NEW r \in 0 .. LineWords - 1
  PROVE  k < m <=> LineWords * k + r < LineWords * m
<1>. LineWords \in Nat \ {0}
  BY CacheFacts
<1>1. LineWords * (m - k) = LineWords * m - LineWords * k
  OBVIOUS
<1>2. m - k >= 1 => LineWords * (m - k) >= LineWords
  OBVIOUS
<1>3. m - k <= 0 => LineWords * (m - k) <= 0
  OBVIOUS
<1>. QED BY <1>1, <1>2, <1>3

LEMMA LineOfWord ==
  ASSUME NEW a \in Nat
  PROVE  a \in Words <=> LineOf(a) \in Lines
<1>1. /\ LineOf(a) \in Nat /\ a % LineWords \in 0 .. LineWords - 1
      /\ a = LineWords * LineOf(a) + (a % LineWords)
  BY PlaceInLine
<1>2. LineOf(a) < NLines <=> LineWords * LineOf(a) + (a % LineWords) < LineWords * NLines
  BY <1>1, LinesBelow, CacheFacts
<1>3. a \in Words <=> a < LineWords * NLines
  BY CacheFacts
<1>. QED BY <1>1, <1>2, <1>3, CacheFacts DEF Lines

TouchedLines(start, len) == {LineOf(t) : t \in Touched(start, len)}

LEMMA TouchedAt ==
  ASSUME NEW start \in Words, NEW len \in Nat \ {0}, NEW k \in Nat, start + LineWords * k \in Words,
         LineWords * k < len + (IF start % LineWords = 0 THEN 0 ELSE LineWords)
  PROVE  LineOf(start) + k \in TouchedLines(start, len)
<1>. DEFINE t == start + LineWords * k
            q == LineOf(start)
            r == start % LineWords
<1>1. /\ LineWords \in Nat \ {0} /\ start \in Nat /\ LineWords * k \in Nat
      /\ q \in Nat /\ r \in 0 .. LineWords - 1 /\ start = LineWords * q + r
  <2>1. LineWords \in Nat \ {0} /\ start \in Nat /\ LineWords * k \in Nat
    BY CacheFacts
  <2>. QED BY <2>1, PlaceInLine
<1>2. (t - start) % LineWords = 0
  <2>1. t - start = LineWords * k + 0 /\ 0 \in 0 .. LineWords - 1
    BY <1>1
  <2>. QED BY <2>1, LineAt
<1>. HIDE DEF q, r
<1>3. LineOf(t) = q + k
  <2>1. t = LineWords * (q + k) + r
    BY <1>1
  <2>2. q + k \in Nat /\ r \in 0 .. LineWords - 1
    BY <1>1
  <2>3. LineOf(LineWords * (q + k) + r) = q + k
    BY <2>2, LineAt
  <2>. HIDE DEF t
  <2>. QED BY <2>1, <2>3
<1>4. t \in Touched(start, len)
  BY <1>1, <1>2 DEF Touched
<1>. QED BY <1>3, <1>4 DEF TouchedLines, q

LEMMA LinesFollow ==
  ASSUME NEW a \in Nat, NEW b \in Nat, a <= b
  PROVE  LineOf(a) <= LineOf(b)
<1>1. /\ LineOf(a) \in Nat /\ a % LineWords \in 0 .. LineWords - 1
      /\ a = LineWords * LineOf(a) + (a % LineWords)
      /\ LineOf(b) \in Nat /\ b % LineWords \in 0 .. LineWords - 1
      /\ b = LineWords * LineOf(b) + (b % LineWords)
  BY PlaceInLine
<1>2. LineOf(b) < LineOf(a) <=> b < LineWords * LineOf(a)
  BY <1>1, LinesBelow
<1>3. LineWords * LineOf(a) <= a
  BY <1>1, CacheFacts
<1>4. ~(b < LineWords * LineOf(a))
  BY <1>1, <1>3, CacheFacts
<1>. QED BY <1>1, <1>2, <1>4

\* A flush touches every line of its region.
LEMMA TouchesRegion ==
  ASSUME NEW start \in Words, NEW len \in Nat \ {0}, NEW a \in Span(start, len)
  PROVE  LineOf(a) \in TouchedLines(start, len)
<1>. DEFINE q == LineOf(start)
            r == start % LineWords
            k == LineOf(a) - q
<1>1. /\ a \in Words /\ a \in Nat /\ start \in Nat /\ a >= start /\ a < start + len
      /\ LineWords \in Nat \ {0}
  BY CacheFacts DEF Span
<1>2. /\ q \in Nat /\ r \in 0 .. LineWords - 1 /\ start = LineWords * q + r
      /\ LineOf(a) \in Nat /\ a % LineWords \in 0 .. LineWords - 1
      /\ a = LineWords * LineOf(a) + (a % LineWords)
  BY <1>1, PlaceInLine
<1>3. k \in Nat
  BY <1>1, <1>2, LinesFollow
<1>4. start + LineWords * k = LineWords * LineOf(a) + r
  <2>1. LineWords * (LineOf(a) - q) = LineWords * LineOf(a) - LineWords * q
    BY <1>1, <1>2
  <2>. HIDE DEF r
  <2>2. LineWords * LineOf(a) \in Nat /\ LineWords * q \in Nat
    BY <1>1, <1>2
  <2>. QED BY <1>2, <2>1, <2>2
<1>5. start + LineWords * k \in Words
  <2>1. LineOf(LineWords * LineOf(a) + r) = LineOf(a) /\ LineWords * LineOf(a) + r \in Nat
    <3>1. LineOf(a) \in Nat /\ r \in 0 .. LineWords - 1
      BY <1>2
    <3>. HIDE DEF r
    <3>2. LineOf(LineWords * LineOf(a) + r) = LineOf(a)
      BY <3>1, LineAt
    <3>3. LineWords * LineOf(a) + r \in Nat
      BY <1>1, <3>1
    <3>. QED BY <3>2, <3>3
  <2>2. LineOf(a) \in Lines
    BY <1>1, LineOfWord
  <2>. QED BY <1>4, <2>1, <2>2, LineOfWord
<1>6. LineWords * k < len + (IF r = 0 THEN 0 ELSE LineWords)
  <2>. DEFINE x == LineWords * LineOf(a)
              y == LineWords * k
              p == a % LineWords
  <2>1. x \in Nat /\ y \in Nat
    BY <1>1, <1>2, <1>3
  <2>. HIDE DEF x, y, r, k, q, p
  <2>2. start + y = x + r /\ a = x + p /\ p >= 0 /\ r < LineWords /\ p \in Nat /\ r \in Nat
    BY <1>1, <1>2, <1>4 DEF x, y, p
  <2>3. r = 0 => y < len
    BY <1>1, <2>1, <2>2
  <2>4. y < len + LineWords
    BY <1>1, <2>1, <2>2
  <2>. QED BY <2>3, <2>4, <1>1, <2>1 DEF y
<1>7. q + k \in TouchedLines(start, len)
  BY <1>3, <1>5, <1>6, TouchedAt
<1>. QED BY <1>2, <1>7

\* ... and of the instruction cache's sets, however long it is.
LEMMA TouchesSets ==
  ASSUME NEW start \in Words, NEW len \in Nat \ {0}, start + len <= NLines * LineWords,
         NEW a \in Span(start, len),
         NEW trimmed, trimmed = IF len > ISets * LineWords THEN ISets * LineWords ELSE len
  PROVE  \E l \in TouchedLines(start, trimmed) : l % ISets = LineOf(a) % ISets
<1>1. CASE ~(len > ISets * LineWords)
  BY <1>1, TouchesRegion
<1>2. CASE len > ISets * LineWords
  <2>. DEFINE q == LineOf(start)
              k == LineOf(a) - q
              d == k \div ISets
              m == k % ISets
  <2>1. /\ a \in Nat /\ start \in Nat /\ a >= start /\ LineWords \in Nat \ {0} /\ ISets \in Nat \ {0}
    BY CacheFacts DEF Span
  <2>2. q \in Nat /\ LineOf(a) \in Nat /\ k \in Nat
    <3>1. q \in Nat /\ LineOf(a) \in Nat
      BY <2>1, PlaceInLine
    <3>2. q <= LineOf(a)
      BY <2>1, LinesFollow
    <3>. QED BY <3>1, <3>2
  <2>8. LineOf(a) = q + k
    BY <2>2
  <2>. HIDE DEF k, q
  <2>3. d \in Int /\ m \in 0 .. ISets - 1 /\ k = ISets * d + m
    <3>1. k \in Int /\ ISets \in Nat \ {0}
      BY <2>1, <2>2
    <3>. QED BY <3>1, Division
  <2>. HIDE DEF d, m
  <2>4. LineWords * m < ISets * LineWords /\ LineWords * m \in Nat /\ ISets * LineWords \in Nat \ {0}
    <3>1. m \in Nat /\ ISets - m >= 1
      BY <2>1, <2>3
    <3>2. LineWords * (ISets - m) >= LineWords
      BY <2>1, <3>1
    <3>3. LineWords * (ISets - m) = ISets * LineWords - LineWords * m
      BY <2>1, <3>1
    <3>4. LineWords * m \in Nat /\ ISets * LineWords \in Nat
      BY <2>1, <3>1
    <3>. QED BY <2>1, <3>2, <3>3, <3>4
  <2>5. start + LineWords * m \in Words
    BY <1>2, <2>1, <2>4, CacheFacts
  <2>6. q + m \in TouchedLines(start, ISets * LineWords)
    <3>1. LineWords * m < ISets * LineWords + (IF start % LineWords = 0 THEN 0 ELSE LineWords)
      BY <2>1, <2>4
    <3>. QED BY <2>3, <2>4, <2>5, <3>1, TouchedAt DEF q
  <2>7. (q + m) % ISets = LineOf(a) % ISets
    <3>. DEFINE e == (q + m) \div ISets
                n == (q + m) % ISets
    <3>1. e \in Int /\ n \in 0 .. ISets - 1 /\ q + m = ISets * e + n
      <4>1. q + m \in Int
        BY <2>2, <2>3
      <4>. QED BY <2>1, <4>1, Division
    <3>. HIDE DEF e, n
    <3>2. LineOf(a) = ISets * (d + e) + n
      <4>2. ISets * (d + e) = ISets * d + ISets * e /\ ISets * d \in Int /\ ISets * e \in Int
        BY <2>1, <2>3, <3>1
      <4>. QED BY <2>2, <2>3, <2>8, <3>1, <4>2
    <3>3. LineOf(a) % ISets = n
      <4>1. d + e \in Int
        BY <2>3, <3>1
      <4>2. (ISets * (d + e) + n) % ISets = n
        BY <2>1, <3>1, <4>1, DivisionUnique
      <4>. QED BY <3>2, <4>2
    <3>. QED BY <3>3 DEF n
  <2>. QED BY <1>2, <2>6, <2>7
<1>. QED BY <1>1, <1>2

\* Of a line that a region does not share, all words are the region's.
LEMMA LinesApart ==
  ASSUME NEW start, NEW len, NEW T \in SUBSET Words
  PROVE  /\ \A a \in T, b \in Words :
              LineOf(a) \notin Partly(T, start, len) /\ LineOf(b) = LineOf(a) => b \in Span(start, len)
         /\ Partly(T, start, len) \subseteq Lines
<1>1. \A a \in T : LineOf(a) \in Lines
  BY CacheFacts, LineOfWord
<1>. QED BY <1>1, InWordsOf DEF Partly

-----------------------------------------------------------------------------
(* The steps *)

LEMMA CacheStarts == CacheInit => CacheInv
<1>. SUFFICES ASSUME CacheInit PROVE CacheInv
  OBVIOUS
<1>. USE CacheFacts DEF CacheInit
<1>1. CacheTypeOK
  BY DEF CacheTypeOK, Stages
<1>2. PastApart /\ Current /\ CodeInMemory /\ CodeFetched /\ Patching
  BY DEF PastApart, Past, Given, Current, Vouched, CodeInMemory, CodeFetched, Patching
<1>. QED BY <1>1, <1>2 DEF CacheInv

LEMMA CacheFetch ==
  ASSUME CacheInv, NEW l \in Lines, Fetch(l)
  PROVE  CacheInv'
<1>. DEFINE C == Conflicts(l, ilines, ISets)
<1>1. /\ ilines' = (ilines \ C) \cup {l}
      /\ ifresh' = (ifresh \ WordsOf(C)) \cup (mfresh \cap WordsOf({l}))
      /\ UNCHANGED <<mfresh, dlines, ddirty, dfresh, stage, region, uncached, shared>>
  BY DEF Fetch
<1>2. C \subseteq ilines /\ l \notin C
  BY DEF Conflicts
<1>. HIDE DEF C
<1>3. CacheTypeOK'
  BY <1>1, <1>2, InWordsOf DEF CacheInv, CacheTypeOK
<1>4. PastApart' /\ Current' /\ CodeInMemory' /\ Patching'
  BY <1>1 DEF CacheInv, PastApart, Past, Given, Current, Vouched, CodeInMemory, Patching
<1>5. CodeFetched'
  <2>1. SUFFICES ASSUME stage \notin {"load", "loadFlushed"}, NEW a \in Code,
                        ~(stage \in {"patch", "patchFlushed"} /\ a \in region), LineOf(a) \in ilines'
                 PROVE  a \in ifresh'
    BY <1>1 DEF CodeFetched
  <2>2. a \in Words /\ a \in mfresh /\ (LineOf(a) \in ilines => a \in ifresh)
    BY <2>1, CacheFacts DEF CacheInv, CodeInMemory, CodeFetched
  <2>. QED BY <1>1, <1>2, <2>1, <2>2, InWordsOf
<1>. QED BY <1>3, <1>4, <1>5 DEF CacheInv

\* The words of the code are none of those used past the cache.
LEMMA CodeNotPast ==
  ASSUME CacheInv, NEW a \in Code
  PROVE  a \in Words \ Past /\ a \in Vouched \ Given /\ LineOf(a) \in Lines
<1>1. a \in Words /\ a \in Nat
  BY CacheFacts
<1>2. LineOf(a) \in Lines
  BY <1>1, LineOfWord
<1>. QED BY <1>1, <1>2 DEF CacheInv, PastApart, Past, Vouched

LEMMA CacheLoads ==
  ASSUME CacheInv, LoadWord \/ LoadFlushData \/ LoadFlushCode
  PROVE  CacheInv'
<1>1. CASE LoadWord
  <2>1. PICK a \in region : Store(a) /\ region' = region \ {a}
    BY <1>1 DEF LoadWord
  <2>2. stage = "load" /\ stage' = stage /\ uncached' = uncached /\ shared' = shared
        /\ Given' = Given
    BY <1>1 DEF LoadWord, Given
  <2>3. a \in Words \ Past /\ LineOf(a) \in Lines
    BY <2>2, CodeNotPast DEF CacheInv, Patching
  <2>4. CacheTypeOK' /\ PastApart' /\ Current'
    BY <2>1, <2>2, <2>3, WordUsed DEF CacheInv
  <2>. QED BY <2>1, <2>2, <2>4 DEF CacheInv, CodeInMemory, CodeFetched, Patching
<1>2. CASE LoadFlushData
  <2>1. /\ stage = "load" /\ stage' = "loadFlushed" /\ Leave(dlines)
        /\ UNCHANGED <<ilines, ifresh, region, uncached, shared>>
    BY <1>2 DEF LoadFlushData, Go
  <2>2. Given = {} /\ Given' = {} /\ Past' = Past
    BY <2>1 DEF Given, Past
  <2>3. /\ mfresh' \subseteq Words /\ dfresh' \subseteq Words
        /\ dlines' = {} /\ ddirty' \subseteq dlines' /\ Current'
        /\ \A a \in Vouched : a \in mfresh \/ LineOf(a) \in dlines => a \in mfresh'
    BY <2>1, <2>2, LinesLeave DEF CacheInv
  <2>4. \A a \in Code : a \in mfresh'
    BY <2>2, <2>3, CodeNotPast DEF CacheInv, Current
  <2>5. CacheTypeOK'
    BY <2>1, <2>3 DEF CacheInv, CacheTypeOK, Stages
  <2>6. PastApart'
    BY <2>1, <2>2, <2>3 DEF CacheInv, PastApart
  <2>7. CodeInMemory' /\ CodeFetched' /\ Patching'
    BY <2>1, <2>4, CacheFacts DEF CodeInMemory, CodeFetched, Patching
  <2>. QED BY <2>3, <2>5, <2>6, <2>7 DEF CacheInv
<1>3. CASE LoadFlushCode
  <2>1. /\ stage = "loadFlushed" /\ stage' = "run" /\ ilines' = {} /\ ifresh' = {}
        /\ UNCHANGED <<mfresh, dlines, ddirty, dfresh, region, uncached, shared>>
    BY <1>3 DEF LoadFlushCode, Go
  <2>2. Given' = Given /\ Past' = Past
    BY <2>1 DEF Given, Past
  <2>3. CacheTypeOK'
    BY <2>1 DEF CacheInv, CacheTypeOK, Stages
  <2>4. PastApart' /\ Current'
    BY <2>1, <2>2 DEF CacheInv, PastApart, Current, Vouched
  <2>5. CodeInMemory' /\ CodeFetched' /\ Patching'
    BY <2>1 DEF CacheInv, CodeInMemory, CodeFetched, Patching
  <2>. QED BY <2>3, <2>4, <2>5 DEF CacheInv
<1>. QED BY <1>1, <1>2, <1>3

\* What is flushed after a change is what was changed.
LEMMA FirstAndSize ==
  ASSUME NEW r \in Regions, region = Span(r[1], r[2])
  PROVE  First = r[1] /\ Size = r[2] /\ r[1] \in Words /\ r[2] \in Nat \ {0}
         /\ r[1] + r[2] <= NLines * LineWords
<1>1. /\ r[1] \in Words /\ r[1] \in Nat /\ r[2] \in Nat \ {0} /\ r[1] + r[2] <= NLines * LineWords
  BY CacheFacts DEF Regions
<1>. DEFINE last == r[1] + r[2] - 1
<1>2. /\ \A a \in region : a \in Nat /\ r[1] <= a /\ a <= last
      /\ r[1] \in region /\ last \in region
  BY <1>1, CacheFacts DEF Span
<1>3. First \in region /\ \A b \in region : First <= b
  BY <1>2 DEF First
<1>4. First = r[1]
  BY <1>1, <1>2, <1>3
<1>. DEFINE end == CHOOSE b \in region : \A a \in region : a <= b
<1>5. end \in region /\ \A a \in region : a <= end
  BY <1>2
<1>. HIDE DEF end
<1>6. end = last
  BY <1>1, <1>2, <1>5
<1>7. Size = end - First + 1
  BY DEF Size, end
<1>. QED BY <1>1, <1>4, <1>6, <1>7

LEMMA CachePatches ==
  ASSUME CacheInv,
         PatchWord \/ PatchFlushData \/ PatchFlushCode \/ (\E r \in Regions : Patch(r[1], r[2]))
  PROVE  CacheInv'
<1>1. CASE PatchWord
  <2>1. PICK a \in region : Store(a)
    BY <1>1 DEF PatchWord
  <2>2. stage = "patch" /\ UNCHANGED <<stage, uncached, region, shared>> /\ Given' = Given /\ Given = {}
    BY <1>1 DEF PatchWord, Given
  <2>3. a \in Words \ Past /\ LineOf(a) \in Lines
    BY <2>2, CodeNotPast DEF CacheInv, Patching
  <2>4. /\ CacheTypeOK' /\ PastApart' /\ Current' /\ ilines' = ilines
        /\ \A b \in Vouched \ Given : b # a =>
             (b \in mfresh => b \in mfresh') /\ (b \in ifresh <=> b \in ifresh')
    BY <2>1, <2>2, <2>3, WordUsed DEF CacheInv
  <2>5. CodeInMemory' /\ CodeFetched'
    BY <2>2, <2>4, CodeNotPast DEF CacheInv, CodeInMemory, CodeFetched
  <2>. QED BY <2>2, <2>4, <2>5 DEF CacheInv, Patching
<1>2. CASE PatchFlushData
  <2>1. /\ stage = "patch" /\ stage' = "patchFlushed" /\ DcacheFlush(First, Size)
        /\ UNCHANGED <<ilines, ifresh, region, uncached, shared>>
    BY <1>2 DEF PatchFlushData, Go
  <2>2. Given = {} /\ Given' = {} /\ Past' = Past
    BY <2>1 DEF Given, Past
  <2>3. PICK r \in Regions : region = Span(r[1], r[2])
    BY <2>1 DEF CacheInv, Patching
  <2>. DEFINE S == TouchedLines(First, Size) \cap dlines
  <2>4. \A a \in region : LineOf(a) \in TouchedLines(First, Size)
    BY <2>3, FirstAndSize, TouchesRegion
  <2>5. Leave(S)
    BY <2>1 DEF DcacheFlush, TouchedLines
  <2>6. /\ mfresh' \subseteq Words /\ dfresh' \subseteq Words
        /\ dlines' = dlines \ S /\ ddirty' \subseteq dlines' /\ Current'
        /\ \A a \in Vouched : a \in mfresh \/ LineOf(a) \in S => a \in mfresh'
    BY <2>1, <2>2, <2>5, LinesLeave DEF CacheInv
  <2>7. CacheTypeOK'
    BY <2>1, <2>6 DEF CacheInv, CacheTypeOK, Stages
  <2>8. PastApart'
    BY <2>1, <2>2, <2>6 DEF CacheInv, PastApart
  <2>9. CodeInMemory'
    <3>1. \A a \in Code : a \in Vouched
      BY CodeNotPast
    <3>2. \A a \in region : LineOf(a) \in S \/ LineOf(a) \notin dlines
      BY <2>4
    <3>3. \A a \in Vouched : LineOf(a) \in dlines \/ a \in mfresh
      BY <2>2 DEF CacheInv, Current
    <3>. HIDE DEF S
    <3>. QED BY <2>1, <2>6, <3>1, <3>2, <3>3 DEF CacheInv, CodeInMemory
  <2>10. CodeFetched' /\ Patching'
    BY <2>1 DEF CacheInv, CodeFetched, Patching
  <2>. QED BY <2>6, <2>7, <2>8, <2>9, <2>10 DEF CacheInv
<1>3. CASE PatchFlushCode
  <2>1. /\ stage = "patchFlushed" /\ stage' = "run" /\ IcacheFlush(First, Size) /\ region' = {}
        /\ UNCHANGED <<mfresh, dlines, ddirty, dfresh, uncached, shared>>
    BY <1>3 DEF PatchFlushCode, Go
  <2>2. Given' = Given /\ Past' = Past
    BY <2>1 DEF Given, Past
  <2>3. PICK r \in Regions : region = Span(r[1], r[2])
    BY <2>1 DEF CacheInv, Patching
  <2>. DEFINE trimmed == IF Size > ISets * LineWords THEN ISets * LineWords ELSE Size
              sets == {LineOf(a) % ISets : a \in Touched(First, trimmed)}
              gone == {l \in ilines : l % ISets \in sets}
  <2>4. ilines' = ilines \ gone /\ ifresh' = ifresh \ WordsOf(gone)
    BY <2>1 DEF IcacheFlush
  <2>5. \A a \in region : LineOf(a) % ISets \in sets
    <3>1. ASSUME NEW a \in region PROVE LineOf(a) % ISets \in sets
      <4>1. PICK l \in TouchedLines(First, trimmed) : l % ISets = LineOf(a) % ISets
        BY <2>3, FirstAndSize, TouchesSets
      <4>. QED BY <4>1 DEF TouchedLines
    <3>. QED BY <3>1
  <2>. HIDE DEF sets
  <2>6. CacheTypeOK'
    BY <2>1, <2>4 DEF CacheInv, CacheTypeOK, Stages
  <2>7. PastApart' /\ Current'
    BY <2>1, <2>2 DEF CacheInv, PastApart, Current, Vouched
  <2>8. CodeInMemory' /\ Patching'
    BY <2>1 DEF CacheInv, CodeInMemory, Patching
  <2>9. CodeFetched'
    <3>1. SUFFICES ASSUME NEW a \in Code, LineOf(a) \in ilines' PROVE a \in ifresh'
      BY DEF CodeFetched
    <3>2. LineOf(a) \in ilines /\ LineOf(a) \notin gone /\ a \notin WordsOf(gone)
      BY <2>4, <3>1, InWordsOf
    <3>3. a \notin region
      BY <2>5, <3>2
    <3>4. a \in ifresh
      BY <2>1, <3>2, <3>3 DEF CacheInv, CodeFetched
    <3>. QED BY <2>4, <3>2, <3>4
  <2>. QED BY <2>6, <2>7, <2>8, <2>9 DEF CacheInv
<1>4. ASSUME NEW r \in Regions, Patch(r[1], r[2]) PROVE CacheInv'
  <2>1. /\ stage = "run" /\ stage' = "patch" /\ region' = Span(r[1], r[2]) /\ region' \subseteq Code
        /\ UNCHANGED <<mfresh, dlines, ddirty, dfresh, ilines, ifresh, uncached, shared>>
    BY <1>4 DEF Patch
  <2>2. Given' = Given /\ Past' = Past
    BY <2>1 DEF Given, Past
  <2>3. CacheTypeOK'
    BY <2>1, CacheFacts DEF CacheInv, CacheTypeOK, Stages
  <2>4. PastApart' /\ Current'
    BY <2>1, <2>2 DEF CacheInv, PastApart, Current, Vouched
  <2>5. CodeInMemory' /\ CodeFetched' /\ Patching'
    BY <2>1, <1>4 DEF CacheInv, CodeInMemory, CodeFetched, Patching, Regions
  <2>. QED BY <2>3, <2>4, <2>5 DEF CacheInv
<1>. QED BY <1>1, <1>2, <1>3, <1>4

LEMMA CacheRemaps ==
  ASSUME CacheInv, (\E r \in Regions : RemapUncached(r[1], r[2])) \/ RemapCached
  PROVE  CacheInv'
<1>1. ASSUME NEW r \in Regions, RemapUncached(r[1], r[2]) PROVE CacheInv'
  <2>. DEFINE start == r[1]
              len == r[2]
              S == TouchedLines(start, len) \cap dlines
  <2>1. start \in Words /\ len \in Nat \ {0}
    BY DEF Regions
  <2>. HIDE DEF start, len
  <2>. DEFINE P == Partly(Span(start, len), start, len)
  <2>2. /\ stage = "run" /\ uncached = {} /\ Span(start, len) \cap Code = {} /\ Leave(S)
        /\ uncached' = Span(start, len) /\ shared' = shared \cup P
        /\ UNCHANGED <<ilines, ifresh, stage, region>>
    BY <1>1 DEF RemapUncached, Data, DcacheFlush, TouchedLines, start, len
  <2>3. Given = {} /\ Given' = {} /\ Past' = Span(start, len)
    BY <2>2 DEF Given, Past
  <2>4. /\ mfresh' \subseteq Words /\ dfresh' \subseteq Words
        /\ dlines' = dlines \ S /\ ddirty' \subseteq dlines' /\ Current'
        /\ \A a \in Vouched : a \in mfresh \/ LineOf(a) \in S => a \in mfresh'
    BY <2>2, <2>3, LinesLeave DEF CacheInv
  <2>5. /\ \A a \in Span(start, len), b \in Words :
             LineOf(a) \notin P /\ LineOf(b) = LineOf(a) => b \in Span(start, len)
        /\ P \subseteq Lines /\ Span(start, len) \subseteq Words
    BY LinesApart DEF Span
  <2>. HIDE DEF P
  <2>6. CacheTypeOK'
    BY <2>2, <2>4, <2>5 DEF CacheInv, CacheTypeOK
  <2>7. PastApart'
    <3>1. \A a \in Span(start, len) : LineOf(a) \notin dlines'
      BY <2>1, <2>4, TouchesRegion
    <3>. QED BY <2>2, <2>3, <2>5, <3>1 DEF PastApart
  <2>8. CodeInMemory' /\ CodeFetched' /\ Patching'
    BY <2>2, <2>3, <2>4, CodeNotPast DEF CacheInv, CodeInMemory, CodeFetched, Patching
  <2>. QED BY <2>4, <2>6, <2>7, <2>8 DEF CacheInv
<1>2. CASE RemapCached
  <2>1. /\ stage = "run" /\ uncached' = {}
        /\ UNCHANGED <<mfresh, dlines, ddirty, dfresh, ilines, ifresh, stage, region, shared>>
    BY <1>2 DEF RemapCached
  <2>2. Given' = {} /\ Given = {} /\ Past' = {}
    BY <2>1 DEF Given, Past
  <2>3. CacheTypeOK' /\ PastApart' /\ Current'
    BY <2>1, <2>2 DEF CacheInv, CacheTypeOK, PastApart, Current, Vouched
  <2>4. CodeInMemory' /\ CodeFetched' /\ Patching'
    BY <2>1 DEF CacheInv, CodeInMemory, CodeFetched, Patching
  <2>. QED BY <2>3, <2>4 DEF CacheInv
<1>. QED BY <1>1, <1>2

LEMMA CacheDevice ==
  ASSUME CacheInv, (\E r \in Regions : GiveToDevice(r[1], r[2])) \/ DeviceFills
  PROVE  CacheInv'
<1>1. ASSUME NEW r \in Regions, GiveToDevice(r[1], r[2]) PROVE CacheInv'
  <2>. DEFINE start == r[1]
              len == r[2]
              gone == TouchedLines(start, len) \cap dlines
  <2>1. start \in Words /\ len \in Nat \ {0}
    BY DEF Regions
  <2>. HIDE DEF start, len
  <2>. DEFINE P == Partly(Touched(start, len), start, len)
  <2>2. /\ stage = "run" /\ stage' = "device" /\ uncached = {} /\ uncached' = {}
        /\ Span(start, len) \cap Code = {} /\ region' = Span(start, len)
        /\ dlines' = dlines \ gone /\ ddirty' = ddirty \ gone /\ dfresh' = dfresh \ WordsOf(gone)
        /\ shared' = shared \cup P
        /\ UNCHANGED <<mfresh, ilines, ifresh>>
    BY <1>1 DEF GiveToDevice, Data, Go, Discard, TouchedLines, start, len
  <2>3. Given = {} /\ Given' = Span(start, len) /\ Past' = Span(start, len)
    BY <2>2 DEF Given, Past
  <2>4. /\ \A a \in Touched(start, len), b \in Words :
             LineOf(a) \notin P /\ LineOf(b) = LineOf(a) => b \in Span(start, len)
        /\ P \subseteq Lines /\ Span(start, len) \subseteq Words
    BY LinesApart DEF Span, Touched
  <2>. HIDE DEF P
  <2>5. \A a \in Words : LineOf(a) \in TouchedLines(start, len) =>
          LineOf(a) \in P \/ a \in Span(start, len)
    BY <2>4 DEF TouchedLines
  <2>6. \A a \in Span(start, len) :
          LineOf(a) \in TouchedLines(start, len) /\ LineOf(a) \notin dlines'
    BY <2>1, <2>2, TouchesRegion
  <2>7. CacheTypeOK'
    BY <2>2, <2>4 DEF CacheInv, CacheTypeOK, Stages
  <2>8. PastApart'
    <3>1. \A a \in Span(start, len), b \in Words :
            LineOf(a) \notin P /\ LineOf(b) = LineOf(a) => b \in Span(start, len)
      BY <2>5, <2>6
    <3>. HIDE DEF gone
    <3>. QED BY <2>2, <2>3, <2>6, <3>1 DEF PastApart
  <2>9. Current'
    <3>1. ASSUME NEW a \in Vouched'
          PROVE  /\ a \in Given' \/ (IF LineOf(a) \in dlines' THEN a \in dfresh' ELSE a \in mfresh')
                 /\ LineOf(a) \in dlines' \ ddirty' => a \in mfresh'
      <4>1. a \in Words /\ a \in Vouched /\ (a \in Code \/ LineOf(a) \notin P)
        BY <2>2 DEF Vouched
      <4>2. /\ IF LineOf(a) \in dlines THEN a \in dfresh ELSE a \in mfresh
            /\ LineOf(a) \in dlines \ ddirty => a \in mfresh
        BY <2>3, <4>1 DEF CacheInv, Current
      <4>3. a \in Code => a \in mfresh
        BY <2>2 DEF CacheInv, CodeInMemory
      <4>4. LineOf(a) \in gone => a \in Code \/ a \in Span(start, len)
        BY <2>5, <4>1
      <4>. HIDE DEF gone
      <4>. QED BY <2>2, <2>3, <2>6, <4>1, <4>2, <4>3, <4>4, InWordsOf
    <3>. QED BY <3>1 DEF Current
  <2>10. CodeInMemory' /\ CodeFetched' /\ Patching'
    BY <2>2 DEF CacheInv, CodeInMemory, CodeFetched, Patching
  <2>. QED BY <2>7, <2>8, <2>9, <2>10 DEF CacheInv
<1>2. CASE DeviceFills
  <2>1. /\ stage = "device" /\ stage' = "run" /\ region' = {}
        /\ mfresh' = mfresh \cup region /\ dfresh' = dfresh \ region
        /\ UNCHANGED <<dlines, ddirty, ilines, ifresh, uncached, shared>>
    BY <1>2 DEF DeviceFills, Go
  <2>2. Given = region /\ Given' = {} /\ Past' = {} /\ region \subseteq Past
    BY <2>1 DEF Given, Past, CacheInv, PastApart
  <2>3. \A a \in region : a \in Vouched => LineOf(a) \notin dlines
    BY <2>2 DEF CacheInv, PastApart, Vouched
  <2>4. CacheTypeOK' /\ PastApart'
    BY <2>1, <2>2 DEF CacheInv, CacheTypeOK, PastApart, Stages
  <2>5. Current'
    <3>1. Vouched' = Vouched
      BY <2>1 DEF Vouched
    <3>. QED BY <2>1, <2>2, <2>3, <3>1 DEF CacheInv, Current
  <2>6. CodeInMemory' /\ CodeFetched' /\ Patching'
    BY <2>1 DEF CacheInv, CodeInMemory, CodeFetched, Patching
  <2>. QED BY <2>4, <2>5, <2>6 DEF CacheInv
<1>. QED BY <1>1, <1>2

LEMMA CacheAccess == CacheInv /\ Access => CacheInv'
<1>. SUFFICES ASSUME CacheInv, Access PROVE CacheInv'
  OBVIOUS
<1>1. /\ stage \in {"run", "device"} /\ UNCHANGED <<stage, region, uncached, shared>>
      /\ Given' = Given /\ Past' = Past
  BY DEF Access, Given, Past
<1>2. ASSUME NEW a \in Words \ Past, LineOf(a) \in Lines,
             Load(a) \/ (Store(a) /\ a \notin Code)
      PROVE  CacheInv'
  <2>1. /\ CacheTypeOK' /\ PastApart' /\ Current' /\ ilines' = ilines
        /\ \A b \in Vouched \ Given : b # a =>
             (b \in mfresh => b \in mfresh') /\ (b \in ifresh <=> b \in ifresh')
        /\ Load(a) /\ a \in mfresh => a \in mfresh'
        /\ Load(a) => ifresh' = ifresh
    BY <1>1, <1>2, WordUsed DEF CacheInv
  <2>2. \A c \in Code : c \in Vouched \ Given
    BY CodeNotPast
  <2>3. CodeInMemory' /\ CodeFetched'
    BY <1>1, <1>2, <2>1, <2>2 DEF CacheInv, CodeInMemory, CodeFetched
  <2>. QED BY <1>1, <2>1, <2>3 DEF CacheInv, Patching
<1>3. ASSUME NEW a \in Words \ (Code \cup uncached \cup region), Load(a) \/ Store(a)
      PROVE  CacheInv'
  <2>1. a \in Words \ Past
    BY DEF Past, Given
  <2>2. LineOf(a) \in Lines
    BY CacheFacts, LineOfWord
  <2>. QED BY <1>2, <1>3, <2>1, <2>2
<1>4. ASSUME NEW a \in Code, Load(a) PROVE CacheInv'
  BY <1>2, <1>4, CodeNotPast
<1>5. ASSUME NEW a \in uncached, StoreIO(a) PROVE CacheInv'
  <2>1. /\ mfresh' = mfresh \cup {a} /\ dfresh' = dfresh \ {a} /\ ifresh' = ifresh \ {a}
        /\ UNCHANGED <<dlines, ddirty, ilines>>
    BY <1>5 DEF StoreIO
  <2>2. a \in Words /\ a \notin Code /\ (a \in Vouched => LineOf(a) \notin dlines)
    BY DEF CacheInv, CacheTypeOK, PastApart, Past, Vouched
  <2>3. CacheTypeOK'
    BY <1>1, <2>1, <2>2 DEF CacheInv, CacheTypeOK
  <2>4. PastApart' /\ Current'
    <3>1. Vouched' = Vouched
      BY <1>1 DEF Vouched
    <3>. QED BY <1>1, <2>1, <2>2, <3>1 DEF CacheInv, PastApart, Current
  <2>5. CodeInMemory' /\ CodeFetched' /\ Patching'
    BY <1>1, <2>1, <2>2 DEF CacheInv, CodeInMemory, CodeFetched, Patching
  <2>. QED BY <2>3, <2>4, <2>5 DEF CacheInv
<1>. QED BY <1>3, <1>4, <1>5 DEF Access

LEMMA CacheSteps == CacheInv /\ [CacheNext]_cacheVars => CacheInv'
<1>. SUFFICES ASSUME CacheInv, [CacheNext]_cacheVars PROVE CacheInv'
  OBVIOUS
<1>1. CASE \E l \in Lines : Fetch(l)
  BY <1>1, CacheFetch
<1>2. CASE LoadWord \/ LoadFlushData \/ LoadFlushCode
  BY <1>2, CacheLoads
<1>3. CASE PatchWord \/ PatchFlushData \/ PatchFlushCode
  BY <1>3, CachePatches
<1>4. CASE \E r \in Regions : Patch(r[1], r[2]) \/ RemapUncached(r[1], r[2]) \/ GiveToDevice(r[1], r[2])
  BY <1>4, CachePatches, CacheRemaps, CacheDevice
<1>5. CASE RemapCached
  BY <1>5, CacheRemaps
<1>6. CASE DeviceFills
  BY <1>6, CacheDevice
<1>7. CASE Access
  BY <1>7, CacheAccess
<1>8. CASE UNCHANGED cacheVars
  BY <1>8 DEF cacheVars, CacheInv, CacheTypeOK, PastApart, Past, Given, Current,
     Vouched, CodeInMemory, CodeFetched, Patching
<1>. QED BY <1>1, <1>2, <1>3, <1>4, <1>5, <1>6, <1>7, <1>8 DEF CacheNext

LEMMA CacheInductive == CacheSpec => []CacheInv
BY CacheStarts, CacheSteps, PTL DEF CacheSpec

\* What is executed is what was loaded (alt_load.c:82) or stored and flushed,
\* wherever the region begins and ends in its lines (alt_icache_flush.c:65), for
\* caches of any size and lines of any length.
THEOREM CodeStaysFresh == CacheSpec => []CodeFresh
<1>1. CacheInv => CodeFresh
  BY DEF CacheInv, CodeInMemory, CodeFetched, CodeFresh, Executed
<1>. QED BY <1>1, CacheInductive, PTL

\* Data is read as last written, through the data cache or past it, and as a
\* device wrote it (alt_remap_uncached.c:49, alt_dcache_flush_no_writeback.c:82),
\* for regions at any place: only words of a line that such a region shared with
\* others, which malloc allows, may be old.
THEOREM DataStaysFresh == CacheSpec => []DataFresh
<1>1. CacheInv => DataFresh
  BY DEF CacheInv, Current, Vouched, PastApart, Past, Given, DataFresh, Read
<1>. QED BY <1>1, CacheInductive, PTL

-----------------------------------------------------------------------------
(***************************************************************************)
(* The call graph of a profiled program                                    *)
(***************************************************************************)
OpenPcs    == {"findFunction", "findArc", "load", "store", "record", "claim", "start", "disable"}
ClosedPcs  == {"newFunction", "linkFunction", "newArc", "linkArc", "enable"}
McountFrames ==
  [self : Functions, from : Callers, pc : OpenPcs \cup ClosedPcs, entry : Nat, arc : Nat,
   count : Nat, next : Seq(Nat), context : BOOLEAN, handler : BOOLEAN]
FnEntries == [self : Functions, arcs : Seq(Nat)]
ArcRecords == [from : Callers, count : Nat \ {0}]

\* What the lists hold has been allocated.
ProfileTypeOK ==
  /\ fnHead \in Seq(Nat) /\ ToSet(fnHead) \subseteq 1 .. Len(fns)
  /\ fns \in Seq(FnEntries)
  /\ \A f \in 1 .. Len(fns) : ToSet(fns[f].arcs) \subseteq 1 .. Len(arcs)
  /\ arcs \in Seq(ArcRecords)
  /\ need_init \in BOOLEAN /\ samplers \in Nat /\ ticking \in BOOLEAN
  /\ interruptible \in BOOLEAN
  /\ levels \in Seq(McountFrames)
  /\ begun \in [Pairs -> Nat] /\ ended \in [Pairs -> Nat]

\* No arc is in the lists of two functions.
ArcsApart ==
  \A f, g \in 1 .. Len(fns), i \in Nat :
    i \in ToSet(fns[f].arcs) /\ i \in ToSet(fns[g].arcs) => f = g

\* Only the innermost mcount updates the lists, and then nothing interrupts it.
McountStacked ==
  \A k \in 1 .. Len(levels) : levels[k].pc \in ClosedPcs => k = Len(levels) /\ ~interruptible

PairOf(r) == <<r.self, r.from>>
Entered(r) == r.entry \in ToSet(fnHead) /\ fns[r.entry].self = r.self

\* What an mcount in progress has found, and what it has built, is still so.
McountRight(r) ==
  /\ r.pc \in {"findArc", "newArc", "linkArc"} => Entered(r)
  /\ r.pc \in {"record", "claim", "start", "disable"} => r.entry = 0 \/ Entered(r)
  /\ r.pc \in {"load", "store", "enable"} => r.arc \in ArcsOf(PairOf(r))
  /\ r.pc = "store" => /\ r.count <= arcs[r.arc].count
                       /\ ~nested => r.count = arcs[r.arc].count
  /\ r.pc = "linkFunction" =>
       r.entry \in 1 .. Len(fns) /\ fns[r.entry] = [self |-> r.self, arcs |-> << >>] /\ r.next = fnHead
  /\ r.pc = "linkArc" =>
       /\ r.arc \in 1 .. Len(arcs) /\ arcs[r.arc] = [from |-> r.from, count |-> 1]
       /\ \A f \in 1 .. Len(fns) : r.arc \notin ToSet(fns[f].arcs)
       /\ r.next = fns[r.entry].arcs
McountsRight == \A k \in 1 .. Len(levels) : McountRight(levels[k])

\* Of two mcounts that are about to store the count of the same arc, the inner
\* one loaded it later.
LoadedInOrder ==
  \A j, k \in 1 .. Len(levels) :
    /\ j < k /\ levels[j].pc = "store" /\ levels[k].pc = "store"
    /\ levels[j].arc = levels[k].arc
    => levels[j].count <= levels[k].count

\* The calls in progress that are not in the graph yet.
Uncounted(pair) == {k \in 1 .. Len(levels) : PairOf(levels[k]) = pair /\ levels[k].pc # "enable"}

CallsKept ==
  \A pair \in Pairs :
    /\ Counted(pair) + Cardinality(Uncounted(pair)) <= begun[pair]
    /\ ended[pair] > 0 => ArcsOf(pair) # {}

\* Without nesting.
CallsExact ==
  ~nested =>
    /\ Len(levels) <= 1
    /\ \A pair \in Pairs :
         Counted(pair) = ended[pair] + (IF At("enable") /\ PairOf(topFrame) = pair THEN 1 ELSE 0)
SamplerOnce ==
  ~nested =>
    /\ samplers <= 1 /\ (need_init => samplers = 0)
    /\ At("claim") => need_init
    /\ At("start") => ~need_init /\ samplers = 0

ProfileInv ==
  /\ ProfileTypeOK /\ ArcsApart /\ McountStacked /\ McountsRight /\ LoadedInOrder
  /\ CallsKept /\ CallsExact /\ SamplerOnce

\* A sum of counts is the number of units counted.
Units(c, A) == UNION {{x} \X (1 .. c[x].count) : x \in A}
SumStep(c, s, g) ==
  IF s = {} THEN 0 ELSE c[CHOOSE x \in s : TRUE].count + g[s \ {CHOOSE x \in s : TRUE}]
Summing(c, A) == CHOOSE g : g = [s \in SUBSET A |-> SumStep(c, s, g)]

\* The units of one count.
LEMMA UnitsColumn ==
  ASSUME NEW x, NEW n \in Nat
  PROVE  IsFiniteSet({x} \X (1 .. n)) /\ Cardinality({x} \X (1 .. n)) = n
<1>. DEFINE f == [k \in 1 .. n |-> <<x, k>>]
<1>1. f \in Bijection(1 .. n, {x} \X (1 .. n))
  <2>1. f \in [1 .. n -> {x} \X (1 .. n)]
    OBVIOUS
  <2>2. \A a, b \in 1 .. n : f[a] = f[b] => a = b
    OBVIOUS
  <2>3. ASSUME NEW u \in {x} \X (1 .. n) PROVE \E k \in 1 .. n : f[k] = u
    <3>1. u[2] \in 1 .. n /\ u = <<x, u[2]>>
      OBVIOUS
    <3>. QED BY <3>1
  <2>. HIDE DEF f
  <2>4. f \in Injection(1 .. n, {x} \X (1 .. n))
    BY <2>1, <2>2 DEF Injection, IsInjective
  <2>5. f \in Surjection(1 .. n, {x} \X (1 .. n))
    BY <2>1, <2>3 DEF Surjection
  <2>. QED BY <2>4, <2>5, Zenon DEF Bijection
<1>2. ExistsBijection(1 .. n, {x} \X (1 .. n))
  BY <1>1, Zenon DEF ExistsBijection
<1>3. IsFiniteSet(1 .. n) /\ Cardinality(1 .. n) = n
  BY FS_Interval
<1>. QED BY <1>2, <1>3, FS_Bijection, Zenon

LEMMA UnitsGrow ==
  ASSUME NEW A, NEW c, NEW x \in A, c[x].count \in Nat, IsFiniteSet(Units(c, A \ {x}))
  PROVE  /\ IsFiniteSet(Units(c, A))
         /\ Cardinality(Units(c, A)) = c[x].count + Cardinality(Units(c, A \ {x}))
<1>. DEFINE rest == Units(c, A \ {x})
            col == {x} \X (1 .. c[x].count)
<1>1. Units(c, A) = rest \cup col
  BY DEF Units
<1>2. rest \cap col = {}
  <2>1. ASSUME NEW u \in rest, u \in col PROVE FALSE
    <3>1. PICK y \in A \ {x} : u \in {y} \X (1 .. c[y].count)
      BY <2>1 DEF Units
    <3>2. u[1] = y
      BY <3>1
    <3>3. u[1] = x
      BY <2>1
    <3>. QED BY <3>2, <3>3
  <2>. QED BY <2>1
<1>3. IsFiniteSet(col) /\ Cardinality(col) = c[x].count
  BY UnitsColumn
<1>4. Cardinality({}) = 0 /\ Cardinality(rest) \in Nat
  BY FS_EmptySet, FS_CardinalityType
<1>. HIDE DEF rest, col
<1>5. /\ IsFiniteSet(rest \cup col)
      /\ Cardinality(rest \cup col) = Cardinality(rest) + Cardinality(col) - Cardinality(rest \cap col)
  BY <1>3, FS_Union DEF rest
<1>6. Cardinality(rest \cup col) = c[x].count + Cardinality(rest)
  <2>1. Cardinality(rest \cap col) = 0
    BY <1>2, <1>4
  <2>2. Cardinality(rest \cup col) = Cardinality(rest) + c[x].count - 0
    BY <1>3, <1>5, <2>1
  <2>. QED BY <1>4, <2>2
<1>. QED BY <1>1, <1>5, <1>6 DEF rest

LEMMA UnitsFinite ==
  ASSUME NEW A, IsFiniteSet(A), NEW c, \A x \in A : c[x].count \in Nat
  PROVE  IsFiniteSet(Units(c, A))
<1>. DEFINE Bad == {s \in SUBSET A : ~IsFiniteSet(Units(c, s))}
            T == {Cardinality(s) : s \in Bad}
<1>1. SUFFICES ASSUME Bad # {} PROVE FALSE
  OBVIOUS
<1>2. \A s \in SUBSET A : IsFiniteSet(s) /\ Cardinality(s) \in Nat
  BY FS_Subset, FS_CardinalityType
<1>3. T \in SUBSET Nat /\ T # {}
  BY <1>1, <1>2
<1>4. PICK s \in Bad : \A k \in T : Cardinality(s) <= k
  <2>. HIDE DEF T
  <2>1. PICK m \in T : \A k \in T : m <= k
    BY <1>3, LeastNatural
  <2>. QED BY <2>1 DEF T
<1>5. s # {}
  BY <1>4, FS_EmptySet DEF Units
<1>6. PICK x \in s : TRUE
  BY <1>5
<1>7. s \ {x} \in SUBSET A /\ Cardinality(s \ {x}) = Cardinality(s) - 1
  BY <1>2, <1>6, FS_RemoveElement
<1>8. IsFiniteSet(Units(c, s \ {x}))
  <2>1. ASSUME s \ {x} \in Bad PROVE FALSE
    <3>1. Cardinality(s) <= Cardinality(s) - 1
      BY <1>4, <1>7, <2>1
    <3>. QED BY <3>1, <1>2, <1>4
  <2>. QED BY <1>7, <2>1
<1>9. IsFiniteSet(Units(c, s))
  BY <1>6, <1>8, UnitsGrow
<1>. QED BY <1>4, <1>9

LEMMA SumIsUnits ==
  ASSUME NEW A, IsFiniteSet(A), NEW c, \A x \in A : c[x].count \in Nat
  PROVE  Summing(c, A)[A] = Cardinality(Units(c, A))
<1>. DEFINE g == [s \in SUBSET A |-> Cardinality(Units(c, s))]
            h == Summing(c, A)
<1>1. \A s \in SUBSET A : /\ IsFiniteSet(s) /\ Cardinality(s) \in Nat
                          /\ IsFiniteSet(Units(c, s))
  <2>1. ASSUME NEW s \in SUBSET A PROVE IsFiniteSet(s) /\ \A x \in s : c[x].count \in Nat
    BY FS_Subset
  <2>. QED BY <2>1, UnitsFinite, FS_CardinalityType
<1>2. g[{}] = 0
  BY FS_EmptySet DEF Units
<1>3. ASSUME NEW s \in SUBSET A, s # {}, NEW x \in s
      PROVE  s \ {x} \in SUBSET A /\ g[s] = c[x].count + g[s \ {x}]
  BY <1>1, UnitsGrow
<1>4. ASSUME NEW s \in SUBSET A PROVE g[s] = SumStep(c, s, g)
  <2>1. CASE s = {}
    BY <2>1, <1>2 DEF SumStep
  <2>2. CASE s # {}
    <3>1. (CHOOSE x \in s : TRUE) \in s
      BY <2>2
    <3>. HIDE DEF g
    <3>. QED BY <2>2, <3>1, <1>3 DEF SumStep
  <2>. QED BY <2>1, <2>2
<1>5. g = [s \in SUBSET A |-> SumStep(c, s, g)]
  BY <1>4
<1>6. h = [s \in SUBSET A |-> SumStep(c, s, h)]
  <2>. HIDE DEF g
  <2>. QED BY <1>5, Zenon DEF Summing
<1>. HIDE DEF h
<1>7. \A s \in SUBSET A : h[s] = SumStep(c, s, h)
  BY <1>6
<1>. DEFINE Bad == {s \in SUBSET A : h[s] # g[s]}
            T == {Cardinality(s) : s \in Bad}
<1>8. ASSUME Bad # {} PROVE FALSE
  <2>3. T \in SUBSET Nat /\ T # {}
    BY <1>1, <1>8
  <2>4. PICK s \in Bad : \A k \in T : Cardinality(s) <= k
    <3>. HIDE DEF T
    <3>1. PICK m \in T : \A k \in T : m <= k
      BY <2>3, LeastNatural
    <3>. QED BY <3>1 DEF T
  <2>5. s # {}
    BY <1>2, <1>7, <2>4 DEF SumStep
  <2>6. PICK x \in s : x = CHOOSE y \in s : TRUE
    BY <2>5
  <2>7. s \ {x} \in SUBSET A /\ Cardinality(s \ {x}) = Cardinality(s) - 1
    BY <1>1, <2>4, <2>6, FS_RemoveElement
  <2>8. ASSUME s \ {x} \in Bad PROVE FALSE
    <3>1. Cardinality(s) <= Cardinality(s) - 1
      BY <2>4, <2>7, <2>8
    <3>. QED BY <3>1, <1>1, <2>4
  <2>9. h[s \ {x}] = g[s \ {x}]
    BY <2>7, <2>8
  <2>10. h[s] = c[x].count + h[s \ {x}] /\ g[s] = c[x].count + g[s \ {x}]
    <3>. HIDE DEF g
    <3>1. s \in SUBSET A
      BY <2>4
    <3>. QED BY <3>1, <1>4, <1>7, <2>5, <2>6 DEF SumStep
  <2>. QED BY <2>4, <2>9, <2>10
<1>9. h[A] = g[A]
  BY <1>8
<1>. QED BY <1>9 DEF h

LEMMA CountedIsUnits ==
  ASSUME NEW pair, IsFiniteSet(ArcsOf(pair)), \A i \in ArcsOf(pair) : arcs[i].count \in Nat
  PROVE  Counted(pair) = Cardinality(Units(arcs, ArcsOf(pair)))
<1>1. Counted(pair) = Summing(arcs, ArcsOf(pair))[ArcsOf(pair)]
  BY Zenon DEF Counted, MapThenSumSet, MapThenFoldSet, Summing, SumStep
<1>. QED BY <1>1, SumIsUnits
\* Every element of a list is in its set, and conversely.
LEMMA InList ==
  ASSUME NEW S, NEW s \in Seq(S)
  PROVE  /\ \A i \in 1 .. Len(s) : s[i] \in ToSet(s)
         /\ \A x \in ToSet(s) : x \in S /\ \E i \in 1 .. Len(s) : s[i] = x
BY DEF ToSet

LEMMA ListEmpty == ToSet(<< >>) = {}
BY DEF ToSet

LEMMA ListLonger ==
  ASSUME NEW S, NEW s \in Seq(S), NEW x \in S
  PROVE  <<x>> \o s \in Seq(S) /\ ToSet(<<x>> \o s) = {x} \cup ToSet(s)
<1>1. <<x>> \in Seq(S) /\ Len(<<x>>) = 1 /\ <<x>>[1] = x
  OBVIOUS
<1>2. /\ <<x>> \o s \in Seq(S) /\ Len(<<x>> \o s) = 1 + Len(s)
      /\ \A i \in 1 .. 1 + Len(s) : (<<x>> \o s)[i] = IF i <= 1 THEN <<x>>[i] ELSE s[i - 1]
  BY <1>1, ConcatProperties
<1>3. Len(s) \in Nat
  OBVIOUS
<1>4. (<<x>> \o s)[1] = x /\ \A i \in 1 .. Len(s) : (<<x>> \o s)[i + 1] = s[i]
  BY <1>1, <1>2, <1>3
<1>. DEFINE u == <<x>> \o s
<1>. HIDE DEF u
<1>5. u \in Seq(S) /\ Len(u) = 1 + Len(s) /\ u[1] = x /\ \A i \in 1 .. Len(s) : u[i + 1] = s[i]
  BY <1>2, <1>4 DEF u
<1>6. ASSUME NEW y \in ToSet(u) PROVE y = x \/ y \in ToSet(s)
  <2>1. PICK i \in 1 .. Len(u) : u[i] = y
    BY <1>5, InList
  <2>2. CASE i = 1
    BY <2>1, <2>2, <1>5
  <2>3. CASE i # 1
    <3>1. i - 1 \in 1 .. Len(s) /\ (i - 1) + 1 = i
      BY <2>3, <1>3, <1>5
    <3>2. y = s[i - 1]
      BY <2>1, <3>1, <1>5
    <3>. QED BY <3>1, <3>2, InList
  <2>. QED BY <2>2, <2>3
<1>7. x \in ToSet(u)
  <2>1. 1 \in 1 .. Len(u)
    BY <1>3, <1>5
  <2>. QED BY <2>1, <1>5, InList
<1>8. ASSUME NEW y \in ToSet(s) PROVE y \in ToSet(u)
  <2>1. PICK i \in 1 .. Len(s) : s[i] = y
    BY InList
  <2>2. i + 1 \in 1 .. Len(u) /\ u[i + 1] = y
    BY <2>1, <1>3, <1>5
  <2>. QED BY <2>2, <1>5, InList
<1>9. ToSet(u) = {x} \cup ToSet(s)
  BY <1>6, <1>7, <1>8
<1>. QED BY <1>5, <1>9 DEF u

\* A search ends at the first entry that satisfies its test.
LEMMA FirstHit ==
  ASSUME NEW list \in Seq(Nat), NEW hits \in SUBSET (1 .. Len(list)), hits # {}
  PROVE  Min(hits) \in hits /\ list[Min(hits)] \in ToSet(list) /\ list[Min(hits)] \in Nat
<1>1. hits \in SUBSET Nat
  OBVIOUS
<1>2. \E m \in hits : \A k \in hits : m <= k
  BY <1>1, LeastNatural
<1>3. Min(hits) \in hits
  BY <1>2 DEF Min
<1>4. Min(hits) \in 1 .. Len(list)
  BY <1>3
<1>. QED BY <1>3, <1>4, InList

LEMMA McountGoes ==
  ASSUME ProfileTypeOK, levels # << >>, NEW r \in McountFrames, levels' = Front(levels) \o <<r>>
  PROVE  /\ levels' \in Seq(McountFrames) /\ Len(levels') = Len(levels) /\ levels' # << >>
         /\ Len(levels) \in Nat \ {0} /\ topFrame \in McountFrames /\ topFrame = levels[Len(levels)]
         /\ levels'[Len(levels)] = r /\ topFrame' = r
         /\ \A k \in 1 .. Len(levels) : k # Len(levels) => levels'[k] = levels[k]
<1>1. levels \in Seq(McountFrames)
  BY DEF ProfileTypeOK
<1>. DEFINE n == Len(levels)
            a == Front(levels)
<1>2. n \in Nat \ {0} /\ n \in 1 .. n
  BY <1>1
<1>3. a \in Seq(McountFrames) /\ Len(a) = n - 1 /\ \A k \in 1 .. n - 1 : a[k] = levels[k]
  BY <1>1, StackPopped DEF Front
<1>4. <<r>> \in Seq(McountFrames) /\ Len(<<r>>) = 1 /\ <<r>>[1] = r
  OBVIOUS
<1>. HIDE DEF a
<1>5. /\ a \o <<r>> \in Seq(McountFrames) /\ Len(a \o <<r>>) = Len(a) + Len(<<r>>)
      /\ \A i \in 1 .. Len(a) + Len(<<r>>) :
           (a \o <<r>>)[i] = IF i <= Len(a) THEN a[i] ELSE <<r>>[i - Len(a)]
  BY <1>3, <1>4, ConcatProperties
<1>6. levels' = a \o <<r>>
  BY DEF a
<1>. HIDE DEF n
<1>7. Len(levels') = n /\ n - (n - 1) = 1
  BY <1>2, <1>3, <1>4, <1>5, <1>6
<1>8. levels'[n] = r
  <2>1. n \in 1 .. Len(a) + Len(<<r>>) /\ ~(n <= Len(a)) /\ n - Len(a) = 1
    BY <1>2, <1>3, <1>4
  <2>2. (a \o <<r>>)[n] = <<r>>[n - Len(a)]
    BY <2>1, <1>5
  <2>. QED BY <2>1, <2>2, <1>4, <1>6
<1>9. ASSUME NEW k \in 1 .. n, k # n PROVE levels'[k] = levels[k]
  <2>1. k \in 1 .. n - 1 /\ k \in 1 .. Len(a) + Len(<<r>>) /\ k <= Len(a)
    BY <1>2, <1>3, <1>4, <1>9
  <2>2. (a \o <<r>>)[k] = a[k]
    BY <2>1, <1>5
  <2>. QED BY <2>1, <2>2, <1>3, <1>6
<1>10. topFrame = levels[n] /\ topFrame \in McountFrames
  BY <1>1, <1>2 DEF topFrame, Last, n
<1>11. topFrame' = r /\ levels' # << >>
  BY <1>2, <1>7, <1>8 DEF topFrame, Last
<1>. QED BY <1>2, <1>5, <1>6, <1>7, <1>8, <1>9, <1>10, <1>11 DEF n

LEMMA McountReturns ==
  ASSUME ProfileTypeOK, levels # << >>, levels' = Front(levels)
  PROVE  /\ levels' \in Seq(McountFrames) /\ Len(levels') = Len(levels) - 1
         /\ Len(levels) \in Nat \ {0} /\ topFrame \in McountFrames /\ topFrame = levels[Len(levels)]
         /\ \A k \in 1 .. Len(levels) - 1 : levels'[k] = levels[k]
<1>1. levels \in Seq(McountFrames)
  BY DEF ProfileTypeOK
<1>2. Len(levels) \in Nat \ {0} /\ topFrame \in McountFrames /\ topFrame = levels[Len(levels)]
  BY <1>1 DEF topFrame, Last
<1>. QED BY <1>1, <1>2, StackPopped DEF Front

\* Counts as cardinalities.
LEMMA UnitsSame ==
  ASSUME NEW a, NEW b, NEW A, \A i \in A : a[i].count = b[i].count
  PROVE  Units(a, A) = Units(b, A)
<1>1. \A i \in A : {i} \X (1 .. a[i].count) = {i} \X (1 .. b[i].count)
  OBVIOUS
<1>. QED BY <1>1 DEF Units

LEMMA ArcsAre ==
  ASSUME ProfileTypeOK, NEW pair
  PROVE  /\ ArcsOf(pair) \subseteq 1 .. Len(arcs) /\ Len(arcs) \in Nat /\ IsFiniteSet(ArcsOf(pair))
         /\ \A i \in 1 .. Len(arcs) : arcs[i].count \in Nat \ {0} /\ arcs[i].from \in Callers
<1>1. arcs \in Seq(ArcRecords)
  BY DEF ProfileTypeOK
<1>2. \A i \in 1 .. Len(arcs) : arcs[i] \in ArcRecords
  BY <1>1
<1>3. IsFiniteSet(1 .. Len(arcs))
  BY <1>1, FS_Interval
<1>4. ArcsOf(pair) \in SUBSET (1 .. Len(arcs))
  BY DEF ArcsOf
<1>5. IsFiniteSet(ArcsOf(pair))
  BY <1>3, <1>4, FS_Subset
<1>. QED BY <1>1, <1>2, <1>4, <1>5 DEF ArcRecords

LEMMA ArcsAreNext ==
  ASSUME ProfileTypeOK', NEW pair
  PROVE  /\ ArcsOf(pair)' \subseteq 1 .. Len(arcs') /\ Len(arcs') \in Nat /\ IsFiniteSet(ArcsOf(pair)')
         /\ \A i \in 1 .. Len(arcs') : arcs'[i].count \in Nat \ {0} /\ arcs'[i].from \in Callers
<1>1. arcs' \in Seq(ArcRecords)
  BY DEF ProfileTypeOK
<1>2. \A i \in 1 .. Len(arcs') : arcs'[i] \in ArcRecords
  BY <1>1
<1>3. IsFiniteSet(1 .. Len(arcs'))
  BY <1>1, FS_Interval
<1>4. ArcsOf(pair)' \in SUBSET (1 .. Len(arcs'))
  BY DEF ArcsOf
<1>5. IsFiniteSet(ArcsOf(pair)')
  BY <1>3, <1>4, FS_Subset
<1>. QED BY <1>1, <1>2, <1>4, <1>5 DEF ArcRecords

LEMMA UnitsOfSome ==
  ASSUME NEW n \in Nat, NEW A \in SUBSET (1 .. n), NEW c,
         \A i \in 1 .. n : c[i].count \in Nat \ {0}
  PROVE  /\ IsFiniteSet(A) /\ IsFiniteSet(Units(c, A))
         /\ Cardinality(Units(c, A)) \in Nat
         /\ A # {} => Cardinality(Units(c, A)) > 0
<1>1. ASSUME NEW B \in SUBSET A
      PROVE  IsFiniteSet(B) /\ IsFiniteSet(Units(c, B)) /\ Cardinality(Units(c, B)) \in Nat
  <2>1. IsFiniteSet(1 .. n)
    BY FS_Interval
  <2>2. IsFiniteSet(B)
    BY <2>1, FS_Subset
  <2>3. \A x \in B : c[x].count \in Nat
    OBVIOUS
  <2>. QED BY <2>2, <2>3, UnitsFinite, FS_CardinalityType
<1>3. ASSUME NEW x \in A PROVE Cardinality(Units(c, A)) > 0
  <2>. DEFINE k == Cardinality(Units(c, A))
              m == Cardinality(Units(c, A \ {x}))
              t == c[x].count
  <2>1. k = t + m
    BY <1>1, UnitsGrow
  <2>2. t \in Nat \ {0} /\ m \in Nat
    BY <1>1
  <2>. HIDE DEF k, m, t
  <2>3. k > 0
    BY <2>1, <2>2
  <2>. QED BY <2>3 DEF k
<1>. QED BY <1>1, <1>3

Counting(c, A) == IsFiniteSet(A) /\ \A i \in A : c[i].count \in Nat \ {0}

LEMMA UnitsAt ==
  ASSUME NEW A, NEW c, Counting(c, A), NEW x \in A
  PROVE  /\ Cardinality(Units(c, A \ {x})) \in Nat /\ c[x].count \in Nat
         /\ Cardinality(Units(c, A)) = c[x].count + Cardinality(Units(c, A \ {x}))
<1>. USE DEF Counting
<1>1. IsFiniteSet(A \ {x}) /\ c[x].count \in Nat
  BY FS_RemoveElement
<1>2. IsFiniteSet(Units(c, A \ {x})) /\ Cardinality(Units(c, A \ {x})) \in Nat
  BY <1>1, UnitsFinite, FS_CardinalityType
<1>. QED BY <1>1, <1>2, UnitsGrow

LEMMA CountedIs ==
  ASSUME ProfileTypeOK, NEW pair
  PROVE  /\ Counted(pair) = Cardinality(Units(arcs, ArcsOf(pair))) /\ Counted(pair) \in Nat
         /\ ArcsOf(pair) # {} => Counted(pair) > 0
<1>1. /\ ArcsOf(pair) \subseteq 1 .. Len(arcs) /\ Len(arcs) \in Nat
      /\ \A i \in 1 .. Len(arcs) : arcs[i].count \in Nat \ {0}
  BY ArcsAre
<1>2. Counted(pair) = Summing(arcs, ArcsOf(pair))[ArcsOf(pair)]
  BY Zenon DEF Counted, MapThenSumSet, MapThenFoldSet, Summing, SumStep
<1>. DEFINE A == ArcsOf(pair)
<1>. HIDE DEF A
<1>3. Summing(arcs, A)[A] = Cardinality(Units(arcs, A))
  <2>1. IsFiniteSet(A) /\ \A i \in A : arcs[i].count \in Nat
    BY <1>1, UnitsOfSome DEF A
  <2>. QED BY <2>1, SumIsUnits
<1>4. Cardinality(Units(arcs, A)) \in Nat /\ (A # {} => Cardinality(Units(arcs, A)) > 0)
  <2>1. Len(arcs) \in Nat /\ A \in SUBSET (1 .. Len(arcs))
    BY <1>1 DEF A
  <2>. QED BY <1>1, <2>1, UnitsOfSome
<1>. QED BY <1>2, <1>3, <1>4 DEF A

LEMMA CountedIsNext ==
  ASSUME ProfileTypeOK', NEW pair
  PROVE  /\ Counted(pair)' = Cardinality(Units(arcs', ArcsOf(pair)')) /\ Counted(pair)' \in Nat
         /\ ArcsOf(pair)' # {} => Counted(pair)' > 0
<1>1. /\ ArcsOf(pair)' \subseteq 1 .. Len(arcs') /\ Len(arcs') \in Nat
      /\ \A i \in 1 .. Len(arcs') : arcs'[i].count \in Nat \ {0}
  BY ArcsAreNext
<1>2. Counted(pair)' = Summing(arcs', ArcsOf(pair)')[ArcsOf(pair)']
  BY Zenon DEF Counted, MapThenSumSet, MapThenFoldSet, Summing, SumStep
<1>. DEFINE A == ArcsOf(pair)'
            c == arcs'
<1>. HIDE DEF A, c
<1>3. Summing(c, A)[A] = Cardinality(Units(c, A))
  <2>1. IsFiniteSet(A) /\ \A i \in A : c[i].count \in Nat
    BY <1>1, UnitsOfSome DEF A, c
  <2>. QED BY <2>1, SumIsUnits
<1>4. Cardinality(Units(c, A)) \in Nat /\ (A # {} => Cardinality(Units(c, A)) > 0)
  <2>1. Len(c) \in Nat /\ A \in SUBSET (1 .. Len(c)) /\ \A i \in 1 .. Len(c) : c[i].count \in Nat \ {0}
    BY <1>1 DEF A, c
  <2>. QED BY <2>1, UnitsOfSome
<1>. QED BY <1>2, <1>3, <1>4 DEF A, c

\* No count of a pair changed.
LEMMA CountedStays ==
  ASSUME ProfileTypeOK, ProfileTypeOK', NEW pair, ArcsOf(pair)' = ArcsOf(pair),
         \A i \in ArcsOf(pair) : arcs'[i].count = arcs[i].count
  PROVE  Counted(pair)' = Counted(pair)
<1>1. Units(arcs', ArcsOf(pair)) = Units(arcs, ArcsOf(pair))
  BY UnitsSame
<1>. QED BY <1>1, CountedIs, CountedIsNext

\* The count of one arc changed.
LEMMA CountedAt ==
  ASSUME ProfileTypeOK, ProfileTypeOK', NEW pair, ArcsOf(pair)' = ArcsOf(pair),
         NEW a \in ArcsOf(pair),
         \A i \in ArcsOf(pair) : i # a => arcs'[i].count = arcs[i].count
  PROVE  Counted(pair)' = (Counted(pair) - arcs[a].count) + arcs'[a].count
<1>. DEFINE A == ArcsOf(pair)
            c == arcs'
<1>1. Units(c, A \ {a}) = Units(arcs, A \ {a})
  <2>1. \A i \in A \ {a} : c[i].count = arcs[i].count
    OBVIOUS
  <2>. HIDE DEF A, c
  <2>. QED BY <2>1, UnitsSame
<1>2. Counting(arcs, A)
  <2>1. IsFiniteSet(A)
    BY ArcsAre
  <2>. QED BY <2>1, ArcsAre DEF Counting
<1>3. Counting(c, A)
  <2>1. IsFiniteSet(A)
    BY ArcsAreNext
  <2>. QED BY <2>1, ArcsAreNext DEF Counting
<1>4. Counted(pair) = Cardinality(Units(arcs, A)) /\ Counted(pair)' = Cardinality(Units(c, A))
  BY CountedIs, CountedIsNext
<1>5. a \in A
  OBVIOUS
<1>. HIDE DEF A, c
<1>6. /\ Cardinality(Units(arcs, A \ {a})) \in Nat
      /\ Cardinality(Units(arcs, A)) = arcs[a].count + Cardinality(Units(arcs, A \ {a}))
  BY <1>2, <1>5, UnitsAt
<1>7. Cardinality(Units(c, A)) = c[a].count + Cardinality(Units(c, A \ {a}))
  BY <1>3, <1>5, UnitsAt
<1>8. arcs[a].count \in Nat /\ c[a].count \in Nat
  BY <1>2, <1>3, <1>5 DEF Counting
<1>9. /\ Counted(pair) = arcs[a].count + Cardinality(Units(arcs, A \ {a}))
      /\ Counted(pair)' = c[a].count + Cardinality(Units(arcs, A \ {a}))
  BY <1>1, <1>4, <1>6, <1>7
<1>10. Counted(pair)' = (Counted(pair) - arcs[a].count) + c[a].count
  <2>. DEFINE m == Cardinality(Units(arcs, A \ {a}))
              t == arcs[a].count
              u == c[a].count
              x == Counted(pair)
              y == Counted(pair)'
  <2>1. x = t + m /\ y = u + m /\ m \in Nat /\ t \in Nat /\ u \in Nat
    BY <1>6, <1>8, <1>9
  <2>. HIDE DEF m, t, u, x, y
  <2>2. y = (x - t) + u
    BY <2>1
  <2>. QED BY <2>2 DEF t, u, x, y
<1>. QED BY <1>10 DEF c

\* A pair has one more arc.
LEMMA CountedMore ==
  ASSUME ProfileTypeOK, ProfileTypeOK', NEW pair, NEW a, a \notin ArcsOf(pair),
         ArcsOf(pair)' = ArcsOf(pair) \cup {a},
         \A i \in ArcsOf(pair) : arcs'[i].count = arcs[i].count
  PROVE  Counted(pair)' = Counted(pair) + arcs'[a].count
<1>. DEFINE A == ArcsOf(pair)
            B == ArcsOf(pair)'
            c == arcs'
<1>1. B \ {a} = A /\ a \in B /\ Units(c, A) = Units(arcs, A)
  <2>1. \A i \in A : c[i].count = arcs[i].count
    OBVIOUS
  <2>2. Units(c, A) = Units(arcs, A)
    <3>. HIDE DEF A, c
    <3>. QED BY <2>1, UnitsSame
  <2>. QED BY <2>2
<1>2. Counting(c, B)
  <2>1. IsFiniteSet(B)
    BY ArcsAreNext
  <2>. QED BY <2>1, ArcsAreNext DEF Counting
<1>3. /\ Counted(pair) = Cardinality(Units(arcs, A)) /\ Counted(pair) \in Nat
      /\ Counted(pair)' = Cardinality(Units(c, B))
  BY CountedIs, CountedIsNext
<1>. HIDE DEF A, B, c
<1>4. /\ c[a].count \in Nat
      /\ Cardinality(Units(c, B)) = c[a].count + Cardinality(Units(c, B \ {a}))
  BY <1>1, <1>2, UnitsAt
<1>5. Counted(pair)' = c[a].count + Counted(pair)
  BY <1>1, <1>3, <1>4
<1>. QED BY <1>3, <1>4, <1>5 DEF c

\* The lists only grow, and an entry stays what it is.
TablesGrow ==
  /\ ToSet(fnHead) \subseteq ToSet(fnHead')
  /\ Len(fns) <= Len(fns')
  /\ \A f \in 1 .. Len(fns) : /\ fns'[f].self = fns[f].self
                              /\ ToSet(fns[f].arcs) \subseteq ToSet(fns'[f].arcs)
  /\ Len(arcs) <= Len(arcs')
  /\ \A i \in 1 .. Len(arcs) : arcs'[i].from = arcs[i].from

LEMMA TablesSame ==
  ASSUME ProfileTypeOK, UNCHANGED tableVars
  PROVE  /\ TablesGrow
         /\ \A pair : ArcsOf(pair)' = ArcsOf(pair)
<1>1. Len(fns) \in Nat /\ Len(arcs) \in Nat
  BY DEF ProfileTypeOK
<1>2. fnHead' = fnHead /\ fns' = fns /\ arcs' = arcs
  BY DEF tableVars
<1>. QED BY <1>1, <1>2 DEF TablesGrow, ArcsOf

LEMMA ArcsStay ==
  ASSUME ProfileTypeOK, TablesGrow, ProfileTypeOK', NEW pair
  PROVE  ArcsOf(pair) \subseteq ArcsOf(pair)'
<1>1. Len(fns) \in Nat /\ Len(arcs) \in Nat /\ Len(fns') \in Nat /\ Len(arcs') \in Nat
  BY DEF ProfileTypeOK
<1>2. ASSUME NEW i \in ArcsOf(pair) PROVE i \in ArcsOf(pair)'
  <2>1. i \in 1 .. Len(arcs) /\ arcs[i].from = pair[2]
    BY DEF ArcsOf
  <2>2. PICK f \in ToSet(fnHead) : fns[f].self = pair[1] /\ i \in ToSet(fns[f].arcs)
    BY DEF ArcsOf
  <2>3. f \in 1 .. Len(fns) /\ f \in ToSet(fnHead')
    BY <2>2 DEF ProfileTypeOK, TablesGrow
  <2>4. fns'[f].self = pair[1] /\ i \in ToSet(fns'[f].arcs)
    BY <2>2, <2>3 DEF TablesGrow
  <2>5. i \in 1 .. Len(arcs') /\ arcs'[i].from = pair[2]
    BY <1>1, <2>1 DEF TablesGrow
  <2>. QED BY <2>3, <2>4, <2>5 DEF ArcsOf
<1>. QED BY <1>2

\* An mcount that is interrupted finds everything as it left it.
LEMMA OuterMcount ==
  ASSUME ProfileInv, ProfileTypeOK', TablesGrow, NEW k \in 1 .. Len(levels),
         levels[k].pc \notin ClosedPcs, levels'[k] = levels[k],
         levels[k].pc = "store" => /\ levels[k].count <= arcs'[levels[k].arc].count
                                   /\ ~nested' => levels[k].count = arcs'[levels[k].arc].count
  PROVE  McountRight(levels[k])'
<1>. DEFINE r == levels[k]
<1>1. r' = r /\ r \in McountFrames /\ McountRight(r) /\ ProfileTypeOK
  <2>1. levels \in Seq(McountFrames)
    BY DEF ProfileInv, ProfileTypeOK
  <2>. QED BY <2>1 DEF ProfileInv, McountsRight
<1>2. r.pc \in OpenPcs
  BY <1>1 DEF McountFrames
<1>3. ASSUME Entered(r) PROVE Entered(r)'
  <2>1. r.entry \in ToSet(fnHead) /\ fns[r.entry].self = r.self
    BY <1>3 DEF Entered
  <2>2. r.entry \in 1 .. Len(fns) /\ r.entry \in ToSet(fnHead')
    BY <1>1, <2>1 DEF ProfileTypeOK, TablesGrow
  <2>3. fns'[r.entry].self = r.self
    BY <2>1, <2>2 DEF TablesGrow
  <2>. HIDE DEF r
  <2>. QED BY <1>1, <2>2, <2>3 DEF Entered
<1>4. ASSUME r.arc \in ArcsOf(PairOf(r)) PROVE r.arc \in ArcsOf(PairOf(r))'
  <2>1. ArcsOf(PairOf(r)) \subseteq ArcsOf(<<r.self, r.from>>)'
    BY <1>1, ArcsStay DEF PairOf
  <2>. HIDE DEF r
  <2>2. ArcsOf(PairOf(r))' = ArcsOf(<<r.self, r.from>>)'
    BY <1>1 DEF PairOf, ArcsOf
  <2>. QED BY <1>4, <1>1, <2>1, <2>2
<1>5. /\ r.pc = "findArc" => Entered(r)'
      /\ r.pc \in {"record", "claim", "start", "disable"} => r.entry = 0 \/ Entered(r)'
      /\ r.pc \in {"load", "store"} => r.arc \in ArcsOf(PairOf(r))'
  <2>. HIDE DEF r
  <2>. QED BY <1>1, <1>3, <1>4 DEF McountRight
<1>6. r.pc = "store" => r.count <= arcs'[r.arc].count /\ (~nested' => r.count = arcs'[r.arc].count)
  OBVIOUS
<1>7. r.pc \notin ClosedPcs
  OBVIOUS
<1>. HIDE DEF r
<1>8. McountRight(r)'
  BY <1>1, <1>2, <1>5, <1>6, <1>7 DEF McountRight, OpenPcs, ClosedPcs
<1>. QED BY <1>8 DEF r

\* The innermost mcount changes, and the ones that it interrupted do not.
LEMMA InnermostChanges ==
  ASSUME ProfileInv, ProfileTypeOK', levels # << >>, NEW r \in McountFrames,
         levels' = Front(levels) \o <<r>>,
         TablesGrow, \A i \in 1 .. Len(arcs) : arcs'[i].count = arcs[i].count,
         McountRight(topFrame)',
         r.pc \in ClosedPcs => ~interruptible',
         r.pc = "store" => r.count = arcs[r.arc].count /\ r.arc \in 1 .. Len(arcs),
         UNCHANGED nested
  PROVE  McountStacked' /\ McountsRight' /\ LoadedInOrder'
<1>. DEFINE n == Len(levels)
<1>1. /\ levels' \in Seq(McountFrames) /\ Len(levels') = n /\ levels' # << >>
      /\ n \in Nat \ {0} /\ topFrame \in McountFrames /\ topFrame = levels[n]
      /\ levels'[n] = r /\ topFrame' = r
      /\ \A k \in 1 .. n : k # n => levels'[k] = levels[k]
  BY McountGoes DEF ProfileInv
<1>2. ProfileTypeOK /\ McountStacked /\ McountsRight /\ LoadedInOrder
  BY DEF ProfileInv
<1>. HIDE DEF n
<1>3. \A k \in 1 .. n : k # n => levels[k].pc \notin ClosedPcs
  BY <1>2 DEF McountStacked, n
<1>4. McountStacked'
  BY <1>1, <1>3 DEF McountStacked
<1>5. \A k \in 1 .. n : levels[k].pc = "store" =>
        /\ levels[k].arc \in 1 .. Len(arcs)
        /\ levels[k].count <= arcs[levels[k].arc].count
        /\ ~nested => levels[k].count = arcs[levels[k].arc].count
  BY <1>2, ArcsAre DEF McountsRight, McountRight, n
<1>6. McountsRight'
  <2>1. ASSUME NEW k \in 1 .. n, k # n PROVE McountRight(levels[k])'
    <3>1. levels[k].pc = "store" => /\ levels[k].count <= arcs'[levels[k].arc].count
                                    /\ ~nested' => levels[k].count = arcs'[levels[k].arc].count
      BY <1>5
    <3>. QED BY <1>1, <1>3, <2>1, <3>1, OuterMcount DEF n
  <2>3. ASSUME NEW k \in 1 .. Len(levels') PROVE McountRight(levels[k])'
    <3>1. CASE k = n
      <4>1. levels'[k] = topFrame'
        BY <3>1, <1>1
      <4>. QED BY <4>1 DEF McountRight, Entered, PairOf, ArcsOf
    <3>2. CASE k # n
      BY <3>2, <2>1, <1>1
    <3>. QED BY <3>1, <3>2
  <2>. QED BY <2>3 DEF McountsRight
<1>7. LoadedInOrder'
  <2>. SUFFICES ASSUME NEW j \in 1 .. n, NEW k \in 1 .. n, j < k,
                       levels'[j].pc = "store", levels'[k].pc = "store",
                       levels'[j].arc = levels'[k].arc
                PROVE  levels'[j].count <= levels'[k].count
    BY <1>1 DEF LoadedInOrder
  <2>1. j # n /\ levels'[j] = levels[j]
    BY <1>1
  <2>2. CASE k = n
    BY <1>1, <1>5, <2>1, <2>2
  <2>3. CASE k # n
    <3>1. levels'[k] = levels[k]
      BY <1>1, <2>3
    <3>. QED BY <1>2, <2>1, <3>1 DEF LoadedInOrder, n
  <2>. QED BY <2>2, <2>3
<1>. QED BY <1>4, <1>6, <1>7

\* The innermost mcount goes on; it neither counts its call nor ends.
LEMMA ProfileGoesOn ==
  ASSUME ProfileInv, ProfileTypeOK', levels # << >>, NEW r \in McountFrames,
         levels' = Front(levels) \o <<r>>, PairOf(r) = PairOf(topFrame),
         topFrame.pc # "enable", r.pc # "enable",
         TablesGrow, \A pair \in Pairs : ArcsOf(pair)' = ArcsOf(pair),
         \A i \in 1 .. Len(arcs) : arcs'[i].count = arcs[i].count,
         ArcsApart', McountRight(topFrame)', SamplerOnce',
         r.pc \in ClosedPcs => ~interruptible',
         r.pc = "store" => r.count = arcs[r.arc].count,
         UNCHANGED <<nested, begun, ended>>
  PROVE  ProfileInv'
<1>. DEFINE n == Len(levels)
<1>1. /\ levels' \in Seq(McountFrames) /\ Len(levels') = n /\ levels' # << >>
      /\ n \in Nat \ {0} /\ topFrame \in McountFrames /\ topFrame = levels[n]
      /\ levels'[n] = r /\ topFrame' = r
      /\ \A k \in 1 .. n : k # n => levels'[k] = levels[k]
  BY McountGoes DEF ProfileInv
<1>2. ProfileTypeOK /\ CallsKept /\ CallsExact
  BY DEF ProfileInv
<1>. HIDE DEF n
<1>3. r.pc = "store" => r.arc \in 1 .. Len(arcs)
  <2>. SUFFICES ASSUME r.pc = "store" PROVE r.arc \in 1 .. Len(arcs)
    OBVIOUS
  <2>1. r.arc \in ArcsOf(PairOf(topFrame))'
    BY <1>1 DEF McountRight
  <2>2. PairOf(topFrame)' = PairOf(topFrame) /\ PairOf(topFrame) \in Pairs
    BY <1>1 DEF PairOf, Pairs, McountFrames
  <2>3. ArcsOf(PairOf(topFrame))' = ArcsOf(PairOf(topFrame))
    BY <2>2 DEF ArcsOf
  <2>. QED BY <2>1, <2>3, <1>2, ArcsAre
<1>4. McountStacked' /\ McountsRight' /\ LoadedInOrder'
  BY <1>3, InnermostChanges
<1>8. \A pair \in Pairs : Counted(pair)' = Counted(pair)
  <2>1. ASSUME NEW pair \in Pairs PROVE Counted(pair)' = Counted(pair)
    <3>1. \A i \in ArcsOf(pair) : arcs'[i].count = arcs[i].count
      BY <1>2, ArcsAre
    <3>2. ArcsOf(pair)' = ArcsOf(pair)
      OBVIOUS
    <3>. QED BY <1>2, <3>1, <3>2, CountedStays
  <2>. QED BY <2>1
<1>9. \A pair \in Pairs : Uncounted(pair)' = Uncounted(pair)
  <2>1. ASSUME NEW pair \in Pairs, NEW k \in 1 .. n
        PROVE  (PairOf(levels[k])' = pair /\ levels'[k].pc # "enable")
                 <=> (PairOf(levels[k]) = pair /\ levels[k].pc # "enable")
    <3>1. CASE k = n
      BY <1>1, <3>1 DEF PairOf
    <3>2. CASE k # n
      BY <1>1, <3>2 DEF PairOf
    <3>. QED BY <3>1, <3>2
  <2>. QED BY <1>1, <2>1 DEF Uncounted, n
<1>10. CallsKept'
  BY <1>2, <1>8, <1>9 DEF CallsKept
<1>11. CallsExact'
  <2>. SUFFICES ASSUME ~nested
                PROVE  /\ Len(levels') <= 1
                       /\ \A pair \in Pairs :
                            Counted(pair)' = ended[pair] + (IF At("enable")' /\ PairOf(topFrame)' = pair THEN 1 ELSE 0)
    BY DEF CallsExact
  <2>1. ~At("enable") /\ ~At("enable")'
    BY <1>1 DEF At
  <2>. QED BY <1>1, <1>2, <1>8, <2>1 DEF CallsExact, n
<1>. QED BY <1>4, <1>10, <1>11 DEF ProfileInv

LEMMA ProfileStarts == ProfileInit => ProfileInv
<1>. SUFFICES ASSUME ProfileInit PROVE ProfileInv
  OBVIOUS
<1>. USE DEF ProfileInit
<1>1. ProfileTypeOK
  <2>1. begun \in [Pairs -> Nat] /\ ended \in [Pairs -> Nat]
    OBVIOUS
  <2>2. ToSet(fnHead) \subseteq 1 .. Len(fns)
    BY ListEmpty
  <2>3. /\ fnHead \in Seq(Nat) /\ fns \in Seq(FnEntries) /\ arcs \in Seq(ArcRecords)
        /\ levels \in Seq(McountFrames) /\ Len(fns) = 0
    OBVIOUS
  <2>4. \A f \in 1 .. Len(fns) : ToSet(fns[f].arcs) \subseteq 1 .. Len(arcs)
    BY <2>3
  <2>5. need_init \in BOOLEAN /\ samplers \in Nat /\ ticking \in BOOLEAN /\ interruptible \in BOOLEAN
    OBVIOUS
  <2>. QED BY ONLY <2>1, <2>2, <2>3, <2>4, <2>5 DEF ProfileTypeOK
<1>2. ArcsApart /\ McountStacked /\ McountsRight /\ LoadedInOrder /\ SamplerOnce
  BY DEF ArcsApart, McountStacked, McountsRight, LoadedInOrder, SamplerOnce, At
<1>3. ASSUME NEW pair \in Pairs PROVE Counted(pair) = 0 /\ Cardinality(Uncounted(pair)) = 0
  <2>1. ArcsOf(pair) = {} /\ Uncounted(pair) = {}
    BY DEF ArcsOf, Uncounted
  <2>2. Units(arcs, {}) = {}
    BY DEF Units
  <2>3. Counted(pair) = Cardinality({})
    BY <1>1, <2>1, <2>2, CountedIs
  <2>. QED BY <2>1, <2>3, FS_EmptySet
<1>4. CallsKept
  BY <1>3 DEF CallsKept
<1>5. CallsExact
  BY <1>3 DEF CallsExact, At
<1>. QED BY <1>1, <1>2, <1>4, <1>5 DEF ProfileInv

\* At most the system clock has started.
LEMMA ProfileQuiet ==
  ASSUME ProfileInv, ticking' \in BOOLEAN,
         UNCHANGED <<tableVars, need_init, samplers, interruptible, levels, historyVars, ended>>
  PROVE  ProfileInv'
<1>. USE DEF tableVars, historyVars
<1>1. ProfileTypeOK' /\ ArcsApart' /\ McountStacked' /\ LoadedInOrder'
  BY DEF ProfileInv, ProfileTypeOK, ArcsApart, McountStacked, LoadedInOrder
<1>2. McountsRight' /\ SamplerOnce'
  BY DEF ProfileInv, McountsRight, McountRight, Entered, PairOf, ArcsOf, SamplerOnce, At, topFrame, Last
<1>3. \A pair : Counted(pair)' = Counted(pair) /\ Uncounted(pair)' = Uncounted(pair) /\ ArcsOf(pair)' = ArcsOf(pair)
  <2>1. ASSUME NEW pair PROVE ArcsOf(pair)' = ArcsOf(pair) /\ Uncounted(pair)' = Uncounted(pair)
    BY DEF ArcsOf, Uncounted, PairOf
  <2>2. ASSUME NEW pair PROVE Counted(pair)' = Counted(pair)
    BY <1>1, <2>1, CountedStays DEF ProfileInv
  <2>. QED BY <2>1, <2>2
<1>4. CallsKept' /\ CallsExact'
  BY <1>3 DEF ProfileInv, CallsKept, CallsExact, At, topFrame, Last, PairOf
<1>. QED BY <1>1, <1>2, <1>4 DEF ProfileInv

LEMMA ProfileTop ==
  ASSUME ProfileInv, levels # << >>
  PROVE  /\ topFrame \in McountFrames /\ topFrame = levels[Len(levels)] /\ Len(levels) \in Nat \ {0}
         /\ McountRight(topFrame)
         /\ topFrame.pc \in ClosedPcs => ~interruptible
<1>1. levels \in Seq(McountFrames)
  BY DEF ProfileInv, ProfileTypeOK
<1>2. Len(levels) \in Nat \ {0} /\ topFrame = levels[Len(levels)] /\ topFrame \in McountFrames
  BY <1>1 DEF topFrame, Last
<1>3. McountRight(levels[Len(levels)]) /\ (levels[Len(levels)].pc \in ClosedPcs => ~interruptible)
  BY <1>2 DEF ProfileInv, McountsRight, McountStacked
<1>. QED BY <1>2, <1>3 DEF McountRight, Entered, PairOf, ArcsOf

\* A step that leaves the lists alone.
LEMMA ProfileSearches ==
  ASSUME ProfileInv, levels # << >>, NEW r \in McountFrames,
         levels' = Front(levels) \o <<r>>, PairOf(r) = PairOf(topFrame),
         topFrame.pc # "enable", r.pc # "enable", McountRight(r),
         r.pc \in ClosedPcs => ~interruptible',
         r.pc = "store" => r.count = arcs[r.arc].count,
         need_init' \in BOOLEAN, samplers' \in Nat, interruptible' \in BOOLEAN, SamplerOnce',
         UNCHANGED <<tableVars, ticking, nested, begun, ended>>
  PROVE  ProfileInv'
<1>1. ProfileTypeOK /\ ArcsApart
  BY DEF ProfileInv
<1>2. levels' \in Seq(McountFrames) /\ topFrame' = r
  BY <1>1, McountGoes
<1>3. fnHead' = fnHead /\ fns' = fns /\ arcs' = arcs
  BY DEF tableVars
<1>4. ProfileTypeOK' /\ ArcsApart'
  BY <1>1, <1>2, <1>3 DEF ProfileTypeOK, ArcsApart
<1>5. TablesGrow /\ \A pair \in Pairs : ArcsOf(pair)' = ArcsOf(pair)
  BY <1>1, TablesSame
<1>6. McountRight(topFrame)'
  BY <1>2, <1>3 DEF McountRight, Entered, PairOf, ArcsOf
<1>. QED BY <1>3, <1>4, <1>5, <1>6, ProfileGoesOn

LEMMA ProfileAt ==
  ASSUME ProfileInv, NEW pc, At(pc)
  PROVE  /\ levels # << >> /\ topFrame.pc = pc
         /\ topFrame \in McountFrames /\ McountRight(topFrame)
         /\ fnHead \in Seq(Nat) /\ fns \in Seq(FnEntries) /\ arcs \in Seq(ArcRecords)
         /\ need_init \in BOOLEAN /\ samplers \in Nat /\ interruptible \in BOOLEAN
         /\ ticking \in BOOLEAN /\ SamplerOnce
BY ProfileTop DEF At, ProfileInv, ProfileTypeOK

LEMMA FindFunctionKept == ProfileInv /\ FindFunction => ProfileInv'
<1>. SUFFICES ASSUME ProfileInv, FindFunction PROVE ProfileInv'
  OBVIOUS
<1>. DEFINE hits == {i \in 1 .. Len(fnHead) : fns[fnHead[i]].self = topFrame.self}
            found == IF hits = {} THEN 0 ELSE fnHead[Min(hits)]
            to == IF found = 0 THEN "record" ELSE "findArc"
            r == [[topFrame EXCEPT !.entry = found] EXCEPT !.pc = to]
<1>1. /\ levels # << >> /\ topFrame.pc = "findFunction" /\ topFrame \in McountFrames
      /\ fnHead \in Seq(Nat) /\ need_init \in BOOLEAN /\ samplers \in Nat /\ interruptible \in BOOLEAN
      /\ SamplerOnce
  BY ProfileAt DEF FindFunction
<1>2. levels' = Front(levels) \o <<r>>
  BY DEF FindFunction, Goes, FirstWhere
<1>3. found \in Nat /\ (found # 0 => found \in ToSet(fnHead) /\ fns[found].self = topFrame.self)
  <2>1. CASE hits = {}
    BY <2>1
  <2>2. CASE hits # {}
    <3>1. hits \in SUBSET (1 .. Len(fnHead))
      OBVIOUS
    <3>2. Min(hits) \in hits /\ fnHead[Min(hits)] \in ToSet(fnHead) /\ fnHead[Min(hits)] \in Nat
      <4>. HIDE DEF hits
      <4>. QED BY <1>1, <2>2, <3>1, FirstHit
    <3>. QED BY <2>2, <3>2
  <2>. QED BY <2>1, <2>2
<1>. HIDE DEF found
<1>4. /\ r \in McountFrames /\ r.self = topFrame.self /\ r.from = topFrame.from /\ r.entry = found
      /\ r.pc = to
  BY <1>1, <1>3 DEF McountFrames, OpenPcs
<1>. HIDE DEF r
<1>5. McountRight(r)
  BY <1>3, <1>4 DEF McountRight, Entered
<1>6. UNCHANGED <<tableVars, samplerVars, interruptible, nested, begun, ended>>
  BY DEF FindFunction, historyVars
<1>7. SamplerOnce'
  <2>1. topFrame' = r
    BY <1>1, <1>2, <1>4, McountGoes DEF ProfileInv
  <2>2. ~At("claim")' /\ ~At("start")'
    BY <1>4, <2>1 DEF At
  <2>. QED BY <1>1, <1>6, <2>2 DEF SamplerOnce, samplerVars
<1>8. /\ r.pc # "enable" /\ r.pc \notin ClosedPcs /\ r.pc # "store" /\ PairOf(r) = PairOf(topFrame)
      /\ need_init' \in BOOLEAN /\ samplers' \in Nat /\ interruptible' \in BOOLEAN
  BY <1>1, <1>4, <1>6 DEF ClosedPcs, PairOf, samplerVars
<1>. QED BY <1>1, <1>2, <1>4, <1>5, <1>6, <1>7, <1>8, ProfileSearches DEF samplerVars

LEMMA FindArcKept == ProfileInv /\ FindArc => ProfileInv'
<1>. SUFFICES ASSUME ProfileInv, FindArc PROVE ProfileInv'
  OBVIOUS
<1>. DEFINE list == fns[topFrame.entry].arcs
            hits == {i \in 1 .. Len(list) : arcs[list[i]].from = topFrame.from}
            found == IF hits = {} THEN 0 ELSE list[Min(hits)]
            to == IF found = 0 THEN "record" ELSE "load"
            r == [[topFrame EXCEPT !.arc = found] EXCEPT !.pc = to]
<1>1. /\ levels # << >> /\ topFrame.pc = "findArc" /\ topFrame \in McountFrames
      /\ McountRight(topFrame) /\ fns \in Seq(FnEntries)
      /\ need_init \in BOOLEAN /\ samplers \in Nat /\ interruptible \in BOOLEAN
      /\ SamplerOnce
  BY ProfileAt DEF FindArc
<1>2. levels' = Front(levels) \o <<r>>
  BY DEF FindArc, Goes, FirstWhere
<1>3. /\ Entered(topFrame) /\ topFrame.entry \in 1 .. Len(fns)
      /\ list \in Seq(Nat) /\ ToSet(list) \subseteq 1 .. Len(arcs)
  <2>1. Entered(topFrame)
    BY <1>1 DEF McountRight
  <2>2. topFrame.entry \in 1 .. Len(fns)
    BY <2>1 DEF Entered, ProfileInv, ProfileTypeOK
  <2>3. fns[topFrame.entry] \in FnEntries
    BY <1>1, <2>2
  <2>. QED BY <2>1, <2>2, <2>3 DEF FnEntries, ProfileInv, ProfileTypeOK
<1>4. found \in Nat /\ (found # 0 => found \in ToSet(list) /\ arcs[found].from = topFrame.from)
  <2>. HIDE DEF list
  <2>1. CASE hits = {}
    BY <2>1
  <2>2. CASE hits # {}
    <3>1. hits \in SUBSET (1 .. Len(list))
      OBVIOUS
    <3>2. Min(hits) \in hits /\ list[Min(hits)] \in ToSet(list) /\ list[Min(hits)] \in Nat
      <4>. HIDE DEF hits
      <4>. QED BY <1>3, <2>2, <3>1, FirstHit
    <3>. QED BY <2>2, <3>2
  <2>. QED BY <2>1, <2>2
<1>. HIDE DEF found
<1>5. /\ r \in McountFrames /\ r.self = topFrame.self /\ r.from = topFrame.from /\ r.arc = found
      /\ r.entry = topFrame.entry /\ r.pc = to
  BY <1>1, <1>4 DEF McountFrames, OpenPcs
<1>. HIDE DEF r
<1>6. Entered(r)
  BY <1>3, <1>5 DEF Entered
<1>7. ASSUME found # 0 PROVE found \in ArcsOf(PairOf(r))
  <2>1. found \in 1 .. Len(arcs) /\ arcs[found].from = r.from
    BY <1>3, <1>4, <1>5, <1>7
  <2>2. r.entry \in ToSet(fnHead) /\ fns[r.entry].self = r.self /\ found \in ToSet(fns[r.entry].arcs)
    BY <1>4, <1>5, <1>6, <1>7 DEF Entered
  <2>. QED BY <2>1, <2>2 DEF ArcsOf, PairOf
<1>8. McountRight(r)
  BY <1>5, <1>6, <1>7 DEF McountRight
<1>9. UNCHANGED <<tableVars, samplerVars, interruptible, nested, begun, ended>>
  BY DEF FindArc, historyVars
<1>10. SamplerOnce'
  <2>1. topFrame' = r
    BY <1>1, <1>2, <1>5, McountGoes DEF ProfileInv
  <2>2. ~At("claim")' /\ ~At("start")'
    BY <1>5, <2>1 DEF At
  <2>. QED BY <1>1, <1>9, <2>2 DEF SamplerOnce, samplerVars
<1>11. /\ r.pc # "enable" /\ r.pc \notin ClosedPcs /\ r.pc # "store" /\ PairOf(r) = PairOf(topFrame)
      /\ need_init' \in BOOLEAN /\ samplers' \in Nat /\ interruptible' \in BOOLEAN
  BY <1>1, <1>5, <1>9 DEF ClosedPcs, PairOf, samplerVars
<1>. QED BY <1>1, <1>2, <1>5, <1>8, <1>9, <1>10, <1>11, ProfileSearches DEF samplerVars

LEMMA LoadCountKept == ProfileInv /\ LoadCount => ProfileInv'
<1>. SUFFICES ASSUME ProfileInv, LoadCount PROVE ProfileInv'
  OBVIOUS
<1>. DEFINE r == [[topFrame EXCEPT !.count = arcs[topFrame.arc].count] EXCEPT !.pc = "store"]
<1>1. /\ levels # << >> /\ topFrame.pc = "load" /\ topFrame \in McountFrames
      /\ McountRight(topFrame)
      /\ need_init \in BOOLEAN /\ samplers \in Nat /\ interruptible \in BOOLEAN
      /\ SamplerOnce
  BY ProfileAt DEF LoadCount
<1>2. levels' = Front(levels) \o <<r>>
  BY DEF LoadCount, Goes
<1>3. topFrame.arc \in ArcsOf(PairOf(topFrame))
  BY <1>1 DEF McountRight
<1>4. arcs[topFrame.arc].count \in Nat
  BY <1>3, ArcsAre DEF ProfileInv
<1>5. /\ r \in McountFrames /\ PairOf(r) = PairOf(topFrame) /\ r.arc = topFrame.arc
      /\ r.count = arcs[r.arc].count /\ r.pc = "store"
  BY <1>1, <1>4 DEF McountFrames, OpenPcs, PairOf
<1>. HIDE DEF r
<1>6. McountRight(r)
  BY <1>3, <1>4, <1>5 DEF McountRight
<1>7. UNCHANGED <<tableVars, samplerVars, interruptible, nested, begun, ended>>
  BY DEF LoadCount, historyVars
<1>8. SamplerOnce'
  <2>1. topFrame' = r
    BY <1>1, <1>2, <1>5, McountGoes DEF ProfileInv
  <2>2. ~At("claim")' /\ ~At("start")'
    BY <1>5, <2>1 DEF At
  <2>. QED BY <1>1, <1>7, <2>2 DEF SamplerOnce, samplerVars
<1>9. /\ r.pc # "enable" /\ r.pc \notin ClosedPcs
      /\ need_init' \in BOOLEAN /\ samplers' \in Nat /\ interruptible' \in BOOLEAN
  BY <1>1, <1>5, <1>7 DEF ClosedPcs, samplerVars
<1>. QED BY <1>1, <1>2, <1>5, <1>6, <1>7, <1>8, <1>9, ProfileSearches DEF samplerVars

LEMMA SamplerTestKept == ProfileInv /\ SamplerTest => ProfileInv'
<1>. SUFFICES ASSUME ProfileInv, SamplerTest PROVE ProfileInv'
  OBVIOUS
<1>. DEFINE to == IF need_init THEN "claim" ELSE "disable"
            r == [topFrame EXCEPT !.pc = to]
<1>1. /\ levels # << >> /\ topFrame.pc = "record" /\ topFrame \in McountFrames
      /\ McountRight(topFrame) /\ ticking \in BOOLEAN
      /\ need_init \in BOOLEAN /\ samplers \in Nat /\ interruptible \in BOOLEAN
      /\ SamplerOnce
  BY ProfileAt DEF SamplerTest
<1>2. levels' = Front(levels) \o <<r>>
  BY DEF SamplerTest, Goes
<1>3. topFrame.entry = 0 \/ Entered(topFrame)
  BY <1>1 DEF McountRight
<1>4. /\ r \in McountFrames /\ PairOf(r) = PairOf(topFrame) /\ r.entry = topFrame.entry
      /\ r.self = topFrame.self /\ r.pc = to
  BY <1>1 DEF McountFrames, OpenPcs, ClosedPcs, PairOf
<1>. HIDE DEF r
<1>5. McountRight(r)
  BY <1>1, <1>3, <1>4 DEF McountRight, Entered
<1>6. UNCHANGED <<tableVars, ticking, nested, begun, ended>> /\ UNCHANGED <<need_init, samplers, interruptible>>
  BY DEF SamplerTest, historyVars, samplerVars
<1>7. topFrame' = r /\ levels' # << >>
  BY <1>1, <1>2, <1>4, McountGoes DEF ProfileInv
<1>8. SamplerOnce'
  BY <1>1, <1>4, <1>6, <1>7 DEF SamplerOnce, At
<1>9. /\ r.pc # "enable" /\ r.pc # "store" /\ (r.pc \in ClosedPcs => ~interruptible')
      /\ need_init' \in BOOLEAN /\ samplers' \in Nat /\ interruptible' \in BOOLEAN
  BY <1>1, <1>4, <1>6 DEF ClosedPcs
<1>. QED BY <1>1, <1>2, <1>4, <1>5, <1>6, <1>8, <1>9, ProfileSearches

LEMMA SamplerClaimKept == ProfileInv /\ SamplerClaim => ProfileInv'
<1>. SUFFICES ASSUME ProfileInv, SamplerClaim PROVE ProfileInv'
  OBVIOUS
<1>. DEFINE to == "start"
            r == [topFrame EXCEPT !.pc = to]
<1>1. /\ levels # << >> /\ topFrame.pc = "claim" /\ topFrame \in McountFrames
      /\ McountRight(topFrame) /\ ticking \in BOOLEAN
      /\ need_init \in BOOLEAN /\ samplers \in Nat /\ interruptible \in BOOLEAN
      /\ SamplerOnce
  BY ProfileAt DEF SamplerClaim
<1>2. levels' = Front(levels) \o <<r>>
  BY DEF SamplerClaim, Goes
<1>3. topFrame.entry = 0 \/ Entered(topFrame)
  BY <1>1 DEF McountRight
<1>4. /\ r \in McountFrames /\ PairOf(r) = PairOf(topFrame) /\ r.entry = topFrame.entry
      /\ r.self = topFrame.self /\ r.pc = to
  BY <1>1 DEF McountFrames, OpenPcs, ClosedPcs, PairOf
<1>. HIDE DEF r
<1>5. McountRight(r)
  BY <1>1, <1>3, <1>4 DEF McountRight, Entered
<1>6. UNCHANGED <<tableVars, ticking, nested, begun, ended>> /\ need_init' = FALSE /\ UNCHANGED <<samplers, interruptible>>
  BY DEF SamplerClaim, historyVars, samplerVars
<1>7. topFrame' = r /\ levels' # << >>
  BY <1>1, <1>2, <1>4, McountGoes DEF ProfileInv
<1>8. SamplerOnce'
  BY <1>1, <1>4, <1>6, <1>7 DEF SamplerOnce, At
<1>9. /\ r.pc # "enable" /\ r.pc # "store" /\ (r.pc \in ClosedPcs => ~interruptible')
      /\ need_init' \in BOOLEAN /\ samplers' \in Nat /\ interruptible' \in BOOLEAN
  BY <1>1, <1>4, <1>6 DEF ClosedPcs
<1>. QED BY <1>1, <1>2, <1>4, <1>5, <1>6, <1>8, <1>9, ProfileSearches

LEMMA SamplerStartKept == ProfileInv /\ SamplerStart => ProfileInv'
<1>. SUFFICES ASSUME ProfileInv, SamplerStart PROVE ProfileInv'
  OBVIOUS
<1>. DEFINE to == "disable"
            r == [topFrame EXCEPT !.pc = to]
<1>1. /\ levels # << >> /\ topFrame.pc = "start" /\ topFrame \in McountFrames
      /\ McountRight(topFrame) /\ ticking \in BOOLEAN
      /\ need_init \in BOOLEAN /\ samplers \in Nat /\ interruptible \in BOOLEAN
      /\ SamplerOnce
  BY ProfileAt DEF SamplerStart
<1>2. levels' = Front(levels) \o <<r>>
  BY DEF SamplerStart, Goes
<1>3. topFrame.entry = 0 \/ Entered(topFrame)
  BY <1>1 DEF McountRight
<1>4. /\ r \in McountFrames /\ PairOf(r) = PairOf(topFrame) /\ r.entry = topFrame.entry
      /\ r.self = topFrame.self /\ r.pc = to
  BY <1>1 DEF McountFrames, OpenPcs, ClosedPcs, PairOf
<1>. HIDE DEF r
<1>5. McountRight(r)
  BY <1>1, <1>3, <1>4 DEF McountRight, Entered
<1>6. UNCHANGED <<tableVars, ticking, nested, begun, ended>> /\ need_init' = ~ticking /\ UNCHANGED interruptible /\ samplers' = (IF ticking THEN samplers + 1 ELSE samplers)
  BY DEF SamplerStart, historyVars, samplerVars
<1>7. topFrame' = r /\ levels' # << >>
  BY <1>1, <1>2, <1>4, McountGoes DEF ProfileInv
<1>8. SamplerOnce'
  BY <1>1, <1>4, <1>6, <1>7 DEF SamplerOnce, At
<1>9. /\ r.pc # "enable" /\ r.pc # "store" /\ (r.pc \in ClosedPcs => ~interruptible')
      /\ need_init' \in BOOLEAN /\ samplers' \in Nat /\ interruptible' \in BOOLEAN
  BY <1>1, <1>4, <1>6 DEF ClosedPcs
<1>. QED BY <1>1, <1>2, <1>4, <1>5, <1>6, <1>8, <1>9, ProfileSearches

LEMMA CloseInterruptsKept == ProfileInv /\ CloseInterrupts => ProfileInv'
<1>. SUFFICES ASSUME ProfileInv, CloseInterrupts PROVE ProfileInv'
  OBVIOUS
<1>. DEFINE to == IF topFrame.entry = 0 THEN "newFunction" ELSE "newArc"
            r == [[topFrame EXCEPT !.context = interruptible] EXCEPT !.pc = to]
<1>1. /\ levels # << >> /\ topFrame.pc = "disable" /\ topFrame \in McountFrames
      /\ McountRight(topFrame) /\ ticking \in BOOLEAN
      /\ need_init \in BOOLEAN /\ samplers \in Nat /\ interruptible \in BOOLEAN
      /\ SamplerOnce
  BY ProfileAt DEF CloseInterrupts
<1>2. levels' = Front(levels) \o <<r>>
  BY DEF CloseInterrupts, Goes
<1>3. topFrame.entry = 0 \/ Entered(topFrame)
  BY <1>1 DEF McountRight
<1>4. /\ r \in McountFrames /\ PairOf(r) = PairOf(topFrame) /\ r.entry = topFrame.entry
      /\ r.self = topFrame.self /\ r.pc = to
  BY <1>1 DEF McountFrames, OpenPcs, ClosedPcs, PairOf
<1>. HIDE DEF r
<1>5. McountRight(r)
  BY <1>1, <1>3, <1>4 DEF McountRight, Entered
<1>6. UNCHANGED <<tableVars, ticking, nested, begun, ended>> /\ interruptible' = FALSE /\ UNCHANGED <<need_init, samplers>>
  BY DEF CloseInterrupts, historyVars, samplerVars
<1>7. topFrame' = r /\ levels' # << >>
  BY <1>1, <1>2, <1>4, McountGoes DEF ProfileInv
<1>8. SamplerOnce'
  BY <1>1, <1>4, <1>6, <1>7 DEF SamplerOnce, At
<1>9. /\ r.pc # "enable" /\ r.pc # "store" /\ (r.pc \in ClosedPcs => ~interruptible')
      /\ need_init' \in BOOLEAN /\ samplers' \in Nat /\ interruptible' \in BOOLEAN
  BY <1>1, <1>4, <1>6 DEF ClosedPcs
<1>. QED BY <1>1, <1>2, <1>4, <1>5, <1>6, <1>8, <1>9, ProfileSearches

LEMMA NewFunctionKept == ProfileInv /\ NewFunction => ProfileInv'
<1>. SUFFICES ASSUME ProfileInv, NewFunction PROVE ProfileInv'
  OBVIOUS
<1>. DEFINE e == [self |-> topFrame.self, arcs |-> << >>]
            r == [[topFrame EXCEPT !.entry = Len(fns'), !.next = fnHead] EXCEPT !.pc = "linkFunction"]
<1>1. /\ levels # << >> /\ topFrame.pc = "newFunction" /\ topFrame \in McountFrames
      /\ McountRight(topFrame) /\ fnHead \in Seq(Nat) /\ fns \in Seq(FnEntries)
      /\ SamplerOnce
  BY ProfileAt DEF NewFunction
<1>2. levels' = Front(levels) \o <<r>> /\ fns' = Append(fns, e)
      /\ UNCHANGED <<fnHead, arcs, need_init, samplers, ticking, interruptible, nested, begun, ended>>
  BY DEF NewFunction, Goes, samplerVars, historyVars
<1>3. e \in FnEntries /\ topFrame.self \in Functions
  BY <1>1 DEF FnEntries, McountFrames
<1>4. /\ fns' \in Seq(FnEntries) /\ Len(fns') = Len(fns) + 1 /\ Len(fns) \in Nat /\ fns'[Len(fns')] = e
      /\ \A f \in 1 .. Len(fns) : fns'[f] = fns[f]
  BY <1>1, <1>2, <1>3, StackPushed
<1>5. /\ r \in McountFrames /\ PairOf(r) = PairOf(topFrame) /\ r.entry = Len(fns')
      /\ r.self = topFrame.self /\ r.next = fnHead /\ r.pc = "linkFunction"
  <2>1. Len(fns') \in Nat /\ "linkFunction" \in ClosedPcs
    BY <1>4 DEF ClosedPcs
  <2>. HIDE DEF ClosedPcs
  <2>. QED BY <1>1, <2>1 DEF McountFrames, PairOf
<1>. HIDE DEF r, e
<1>6. levels' \in Seq(McountFrames) /\ topFrame' = r /\ levels' # << >>
  BY <1>1, <1>2, <1>5, McountGoes DEF ProfileInv
<1>7. ProfileTypeOK /\ ArcsApart
  BY DEF ProfileInv
<1>8. ToSet(e.arcs) = {}
  BY ListEmpty DEF e
<1>9. ProfileTypeOK'
  <2>1. ToSet(fnHead') \subseteq 1 .. Len(fns')
    BY <1>2, <1>4, <1>7 DEF ProfileTypeOK
  <2>2. ASSUME NEW f \in 1 .. Len(fns') PROVE ToSet(fns'[f].arcs) \subseteq 1 .. Len(arcs')
    <3>1. CASE f \in 1 .. Len(fns)
      BY <3>1, <1>2, <1>4, <1>7 DEF ProfileTypeOK
    <3>2. CASE f = Len(fns')
      BY <3>2, <1>4, <1>8
    <3>. QED BY <1>4, <3>1, <3>2
  <2>. QED BY <1>2, <1>4, <1>6, <1>7, <2>1, <2>2 DEF ProfileTypeOK
<1>10. ArcsApart'
  <2>. SUFFICES ASSUME NEW f \in 1 .. Len(fns'), NEW g \in 1 .. Len(fns'), NEW i \in Nat,
                       i \in ToSet(fns'[f].arcs), i \in ToSet(fns'[g].arcs)
                PROVE  f = g
    BY DEF ArcsApart
  <2>1. f # Len(fns') /\ g # Len(fns')
    BY <1>4, <1>8
  <2>2. f \in 1 .. Len(fns) /\ g \in 1 .. Len(fns)
    BY <1>4, <2>1
  <2>. QED BY <1>4, <1>7, <2>2 DEF ArcsApart
<1>11. TablesGrow
  BY <1>2, <1>4, <1>7 DEF TablesGrow, ProfileTypeOK
<1>12. \A pair \in Pairs : ArcsOf(pair)' = ArcsOf(pair)
  <2>1. \A f \in ToSet(fnHead) : fns'[f] = fns[f]
    BY <1>4, <1>7 DEF ProfileTypeOK
  <2>. QED BY <1>2, <2>1 DEF ArcsOf
<1>13. McountRight(topFrame)'
  <2>1. r.entry \in 1 .. Len(fns') /\ fns'[r.entry] = [self |-> r.self, arcs |-> << >>]
    BY <1>4, <1>5 DEF e
  <2>. QED BY <1>2, <1>5, <1>6, <2>1 DEF McountRight
<1>14. SamplerOnce'
  BY <1>1, <1>2, <1>5, <1>6 DEF SamplerOnce, At
<1>15. ~interruptible'
  BY <1>1, <1>2, ProfileTop DEF ClosedPcs
<1>16. topFrame.pc # "enable" /\ r.pc # "enable" /\ r.pc # "store"
  BY <1>1, <1>5
<1>. QED BY <1>1, <1>2, <1>5, <1>9, <1>10, <1>11, <1>12, <1>13, <1>14, <1>15, <1>16, ProfileGoesOn

LEMMA LinkFunctionKept == ProfileInv /\ LinkFunction => ProfileInv'
<1>. SUFFICES ASSUME ProfileInv, LinkFunction PROVE ProfileInv'
  OBVIOUS
<1>. DEFINE r == [topFrame EXCEPT !.pc = "newArc"]
<1>1. /\ levels # << >> /\ topFrame.pc = "linkFunction" /\ topFrame \in McountFrames
      /\ McountRight(topFrame) /\ fnHead \in Seq(Nat) /\ fns \in Seq(FnEntries)
      /\ SamplerOnce
  BY ProfileAt DEF LinkFunction
<1>2. levels' = Front(levels) \o <<r>> /\ fnHead' = <<topFrame.entry>> \o topFrame.next
      /\ UNCHANGED <<fns, arcs, need_init, samplers, ticking, interruptible, nested, begun, ended>>
  BY DEF LinkFunction, Goes, samplerVars, historyVars
<1>3. /\ topFrame.entry \in 1 .. Len(fns) /\ topFrame.next = fnHead
      /\ fns[topFrame.entry] = [self |-> topFrame.self, arcs |-> << >>]
  BY <1>1 DEF McountRight
<1>4. fnHead' \in Seq(Nat) /\ ToSet(fnHead') = {topFrame.entry} \cup ToSet(fnHead)
  <2>1. topFrame.entry \in Nat
    BY <1>1 DEF McountFrames
  <2>. QED BY <1>1, <1>2, <1>3, <2>1, ListLonger
<1>5. /\ r \in McountFrames /\ PairOf(r) = PairOf(topFrame) /\ r.entry = topFrame.entry
      /\ r.self = topFrame.self /\ r.pc = "newArc"
  BY <1>1 DEF McountFrames, ClosedPcs, PairOf
<1>. HIDE DEF r
<1>6. levels' \in Seq(McountFrames) /\ topFrame' = r /\ levels' # << >>
  BY <1>1, <1>2, <1>5, McountGoes DEF ProfileInv
<1>7. ProfileTypeOK /\ ArcsApart
  BY DEF ProfileInv
<1>8. ProfileTypeOK'
  <2>1. ToSet(fnHead') \subseteq 1 .. Len(fns')
    BY <1>2, <1>3, <1>4, <1>7 DEF ProfileTypeOK
  <2>. QED BY <1>2, <1>4, <1>6, <1>7, <2>1 DEF ProfileTypeOK
<1>9. ArcsApart'
  BY <1>2, <1>7 DEF ArcsApart
<1>10. TablesGrow
  <2>1. Len(fns) \in Nat /\ Len(arcs) \in Nat
    BY <1>7 DEF ProfileTypeOK
  <2>. QED BY <1>2, <1>4, <2>1, SMTT(20) DEF TablesGrow
<1>11. \A pair \in Pairs : ArcsOf(pair)' = ArcsOf(pair)
  <2>1. \A i : i \notin ToSet(fns[topFrame.entry].arcs)
    BY <1>3, ListEmpty
  <2>. QED BY <1>2, <1>4, <2>1 DEF ArcsOf
<1>12. McountRight(topFrame)'
  <2>1. r.entry \in ToSet(fnHead') /\ fns'[r.entry].self = r.self
    BY <1>2, <1>3, <1>4, <1>5
  <2>. QED BY <1>5, <1>6, <2>1 DEF McountRight, Entered
<1>13. SamplerOnce'
  BY <1>1, <1>2, <1>5, <1>6 DEF SamplerOnce, At
<1>14. ~interruptible'
  BY <1>1, <1>2, ProfileTop DEF ClosedPcs
<1>15. topFrame.pc # "enable" /\ r.pc # "enable" /\ r.pc # "store"
  BY <1>1, <1>5
<1>16. \A i \in 1 .. Len(arcs) : arcs'[i].count = arcs[i].count
  BY <1>2
<1>. QED BY <1>1, <1>2, <1>5, <1>8, <1>9, <1>10, <1>11, <1>12, <1>13, <1>14, <1>15, <1>16, ProfileGoesOn

LEMMA NewArcKept == ProfileInv /\ NewArc => ProfileInv'
<1>. SUFFICES ASSUME ProfileInv, NewArc PROVE ProfileInv'
  OBVIOUS
<1>. DEFINE e == [from |-> topFrame.from, count |-> 1]
            r == [[topFrame EXCEPT !.arc = Len(arcs'), !.next = fns[topFrame.entry].arcs] EXCEPT !.pc = "linkArc"]
<1>1. /\ levels # << >> /\ topFrame.pc = "newArc" /\ topFrame \in McountFrames
      /\ McountRight(topFrame) /\ fns \in Seq(FnEntries) /\ arcs \in Seq(ArcRecords)
      /\ SamplerOnce
  BY ProfileAt DEF NewArc
<1>2. levels' = Front(levels) \o <<r>> /\ arcs' = Append(arcs, e)
      /\ UNCHANGED <<fnHead, fns, need_init, samplers, ticking, interruptible, nested, begun, ended>>
  BY DEF NewArc, Goes, samplerVars, historyVars
<1>3. e \in ArcRecords
  BY <1>1 DEF ArcRecords, McountFrames
<1>4. /\ arcs' \in Seq(ArcRecords) /\ Len(arcs') = Len(arcs) + 1 /\ Len(arcs) \in Nat /\ arcs'[Len(arcs')] = e
      /\ \A i \in 1 .. Len(arcs) : arcs'[i] = arcs[i]
  BY <1>1, <1>2, <1>3, StackPushed
<1>5. Entered(topFrame) /\ topFrame.entry \in 1 .. Len(fns)
  BY <1>1 DEF McountRight, Entered, ProfileInv, ProfileTypeOK
<1>6. fns[topFrame.entry].arcs \in Seq(Nat)
  <2>1. fns[topFrame.entry] \in FnEntries
    BY <1>1, <1>5
  <2>. QED BY <2>1 DEF FnEntries
<1>7. /\ r \in McountFrames /\ PairOf(r) = PairOf(topFrame) /\ r.entry = topFrame.entry
      /\ r.self = topFrame.self /\ r.from = topFrame.from /\ r.arc = Len(arcs')
      /\ r.next = fns[topFrame.entry].arcs /\ r.pc = "linkArc"
  <2>1. Len(arcs') \in Nat /\ "linkArc" \in ClosedPcs
    BY <1>4 DEF ClosedPcs
  <2>. HIDE DEF ClosedPcs
  <2>. QED BY <1>1, <1>6, <2>1 DEF McountFrames, PairOf
<1>. HIDE DEF r, e
<1>8. levels' \in Seq(McountFrames) /\ topFrame' = r /\ levels' # << >>
  BY <1>1, <1>2, <1>7, McountGoes DEF ProfileInv
<1>9. ProfileTypeOK /\ ArcsApart
  BY DEF ProfileInv
<1>10. \A f \in 1 .. Len(fns) : ToSet(fns[f].arcs) \subseteq 1 .. Len(arcs)
  BY <1>9 DEF ProfileTypeOK
<1>11. ProfileTypeOK'
  <2>1. \A f \in 1 .. Len(fns') : ToSet(fns'[f].arcs) \subseteq 1 .. Len(arcs')
    <3>1. 1 .. Len(arcs) \subseteq 1 .. Len(arcs')
      BY <1>4
    <3>. QED BY <1>2, <1>10, <3>1
  <2>. QED BY <1>2, <1>4, <1>8, <1>9, <2>1 DEF ProfileTypeOK
<1>12. ArcsApart'
  BY <1>2, <1>9 DEF ArcsApart
<1>13. TablesGrow
  BY <1>2, <1>4, <1>9 DEF TablesGrow, ProfileTypeOK
<1>14. ASSUME NEW pair \in Pairs PROVE ArcsOf(pair)' = ArcsOf(pair)
  <2>1. \A f \in ToSet(fnHead) : f \in 1 .. Len(fns)
    BY <1>9 DEF ProfileTypeOK
  <2>2. ASSUME NEW i \in ArcsOf(pair)' PROVE i \in ArcsOf(pair)
    <3>1. i \in 1 .. Len(arcs') /\ arcs'[i].from = pair[2]
      BY DEF ArcsOf
    <3>2. PICK f \in ToSet(fnHead) : fns[f].self = pair[1] /\ i \in ToSet(fns[f].arcs)
      BY <1>2 DEF ArcsOf
    <3>3. i \in 1 .. Len(arcs)
      BY <1>10, <2>1, <3>2
    <3>. QED BY <1>4, <3>1, <3>2, <3>3 DEF ArcsOf
  <2>3. ASSUME NEW i \in ArcsOf(pair) PROVE i \in ArcsOf(pair)'
    BY <1>9, <1>11, <1>13, ArcsStay
  <2>. QED BY <2>2, <2>3
<1>15. McountRight(topFrame)'
  <2>1. r.entry \in ToSet(fnHead') /\ fns'[r.entry].self = r.self
    BY <1>2, <1>5, <1>7 DEF Entered
  <2>2. r.arc \in 1 .. Len(arcs') /\ arcs'[r.arc] = [from |-> r.from, count |-> 1]
    BY <1>4, <1>7 DEF e
  <2>3. \A f \in 1 .. Len(fns') : r.arc \notin ToSet(fns'[f].arcs)
    BY <1>2, <1>4, <1>7, <1>10
  <2>4. r.next = fns'[r.entry].arcs
    BY <1>2, <1>7
  <2>. QED BY <1>7, <1>8, <2>1, <2>2, <2>3, <2>4 DEF McountRight, Entered
<1>16. SamplerOnce'
  BY <1>1, <1>2, <1>7, <1>8 DEF SamplerOnce, At
<1>17. ~interruptible'
  BY <1>1, <1>2, ProfileTop DEF ClosedPcs
<1>18. topFrame.pc # "enable" /\ r.pc # "enable" /\ r.pc # "store"
  BY <1>1, <1>7
<1>19. \A i \in 1 .. Len(arcs) : arcs'[i].count = arcs[i].count
  BY <1>4
<1>. QED BY <1>1, <1>2, <1>7, <1>11, <1>12, <1>13, <1>14, <1>15, <1>16, <1>17, <1>18, <1>19, ProfileGoesOn

\* The calls in progress, as a finite set.
LEMMA UncountedFinite ==
  ASSUME ProfileTypeOK, NEW pair
  PROVE  /\ IsFiniteSet(Uncounted(pair)) /\ Cardinality(Uncounted(pair)) \in Nat
         /\ Uncounted(pair) \subseteq 1 .. Len(levels)
<1>1. Len(levels) \in Nat
  BY DEF ProfileTypeOK
<1>2. Uncounted(pair) \in SUBSET (1 .. Len(levels))
  BY DEF Uncounted
<1>3. IsFiniteSet(1 .. Len(levels))
  BY <1>1, FS_Interval
<1>4. IsFiniteSet(Uncounted(pair))
  BY <1>2, <1>3, FS_Subset
<1>. QED BY <1>2, <1>4, FS_CardinalityType

LEMMA UncountedLess ==
  ASSUME ProfileTypeOK, NEW pair, NEW n, Uncounted(pair)' = Uncounted(pair) \ {n}
  PROVE  Cardinality(Uncounted(pair)') = Cardinality(Uncounted(pair)) - (IF n \in Uncounted(pair) THEN 1 ELSE 0)
<1>1. IsFiniteSet(Uncounted(pair)) /\ Cardinality(Uncounted(pair)) \in Nat
  BY UncountedFinite
<1>. DEFINE U == Uncounted(pair)
<1>. HIDE DEF U
<1>2. IsFiniteSet(U) /\ Cardinality(U) \in Nat
  BY <1>1 DEF U
<1>3. Cardinality(U \ {n}) = IF n \in U THEN Cardinality(U) - 1 ELSE Cardinality(U)
  BY <1>2, FS_RemoveElement
<1>4. Cardinality(U \ {n}) = Cardinality(U) - (IF n \in U THEN 1 ELSE 0)
  <2>1. CASE n \in U
    BY <2>1, <1>2, <1>3
  <2>2. CASE n \notin U
    BY <2>2, <1>2, <1>3
  <2>. QED BY <2>1, <2>2
<1>. QED BY <1>4 DEF U

\* An arc belongs to one pair.
LEMMA ArcOfOnePair ==
  ASSUME ProfileInv, NEW p \in Pairs, NEW q \in Pairs, NEW i, i \in ArcsOf(p), i \in ArcsOf(q)
  PROVE  p = q
<1>1. p[2] = q[2] /\ i \in Nat
  BY DEF ArcsOf
<1>2. PICK f \in ToSet(fnHead) : fns[f].self = p[1] /\ i \in ToSet(fns[f].arcs)
  BY DEF ArcsOf
<1>3. PICK g \in ToSet(fnHead) : fns[g].self = q[1] /\ i \in ToSet(fns[g].arcs)
  BY DEF ArcsOf
<1>4. f \in 1 .. Len(fns) /\ g \in 1 .. Len(fns)
  BY DEF ProfileInv, ProfileTypeOK
<1>5. f = g
  BY <1>1, <1>2, <1>3, <1>4 DEF ProfileInv, ArcsApart
<1>. QED BY <1>1, <1>2, <1>3, <1>5 DEF Pairs

LEMMA LinkArcKept == ProfileInv /\ LinkArc => ProfileInv'
<1>. SUFFICES ASSUME ProfileInv, LinkArc PROVE ProfileInv'
  OBVIOUS
<1>. DEFINE n == Len(levels)
            e == topFrame.entry
            a == topFrame.arc
            own == PairOf(topFrame)
            list == <<a>> \o topFrame.next
            r == [topFrame EXCEPT !.pc = "enable"]
<1>1. /\ levels # << >> /\ topFrame.pc = "linkArc" /\ topFrame \in McountFrames
      /\ McountRight(topFrame) /\ fns \in Seq(FnEntries) /\ arcs \in Seq(ArcRecords)
      /\ SamplerOnce
  BY ProfileAt DEF LinkArc
<1>2. levels' = Front(levels) \o <<r>> /\ fns' = [fns EXCEPT ![e].arcs = list]
      /\ UNCHANGED <<fnHead, arcs, need_init, samplers, ticking, interruptible, nested, begun, ended>>
  BY DEF LinkArc, Goes, samplerVars, historyVars
<1>3. /\ Entered(topFrame) /\ a \in 1 .. Len(arcs) /\ a \in Nat
      /\ arcs[a] = [from |-> topFrame.from, count |-> 1]
      /\ \A f \in 1 .. Len(fns) : a \notin ToSet(fns[f].arcs)
      /\ topFrame.next = fns[e].arcs
  BY <1>1 DEF McountRight, McountFrames
<1>4. e \in ToSet(fnHead) /\ e \in 1 .. Len(fns) /\ fns[e].self = topFrame.self
  BY <1>3 DEF Entered, ProfileInv, ProfileTypeOK
<1>5. topFrame.next \in Seq(Nat)
  BY <1>1 DEF McountFrames
<1>6. list \in Seq(Nat) /\ ToSet(list) = {a} \cup ToSet(fns[e].arcs)
  BY <1>3, <1>5, ListLonger
<1>7. /\ r \in McountFrames /\ PairOf(r) = own /\ r.arc = a /\ r.pc = "enable"
      /\ own \in Pairs /\ own[1] = topFrame.self /\ own[2] = topFrame.from
  BY <1>1 DEF McountFrames, ClosedPcs, PairOf, Pairs
<1>. HIDE DEF r, list
<1>8. /\ levels' \in Seq(McountFrames) /\ Len(levels') = n /\ levels' # << >>
      /\ n \in Nat \ {0} /\ topFrame = levels[n] /\ levels'[n] = r /\ topFrame' = r
      /\ \A k \in 1 .. n : k # n => levels'[k] = levels[k]
  BY <1>1, <1>2, <1>7, McountGoes DEF ProfileInv
<1>9. ProfileTypeOK /\ ArcsApart
  BY DEF ProfileInv
<1>10. /\ fns' \in Seq(FnEntries) /\ Len(fns') = Len(fns) /\ Len(fns) \in Nat
       /\ fns'[e].self = fns[e].self /\ fns'[e].arcs = list
       /\ \A f \in 1 .. Len(fns) : f # e => fns'[f] = fns[f]
  <2>1. fns[e] \in FnEntries /\ [fns[e] EXCEPT !.arcs = list] \in FnEntries
    <3>. HIDE DEF e
    <3>1. fns[e] \in FnEntries
      BY <1>1, <1>4
    <3>. QED BY <3>1, <1>6 DEF FnEntries
  <2>2. fns' = [fns EXCEPT ![e] = [fns[e] EXCEPT !.arcs = list]]
    BY <1>2, <1>4
  <2>3. [fns[e] EXCEPT !.arcs = list].arcs = list /\ [fns[e] EXCEPT !.arcs = list].self = fns[e].self
    BY <2>1 DEF FnEntries
  <2>. DEFINE d == [fns[e] EXCEPT !.arcs = list]
  <2>. HIDE DEF d
  <2>4. fns' = [fns EXCEPT ![e] = d] /\ d \in FnEntries
    BY <2>1, <2>2 DEF d
  <2>5. fns' \in Seq(FnEntries) /\ Len(fns') = Len(fns) /\ fns'[e] = d
        /\ \A f \in 1 .. Len(fns) : f # e => fns'[f] = fns[f]
    BY <1>1, <1>4, <2>4
  <2>. QED BY <1>1, <2>3, <2>5 DEF d
<1>11. /\ \A f \in 1 .. Len(fns) : ToSet(fns'[f].arcs) = IF f = e THEN {a} \cup ToSet(fns[f].arcs)
                                                           ELSE ToSet(fns[f].arcs)
       /\ \A f \in 1 .. Len(fns) : fns'[f].self = fns[f].self
  BY <1>6, <1>10
<1>12. ProfileTypeOK'
  <2>1. \A f \in 1 .. Len(fns') : ToSet(fns'[f].arcs) \subseteq 1 .. Len(arcs')
    <3>. SUFFICES ASSUME NEW f \in 1 .. Len(fns) PROVE ToSet(fns'[f].arcs) \subseteq 1 .. Len(arcs)
      BY <1>2, <1>10
    <3>1. ToSet(fns[f].arcs) \subseteq 1 .. Len(arcs)
      BY <1>9 DEF ProfileTypeOK
    <3>2. ToSet(fns'[f].arcs) \subseteq {a} \cup ToSet(fns[f].arcs)
      BY <1>11
    <3>. QED BY <1>3, <3>1, <3>2
  <2>. QED BY <1>2, <1>8, <1>9, <1>10, <2>1 DEF ProfileTypeOK
<1>13. ArcsApart'
  <2>. SUFFICES ASSUME NEW f \in 1 .. Len(fns), NEW g \in 1 .. Len(fns), NEW i \in Nat,
                       i \in ToSet(fns'[f].arcs), i \in ToSet(fns'[g].arcs)
                PROVE  f = g
    BY <1>10 DEF ArcsApart
  <2>1. CASE i = a
    BY <1>3, <1>11, <2>1
  <2>2. CASE i # a
    <3>1. i \in ToSet(fns[f].arcs) /\ i \in ToSet(fns[g].arcs)
      BY <1>11, <2>2
    <3>. QED BY <3>1, <1>9 DEF ArcsApart
  <2>. QED BY <2>1, <2>2
<1>14. TablesGrow
  <2>1. Len(fns) <= Len(fns') /\ Len(arcs) <= Len(arcs')
    BY <1>2, <1>9, <1>10 DEF ProfileTypeOK
  <2>2. ASSUME NEW f \in 1 .. Len(fns) PROVE ToSet(fns[f].arcs) \subseteq ToSet(fns'[f].arcs)
    BY <1>11
  <2>3. ToSet(fnHead) \subseteq ToSet(fnHead') /\ \A i \in 1 .. Len(arcs) : arcs'[i].from = arcs[i].from
    BY <1>2
  <2>. QED BY <1>11, <2>1, <2>2, <2>3 DEF TablesGrow
<1>15. ASSUME NEW pair \in Pairs
       PROVE  ArcsOf(pair)' = IF pair = own THEN ArcsOf(pair) \cup {a} ELSE ArcsOf(pair)
  <2>1. \A f \in ToSet(fnHead) : f \in 1 .. Len(fns)
    BY <1>9 DEF ProfileTypeOK
  <2>2. ASSUME NEW i \in ArcsOf(pair)', i \notin ArcsOf(pair) PROVE i = a /\ pair = own
    <3>1. i \in 1 .. Len(arcs) /\ arcs[i].from = pair[2]
      BY <1>2 DEF ArcsOf
    <3>2. PICK f \in ToSet(fnHead) : fns[f].self = pair[1] /\ i \in ToSet(fns'[f].arcs)
      BY <1>2, <1>11, <2>1 DEF ArcsOf
    <3>3. i \notin ToSet(fns[f].arcs)
      BY <2>2, <3>1, <3>2 DEF ArcsOf
    <3>4. f = e /\ i = a
      BY <1>11, <2>1, <3>2, <3>3
    <3>. QED BY <1>3, <1>4, <1>7, <3>1, <3>2, <3>4 DEF Pairs
  <2>3. ArcsOf(pair) \subseteq ArcsOf(pair)'
    BY <1>9, <1>12, <1>14, ArcsStay
  <2>4. ASSUME pair = own PROVE a \in ArcsOf(pair)'
    <3>1. arcs'[a].from = pair[2] /\ a \in 1 .. Len(arcs')
      <4>1. pair[2] = topFrame.from /\ arcs' = arcs
        BY <1>2, <1>7, <2>4
      <4>. QED BY <1>3, <4>1
    <3>2. e \in ToSet(fnHead') /\ fns'[e].self = pair[1] /\ a \in ToSet(fns'[e].arcs)
      <4>1. pair[1] = topFrame.self /\ fnHead' = fnHead
        BY <1>2, <1>7, <2>4
      <4>2. a \in ToSet(list) /\ fns'[e].arcs = list /\ fns'[e].self = fns[e].self
        BY <1>6, <1>10
      <4>. QED BY <1>4, <4>1, <4>2
    <3>. QED BY <3>1, <3>2 DEF ArcsOf
  <2>5. CASE pair = own
    BY <2>2, <2>3, <2>4, <2>5
  <2>6. CASE pair # own
    BY <2>2, <2>3, <2>6
  <2>. QED BY <2>5, <2>6
<1>. HIDE DEF own, a, e
<1>16. a \notin ArcsOf(own)
  <2>1. \A f \in ToSet(fnHead) : f \in 1 .. Len(fns)
    BY <1>9 DEF ProfileTypeOK
  <2>. QED BY <1>3, <2>1 DEF ArcsOf
<1>17. \A pair \in Pairs : /\ pair = own => Counted(pair)' = Counted(pair) + 1
                           /\ pair # own => Counted(pair)' = Counted(pair)
  <2>1. arcs' = arcs /\ arcs[a].count = 1
    BY <1>2, <1>3
  <2>2. ASSUME NEW pair \in Pairs, pair = own PROVE Counted(pair)' = Counted(pair) + arcs'[a].count
    <3>1. a \notin ArcsOf(pair) /\ ArcsOf(pair)' = ArcsOf(pair) \cup {a}
      BY <1>15, <1>16, <2>2
    <3>2. \A i \in ArcsOf(pair) : arcs'[i].count = arcs[i].count
      BY <2>1
    <3>. QED BY <1>9, <1>12, <3>1, <3>2, CountedMore
  <2>3. ASSUME NEW pair \in Pairs, pair # own PROVE Counted(pair)' = Counted(pair)
    <3>1. ArcsOf(pair)' = ArcsOf(pair)
      BY <1>15, <2>3
    <3>2. \A i \in ArcsOf(pair) : arcs'[i].count = arcs[i].count
      BY <2>1
    <3>. QED BY <1>9, <1>12, <3>1, <3>2, CountedStays
  <2>. QED BY <1>7, <2>1, <2>2, <2>3
<1>18. ASSUME NEW pair \in Pairs
       PROVE  /\ Uncounted(pair)' = Uncounted(pair) \ {n}
              /\ n \in Uncounted(pair) <=> pair = own
  <2>1. n \in Uncounted(pair) <=> pair = own
    BY <1>1, <1>8 DEF Uncounted, own
  <2>2. n \notin Uncounted(pair)'
    BY <1>7, <1>8 DEF Uncounted
  <2>3. ASSUME NEW k \in 1 .. n, k # n PROVE k \in Uncounted(pair)' <=> k \in Uncounted(pair)
    BY <1>8, <2>3 DEF Uncounted, PairOf
  <2>4. Uncounted(pair) \subseteq 1 .. n /\ Uncounted(pair)' \subseteq 1 .. n
    BY <1>8 DEF Uncounted
  <2>. HIDE DEF n
  <2>. QED BY <2>1, <2>2, <2>3, <2>4
<1>19. CallsKept'
  <2>1. ASSUME NEW pair \in Pairs
        PROVE  /\ Counted(pair)' + Cardinality(Uncounted(pair)') <= begun'[pair]
               /\ ended'[pair] > 0 => ArcsOf(pair)' # {}
    <3>. DEFINE m == Cardinality(Uncounted(pair))
                m1 == Cardinality(Uncounted(pair)')
                c == Counted(pair)
                c1 == Counted(pair)'
                b == begun[pair]
    <3>1. c + m <= b /\ c \in Nat /\ m \in Nat /\ b \in Nat
      BY <1>9, CountedIs, UncountedFinite DEF ProfileInv, CallsKept, ProfileTypeOK
    <3>2. m1 = m - (IF pair = own THEN 1 ELSE 0)
      <4>. HIDE DEF n
      <4>1. Uncounted(pair)' = Uncounted(pair) \ {n} /\ (n \in Uncounted(pair) <=> pair = own)
        BY <1>18
      <4>2. m1 = m - (IF n \in Uncounted(pair) THEN 1 ELSE 0)
        BY <1>9, <4>1, UncountedLess
      <4>. QED BY <4>1, <4>2
    <3>3. c1 = c + (IF pair = own THEN 1 ELSE 0)
      BY <1>17, <3>1
    <3>4. c1 + m1 <= b
      <4>. HIDE DEF c, m, b, c1, m1
      <4>. QED BY <3>1, <3>2, <3>3
    <3>5. ended[pair] > 0 => ArcsOf(pair)' # {}
      BY <1>15 DEF ProfileInv, CallsKept
    <3>. QED BY <1>2, <3>4, <3>5
  <2>. QED BY <2>1 DEF CallsKept
<1>20. CallsExact'
  <2>. SUFFICES ASSUME ~nested
                PROVE  /\ Len(levels') <= 1
                       /\ \A pair \in Pairs :
                            Counted(pair)' = ended[pair] + (IF At("enable")' /\ PairOf(topFrame)' = pair THEN 1 ELSE 0)
    BY <1>2 DEF CallsExact
  <2>1. ~At("enable") /\ At("enable")' /\ PairOf(topFrame)' = own
    BY <1>1, <1>7, <1>8 DEF At, PairOf
  <2>2. Len(levels) <= 1 /\ \A pair \in Pairs : Counted(pair) = ended[pair] + 0
    BY <2>1 DEF ProfileInv, CallsExact
  <2>3. \A pair \in Pairs : ended[pair] \in Nat
    BY <1>9 DEF ProfileTypeOK
  <2>. QED BY <1>8, <1>17, <2>1, <2>2, <2>3
<1>21. SamplerOnce'
  BY <1>1, <1>2, <1>7, <1>8 DEF SamplerOnce, At
<1>22. McountRight(topFrame)'
  <2>2. \A pair \in Pairs : pair = own => r.arc \in ArcsOf(pair)'
    BY <1>7, <1>15
  <2>3. topFrame'.arc \in ArcsOf(PairOf(topFrame))'
    BY <1>7, <1>8, <2>2 DEF PairOf
  <2>. QED BY <1>7, <1>8, <2>3 DEF McountRight
<1>23. McountStacked' /\ McountsRight' /\ LoadedInOrder'
  <2>1. ~interruptible' /\ \A i \in 1 .. Len(arcs) : arcs'[i].count = arcs[i].count
    BY <1>1, <1>2, ProfileTop DEF ClosedPcs
  <2>. QED BY <1>1, <1>2, <1>7, <1>12, <1>14, <1>22, <2>1, InnermostChanges
<1>. QED BY <1>12, <1>13, <1>19, <1>20, <1>21, <1>23 DEF ProfileInv

\* The innermost mcount ends, and the ones that it interrupted go on.
LEMMA McountEnds ==
  ASSUME ProfileInv, ProfileTypeOK', levels # << >>, levels' = Front(levels), TablesGrow,
         \A k \in 1 .. Len(levels) - 1 :
           levels[k].pc = "store" => levels[k].count <= arcs'[levels[k].arc].count,
         UNCHANGED <<nested, need_init, samplers>>
  PROVE  /\ McountStacked' /\ McountsRight' /\ LoadedInOrder' /\ SamplerOnce'
         /\ \A pair : Uncounted(pair)' = Uncounted(pair) \ {Len(levels)}
         /\ ~nested => levels' = << >>
<1>. DEFINE n == Len(levels)
<1>1. /\ levels' \in Seq(McountFrames) /\ Len(levels') = n - 1 /\ n \in Nat \ {0}
      /\ \A k \in 1 .. n - 1 : levels'[k] = levels[k]
  BY McountReturns DEF ProfileInv
<1>. HIDE DEF n
<1>2. \A k \in 1 .. n - 1 : k \in 1 .. n /\ k # n
  BY <1>1
<1>3. \A k \in 1 .. n - 1 : levels[k].pc \notin ClosedPcs
  BY <1>2 DEF ProfileInv, McountStacked, n
<1>4. McountStacked'
  BY <1>1, <1>3 DEF McountStacked
<1>5. ~nested => n <= 1
  BY DEF ProfileInv, CallsExact, n
<1>6. McountsRight'
  <2>1. ASSUME NEW k \in 1 .. n - 1 PROVE McountRight(levels[k])'
    <3>1. levels[k].pc = "store" => levels[k].count <= arcs'[levels[k].arc].count
      BY DEF n
    <3>2. nested'
      BY <1>1, <1>5
    <3>3. k \in 1 .. Len(levels) /\ levels[k].pc \notin ClosedPcs /\ levels'[k] = levels[k]
      BY <1>1, <1>2, <1>3 DEF n
    <3>. QED BY <3>1, <3>2, <3>3, OuterMcount
  <2>. QED BY <1>1, <2>1 DEF McountsRight
<1>7. LoadedInOrder'
  <2>. SUFFICES ASSUME NEW j \in 1 .. n - 1, NEW k \in 1 .. n - 1, j < k,
                       levels'[j].pc = "store", levels'[k].pc = "store",
                       levels'[j].arc = levels'[k].arc
                PROVE  levels'[j].count <= levels'[k].count
    BY <1>1 DEF LoadedInOrder
  <2>1. levels'[j] = levels[j] /\ levels'[k] = levels[k] /\ j \in 1 .. n /\ k \in 1 .. n
    BY <1>1, <1>2
  <2>. QED BY <2>1 DEF ProfileInv, LoadedInOrder, n
<1>8. ~nested => levels' = << >>
  BY <1>1, <1>5
<1>9. SamplerOnce'
  BY <1>8 DEF ProfileInv, SamplerOnce, At
<1>10. ASSUME NEW pair PROVE Uncounted(pair)' = Uncounted(pair) \ {n}
  <2>1. Uncounted(pair) \subseteq 1 .. n /\ Uncounted(pair)' \subseteq 1 .. n - 1
    BY <1>1 DEF Uncounted, n
  <2>2. ASSUME NEW k \in 1 .. n - 1 PROVE k \in Uncounted(pair)' <=> k \in Uncounted(pair)
    <3>1. k \in 1 .. Len(levels) /\ k \in 1 .. Len(levels') /\ levels'[k] = levels[k]
      BY <1>1, <1>2 DEF n
    <3>. QED BY <3>1 DEF Uncounted, PairOf
  <2>3. \A k \in 1 .. n : k # n => k \in 1 .. n - 1
    BY <1>1
  <2>4. n \notin 1 .. n - 1
    BY <1>1
  <2>. QED BY <2>1, <2>2, <2>3, <2>4
<1>. QED BY <1>4, <1>6, <1>7, <1>8, <1>9, <1>10 DEF n

LEMMA StoreCountKept == ProfileInv /\ StoreCount => ProfileInv'
<1>. SUFFICES ASSUME ProfileInv, StoreCount PROVE ProfileInv'
  OBVIOUS
<1>. DEFINE n == Len(levels)
            a == topFrame.arc
            t == topFrame.count
            own == PairOf(topFrame)
<1>1. /\ levels # << >> /\ topFrame.pc = "store" /\ topFrame \in McountFrames
      /\ McountRight(topFrame) /\ arcs \in Seq(ArcRecords) /\ interruptible \in BOOLEAN
  BY ProfileAt DEF StoreCount
<1>2. /\ arcs' = [arcs EXCEPT ![a].count = t + 1] /\ levels' = Front(levels)
      /\ ended' = [ended EXCEPT ![own] = ended[own] + 1]
      /\ interruptible' = (interruptible \/ topFrame.handler)
      /\ UNCHANGED <<fnHead, fns, need_init, samplers, ticking, nested, begun>>
  BY DEF StoreCount, Returns, samplerVars, historyVars, PairOf
<1>3. /\ a \in ArcsOf(own) /\ t <= arcs[a].count /\ (~nested => t = arcs[a].count)
  BY <1>1 DEF McountRight
<1>4. t \in Nat /\ own \in Pairs /\ topFrame.handler \in BOOLEAN
  BY <1>1 DEF McountFrames, PairOf, Pairs
<1>5. ProfileTypeOK /\ ArcsApart
  BY DEF ProfileInv
<1>6. a \in 1 .. Len(arcs) /\ arcs[a].count \in Nat
  BY <1>3, <1>5, ArcsAre
<1>7. /\ levels' \in Seq(McountFrames) /\ Len(levels') = n - 1 /\ n \in Nat \ {0}
      /\ topFrame = levels[n] /\ \A k \in 1 .. n - 1 : levels'[k] = levels[k]
  BY <1>1, <1>2, <1>5, McountReturns
<1>. HIDE DEF a, t, own
<1>8. /\ arcs' \in Seq(ArcRecords) /\ Len(arcs') = Len(arcs) /\ Len(arcs) \in Nat
      /\ arcs'[a].count = t + 1
      /\ \A i \in 1 .. Len(arcs) : i # a => arcs'[i] = arcs[i]
      /\ \A i \in 1 .. Len(arcs) : arcs'[i].from = arcs[i].from
  <2>. DEFINE d == [arcs[a] EXCEPT !.count = t + 1]
  <2>1. arcs[a] \in ArcRecords
    BY <1>1, <1>6
  <2>2. t + 1 \in Nat \ {0}
    BY <1>4
  <2>3. d \in ArcRecords /\ d.count = t + 1 /\ d.from = arcs[a].from
    BY <2>1, <2>2 DEF ArcRecords
  <2>4. arcs' = [arcs EXCEPT ![a] = d]
    BY <1>2, <1>6
  <2>. HIDE DEF d
  <2>5. arcs' \in Seq(ArcRecords) /\ Len(arcs') = Len(arcs) /\ arcs'[a] = d
        /\ \A i \in 1 .. Len(arcs) : i # a => arcs'[i] = arcs[i]
    BY <1>1, <1>6, <2>3, <2>4
  <2>. QED BY <1>1, <2>3, <2>5
<1>9. ended' \in [Pairs -> Nat] /\ ended'[own] = ended[own] + 1 /\ ended[own] \in Nat
      /\ \A pair \in Pairs : pair # own => ended'[pair] = ended[pair]
  BY <1>2, <1>4, <1>5 DEF ProfileTypeOK
<1>10. ProfileTypeOK'
  <2>1. interruptible' \in BOOLEAN
    BY <1>1, <1>2, <1>4
  <2>. QED BY <1>2, <1>5, <1>7, <1>8, <1>9, <2>1 DEF ProfileTypeOK
<1>11. ArcsApart'
  BY <1>2, <1>5 DEF ArcsApart
<1>12. TablesGrow
  <2>1. Len(fns) \in Nat
    BY <1>5 DEF ProfileTypeOK
  <2>. QED BY <1>2, <1>8, <2>1 DEF TablesGrow
<1>13. \A pair : ArcsOf(pair)' = ArcsOf(pair)
  BY <1>2, <1>8 DEF ArcsOf
<1>14. ASSUME NEW pair \in Pairs
       PROVE  Counted(pair)' = IF pair = own THEN (Counted(pair) - arcs[a].count) + (t + 1) ELSE Counted(pair)
  <2>1. ArcsOf(pair)' = ArcsOf(pair) /\ \A i \in ArcsOf(pair) : i # a => arcs'[i].count = arcs[i].count
    BY <1>5, <1>8, <1>13, ArcsAre
  <2>2. CASE pair = own
    <3>1. a \in ArcsOf(pair)
      BY <1>3, <2>2
    <3>2. Counted(pair)' = (Counted(pair) - arcs[a].count) + arcs'[a].count
      BY <1>5, <1>10, <2>1, <3>1, CountedAt
    <3>. QED BY <2>2, <3>2, <1>8
  <2>3. CASE pair # own
    <3>1. a \notin ArcsOf(pair)
      BY <1>3, <1>4, <2>3, ArcOfOnePair
    <3>2. \A i \in ArcsOf(pair) : arcs'[i].count = arcs[i].count
      BY <2>1, <3>1
    <3>. QED BY <1>5, <1>10, <2>1, <2>3, <3>2, CountedStays
  <2>. QED BY <2>2, <2>3
<1>15. ASSUME NEW k \in 1 .. n - 1, levels[k].pc = "store"
       PROVE  levels[k].count <= arcs'[levels[k].arc].count
  <2>1. k \in 1 .. n /\ n \in 1 .. n /\ k < n /\ levels[k] \in McountFrames
    BY <1>5, <1>7 DEF ProfileTypeOK
  <2>2. levels[k].count \in Nat
    BY <2>1 DEF McountFrames
  <2>3. CASE levels[k].arc = a
    <3>1. levels[k].count <= t
      BY <1>1, <1>7, <1>15, <2>1, <2>3 DEF ProfileInv, LoadedInOrder, a, t
    <3>. QED BY <2>2, <2>3, <3>1, <1>4, <1>8
  <2>4. CASE levels[k].arc # a
    <3>1. McountRight(levels[k])
      BY <2>1 DEF ProfileInv, McountsRight
    <3>2. levels[k].arc \in 1 .. Len(arcs) /\ levels[k].count <= arcs[levels[k].arc].count
      BY <1>5, <1>15, <3>1, ArcsAre DEF McountRight
    <3>. QED BY <1>8, <2>4, <3>2
  <2>. QED BY <2>3, <2>4
<1>16. /\ McountStacked' /\ McountsRight' /\ LoadedInOrder' /\ SamplerOnce'
       /\ \A pair : Uncounted(pair)' = Uncounted(pair) \ {n}
       /\ ~nested => levels' = << >>
  BY <1>1, <1>2, <1>10, <1>12, <1>15, McountEnds
<1>17. ASSUME NEW pair \in Pairs PROVE n \in Uncounted(pair) <=> pair = own
  BY <1>1, <1>7 DEF Uncounted, own
<1>18. CallsKept'
  <2>1. ASSUME NEW pair \in Pairs
        PROVE  /\ Counted(pair)' + Cardinality(Uncounted(pair)') <= begun'[pair]
               /\ ended'[pair] > 0 => ArcsOf(pair)' # {}
    <3>. DEFINE m == Cardinality(Uncounted(pair))
                m1 == Cardinality(Uncounted(pair)')
                c == Counted(pair)
                c1 == Counted(pair)'
                b == begun[pair]
                x == arcs[a].count
    <3>1. c + m <= b /\ c \in Nat /\ m \in Nat /\ b \in Nat
      BY <1>5, CountedIs, UncountedFinite DEF ProfileInv, CallsKept, ProfileTypeOK
    <3>2. m1 = m - (IF pair = own THEN 1 ELSE 0)
      <4>. HIDE DEF n
      <4>1. Uncounted(pair)' = Uncounted(pair) \ {n} /\ (n \in Uncounted(pair) <=> pair = own)
        BY <1>16, <1>17
      <4>2. m1 = m - (IF n \in Uncounted(pair) THEN 1 ELSE 0)
        BY <1>5, <4>1, UncountedLess
      <4>. QED BY <4>1, <4>2
    <3>3. c1 = (IF pair = own THEN (c - x) + (t + 1) ELSE c) /\ t <= x /\ x \in Nat
      BY <1>3, <1>6, <1>14
    <3>4. c1 + m1 <= b
      <4>. HIDE DEF c, m, b, c1, m1, x
      <4>1. CASE pair = own
        BY <4>1, <1>4, <3>1, <3>2, <3>3
      <4>2. CASE pair # own
        BY <4>2, <3>1, <3>2, <3>3
      <4>. QED BY <4>1, <4>2
    <3>5. ended'[pair] > 0 => ArcsOf(pair)' # {}
      <4>1. CASE pair = own
        BY <4>1, <1>3, <1>13
      <4>2. CASE pair # own
        BY <4>2, <1>9, <1>13 DEF ProfileInv, CallsKept
      <4>. QED BY <4>1, <4>2
    <3>. QED BY <1>2, <3>4, <3>5
  <2>. QED BY <2>1 DEF CallsKept
<1>19. CallsExact'
  <2>. SUFFICES ASSUME ~nested
                PROVE  /\ Len(levels') <= 1
                       /\ \A pair \in Pairs :
                            Counted(pair)' = ended'[pair] + (IF At("enable")' /\ PairOf(topFrame)' = pair THEN 1 ELSE 0)
    BY <1>2 DEF CallsExact
  <2>1. ~At("enable") /\ ~At("enable")' /\ Len(levels') <= 1
    BY <1>1, <1>16 DEF At
  <2>2. ASSUME NEW pair \in Pairs PROVE Counted(pair)' = ended'[pair] + 0
    <3>1. Counted(pair) = ended[pair] + 0 /\ ended[pair] \in Nat
      BY <1>5, <2>1 DEF ProfileInv, CallsExact, ProfileTypeOK
    <3>2. CASE pair = own
      BY <1>3, <1>4, <1>6, <1>9, <1>14, <3>1, <3>2
    <3>3. CASE pair # own
      BY <1>9, <1>14, <3>1, <3>3
    <3>. QED BY <3>2, <3>3
  <2>. QED BY <2>1, <2>2
<1>. QED BY <1>10, <1>11, <1>16, <1>18, <1>19 DEF ProfileInv

LEMMA RestoreInterruptsKept == ProfileInv /\ RestoreInterrupts => ProfileInv'
<1>. SUFFICES ASSUME ProfileInv, RestoreInterrupts PROVE ProfileInv'
  OBVIOUS
<1>. DEFINE n == Len(levels)
            own == PairOf(topFrame)
<1>1. /\ levels # << >> /\ topFrame.pc = "enable" /\ topFrame \in McountFrames
      /\ McountRight(topFrame)
  BY ProfileAt DEF RestoreInterrupts
<1>2. /\ levels' = Front(levels)
      /\ ended' = [ended EXCEPT ![own] = ended[own] + 1]
      /\ interruptible' = (topFrame.context \/ topFrame.handler)
      /\ UNCHANGED <<fnHead, fns, arcs, tableVars, need_init, samplers, ticking, nested, begun>>
  BY DEF RestoreInterrupts, Returns, samplerVars, historyVars, PairOf, tableVars
<1>3. topFrame.arc \in ArcsOf(own)
  BY <1>1 DEF McountRight
<1>4. own \in Pairs /\ topFrame.context \in BOOLEAN /\ topFrame.handler \in BOOLEAN
  BY <1>1 DEF McountFrames, PairOf, Pairs
<1>5. ProfileTypeOK /\ ArcsApart
  BY DEF ProfileInv
<1>6. /\ levels' \in Seq(McountFrames) /\ n \in Nat \ {0} /\ topFrame = levels[n]
      /\ \A k \in 1 .. n - 1 : k \in 1 .. Len(levels)
  BY <1>1, <1>2, <1>5, McountReturns
<1>. HIDE DEF own
<1>7. ended' \in [Pairs -> Nat] /\ ended'[own] = ended[own] + 1 /\ ended[own] \in Nat
      /\ \A pair \in Pairs : pair # own => ended'[pair] = ended[pair]
  BY <1>2, <1>4, <1>5 DEF ProfileTypeOK
<1>8. ProfileTypeOK'
  BY <1>2, <1>4, <1>5, <1>6, <1>7 DEF ProfileTypeOK
<1>9. ArcsApart'
  BY <1>2, <1>5 DEF ArcsApart
<1>10. TablesGrow /\ \A pair : ArcsOf(pair)' = ArcsOf(pair)
  BY <1>2, <1>5, TablesSame
<1>11. \A k \in 1 .. n - 1 : levels[k].pc = "store" => levels[k].count <= arcs'[levels[k].arc].count
  BY <1>2, <1>6 DEF ProfileInv, McountsRight, McountRight
<1>12. /\ McountStacked' /\ McountsRight' /\ LoadedInOrder' /\ SamplerOnce'
       /\ \A pair : Uncounted(pair)' = Uncounted(pair) \ {n}
       /\ ~nested => levels' = << >>
  BY <1>1, <1>2, <1>8, <1>10, <1>11, McountEnds
<1>13. ASSUME NEW pair \in Pairs
       PROVE  Uncounted(pair)' = Uncounted(pair) /\ Counted(pair)' = Counted(pair)
  <2>1. n \notin Uncounted(pair)
    BY <1>1, <1>6 DEF Uncounted
  <2>2. \A i \in ArcsOf(pair) : arcs'[i].count = arcs[i].count
    BY <1>2
  <2>3. Counted(pair)' = Counted(pair)
    BY <1>5, <1>8, <1>10, <2>2, CountedStays
  <2>. QED BY <1>12, <2>1, <2>3
<1>14. CallsKept'
  <2>1. ASSUME NEW pair \in Pairs, ended'[pair] > 0 PROVE ArcsOf(pair)' # {}
    <3>1. CASE pair = own
      BY <3>1, <1>3, <1>10
    <3>2. CASE pair # own
      BY <2>1, <3>2, <1>7, <1>10 DEF ProfileInv, CallsKept
    <3>. QED BY <3>1, <3>2
  <2>. QED BY <1>2, <1>13, <2>1 DEF ProfileInv, CallsKept
<1>15. CallsExact'
  <2>. SUFFICES ASSUME ~nested
                PROVE  /\ Len(levels') <= 1
                       /\ \A pair \in Pairs :
                            Counted(pair)' = ended'[pair] + (IF At("enable")' /\ PairOf(topFrame)' = pair THEN 1 ELSE 0)
    BY <1>2 DEF CallsExact
  <2>1. At("enable") /\ ~At("enable")' /\ Len(levels') <= 1
    BY <1>1, <1>12 DEF At
  <2>2. ASSUME NEW pair \in Pairs PROVE Counted(pair)' = ended'[pair] + 0
    <3>1. Counted(pair) = ended[pair] + (IF own = pair THEN 1 ELSE 0) /\ ended[pair] \in Nat
      BY <1>5, <2>1 DEF ProfileInv, CallsExact, ProfileTypeOK, own
    <3>2. CASE pair = own
      BY <1>7, <1>13, <3>1, <3>2
    <3>3. CASE pair # own
      BY <1>7, <1>13, <3>1, <3>3
    <3>. QED BY <3>2, <3>3
  <2>. QED BY <2>1, <2>2
<1>. QED BY <1>8, <1>9, <1>12, <1>14, <1>15 DEF ProfileInv

LEMMA McountKept ==
  ASSUME ProfileInv, NEW self \in Functions, NEW from \in Callers, Mcount(self, from)
  PROVE  ProfileInv'
<1>. DEFINE n == Len(levels)
            r == Frame(self, from, levels # << >>)
            own == <<self, from>>
<1>1. /\ levels' = Append(levels, r) /\ begun' = [begun EXCEPT ![own] = begun[own] + 1]
      /\ nested' = (nested \/ levels # << >>) /\ (levels = << >> \/ interruptible)
      /\ interruptible' = interruptible \/ interruptible' \in BOOLEAN
      /\ UNCHANGED <<fnHead, fns, arcs, tableVars, need_init, samplers, ticking, ended>>
  BY DEF Mcount, samplerVars, tableVars
<1>2. ProfileTypeOK /\ ArcsApart /\ own \in Pairs
  BY DEF ProfileInv, Pairs
<1>3. /\ r \in McountFrames /\ r.pc = "findFunction" /\ PairOf(r) = own
  <2>1. "findFunction" \in OpenPcs \cup ClosedPcs /\ << >> \in Seq(Nat)
    BY DEF OpenPcs
  <2>. QED BY <2>1 DEF Frame, McountFrames, PairOf
<1>. HIDE DEF r
<1>4. /\ levels' \in Seq(McountFrames) /\ Len(levels') = n + 1 /\ n \in Nat /\ levels'[n + 1] = r
      /\ \A k \in 1 .. n : levels'[k] = levels[k]
  <2>1. levels \in Seq(McountFrames)
    BY <1>2 DEF ProfileTypeOK
  <2>. QED BY <1>1, <1>3, <2>1, StackPushed
<1>5. levels' # << >> /\ topFrame' = r
  BY <1>4 DEF topFrame, Last
<1>6. \A k \in 1 .. n : levels[k].pc \notin ClosedPcs /\ levels # << >>
  BY <1>1, <1>2 DEF ProfileInv, McountStacked, ProfileTypeOK
<1>. HIDE DEF n, own
<1>7. \A k \in 1 .. n + 1 : k = n + 1 \/ k \in 1 .. n
  BY <1>4
<1>8. /\ begun' \in [Pairs -> Nat] /\ begun'[own] = begun[own] + 1 /\ begun[own] \in Nat
      /\ \A pair \in Pairs : pair # own => begun'[pair] = begun[pair]
  BY <1>1, <1>2 DEF ProfileTypeOK
<1>9. ProfileTypeOK'
  <2>1. interruptible' \in BOOLEAN
    BY <1>1, <1>2 DEF ProfileTypeOK
  <2>. QED BY <1>1, <1>2, <1>4, <1>8, <2>1 DEF ProfileTypeOK
<1>10. ArcsApart'
  BY <1>1, <1>2 DEF ArcsApart
<1>11. TablesGrow /\ \A pair : ArcsOf(pair)' = ArcsOf(pair)
  BY <1>1, <1>2, TablesSame
<1>12. McountStacked'
  <2>1. r.pc \notin ClosedPcs
    BY <1>3 DEF ClosedPcs
  <2>. QED BY <1>4, <1>6, <1>7, <2>1 DEF McountStacked
<1>13. McountsRight'
  <2>1. ASSUME NEW k \in 1 .. n PROVE McountRight(levels[k])'
    <3>1. k \in 1 .. Len(levels)
      BY DEF n
    <3>2. levels[k].pc = "store" => levels[k].count <= arcs'[levels[k].arc].count
      BY <1>1, <3>1 DEF ProfileInv, McountsRight, McountRight
    <3>3. levels[k].pc \notin ClosedPcs /\ nested' /\ levels'[k] = levels[k]
      BY <1>1, <1>4, <1>6
    <3>. QED BY <1>9, <1>11, <3>1, <3>2, <3>3, OuterMcount
  <2>2. ASSUME NEW k \in 1 .. Len(levels'), k \notin 1 .. n PROVE McountRight(levels[k])'
    <3>1. levels'[k].pc = "findFunction"
      BY <1>3, <1>4, <1>7, <2>2
    <3>. QED BY <3>1 DEF McountRight
  <2>. QED BY <2>1, <2>2 DEF McountsRight
<1>14. LoadedInOrder'
  <2>. SUFFICES ASSUME NEW j \in 1 .. n + 1, NEW k \in 1 .. n + 1, j < k,
                       levels'[j].pc = "store", levels'[k].pc = "store",
                       levels'[j].arc = levels'[k].arc
                PROVE  levels'[j].count <= levels'[k].count
    BY <1>4 DEF LoadedInOrder
  <2>1. j \in 1 .. n /\ k \in 1 .. n
    BY <1>3, <1>4, <1>7
  <2>2. levels'[j] = levels[j] /\ levels'[k] = levels[k]
    BY <1>4, <2>1
  <2>. QED BY <2>1, <2>2 DEF ProfileInv, LoadedInOrder, n
<1>15. ASSUME NEW pair \in Pairs PROVE Counted(pair)' = Counted(pair)
  <2>1. ArcsOf(pair)' = ArcsOf(pair) /\ \A i \in ArcsOf(pair) : arcs'[i].count = arcs[i].count
    BY <1>1, <1>11
  <2>. QED BY <1>2, <1>9, <2>1, CountedStays
<1>16. ASSUME NEW pair \in Pairs
       PROVE  /\ Uncounted(pair)' = IF pair = own THEN Uncounted(pair) \cup {n + 1} ELSE Uncounted(pair)
              /\ n + 1 \notin Uncounted(pair)
  <2>1. Uncounted(pair) \subseteq 1 .. n /\ Uncounted(pair)' \subseteq 1 .. n + 1 /\ n + 1 \notin 1 .. n
    BY <1>4 DEF Uncounted, n
  <2>2. ASSUME NEW k \in 1 .. n PROVE k \in Uncounted(pair)' <=> k \in Uncounted(pair)
    <3>1. k \in 1 .. Len(levels) /\ k \in 1 .. Len(levels') /\ levels'[k] = levels[k]
      BY <1>4 DEF n
    <3>. QED BY <3>1 DEF Uncounted, PairOf
  <2>3. n + 1 \in Uncounted(pair)' <=> pair = own
    <3>1. n + 1 \in 1 .. Len(levels')
      BY <1>4
    <3>2. n + 1 \in Uncounted(pair)' <=> PairOf(r) = pair /\ r.pc # "enable"
      BY <3>1, <1>4 DEF Uncounted, PairOf
    <3>. QED BY <3>2, <1>3
  <2>4. CASE pair = own
    BY <1>7, <2>1, <2>2, <2>3, <2>4
  <2>5. CASE pair # own
    BY <1>7, <2>1, <2>2, <2>3, <2>5
  <2>. QED BY <2>4, <2>5
<1>17. CallsKept'
  <2>1. ASSUME NEW pair \in Pairs
        PROVE  /\ Counted(pair)' + Cardinality(Uncounted(pair)') <= begun'[pair]
               /\ ended'[pair] > 0 => ArcsOf(pair)' # {}
    <3>. DEFINE U == Uncounted(pair)
                V == Uncounted(pair)'
                m == Cardinality(U)
                m1 == Cardinality(V)
                c == Counted(pair)
                b == begun[pair]
    <3>1. c + m <= b /\ c \in Nat /\ m \in Nat /\ b \in Nat /\ IsFiniteSet(U)
      BY <1>2, CountedIs, UncountedFinite DEF ProfileInv, CallsKept, ProfileTypeOK
    <3>2. m1 = m + (IF pair = own THEN 1 ELSE 0)
      <4>1. V = (IF pair = own THEN U \cup {n + 1} ELSE U) /\ n + 1 \notin U
        BY <1>16
      <4>. HIDE DEF U, V
      <4>2. Cardinality(U \cup {n + 1}) = m + 1
        BY <3>1, <4>1, FS_AddElement
      <4>3. CASE pair = own
        BY <4>1, <4>2, <4>3
      <4>4. CASE pair # own
        <5>1. V = U
          BY <4>1, <4>4
        <5>. QED BY <3>1, <4>4, <5>1
      <4>. QED BY <4>3, <4>4
    <3>3. Counted(pair)' = c /\ begun'[pair] = b + (IF pair = own THEN 1 ELSE 0)
      BY <1>8, <1>15, <3>1
    <3>4. Counted(pair)' + m1 <= begun'[pair]
      <4>. DEFINE c1 == Counted(pair)'
                  b1 == begun'[pair]
      <4>. HIDE DEF c, m, b, c1, m1, b1
      <4>1. c1 + m1 <= b1
        BY <3>1, <3>2, <3>3 DEF c1, b1
      <4>. QED BY <4>1 DEF c1, b1
    <3>5. ended'[pair] > 0 => ArcsOf(pair)' # {}
      BY <1>1, <1>11 DEF ProfileInv, CallsKept
    <3>. QED BY <3>4, <3>5
  <2>. QED BY <2>1 DEF CallsKept
<1>18. CallsExact'
  <2>. SUFFICES ASSUME ~nested'
                PROVE  /\ Len(levels') <= 1
                       /\ \A pair \in Pairs :
                            Counted(pair)' = ended[pair] + (IF At("enable")' /\ PairOf(topFrame)' = pair THEN 1 ELSE 0)
    BY <1>1 DEF CallsExact
  <2>1. ~nested /\ levels = << >> /\ Len(levels') = 1
    <3>1. ~nested /\ levels = << >>
      BY <1>1, Zenon
    <3>2. n = 0
      BY <3>1 DEF n
    <3>. QED BY <3>1, <3>2, <1>4
  <2>2. ~At("enable") /\ ~At("enable")'
    BY <2>1, <1>3, <1>5 DEF At
  <2>. QED BY <2>1, <2>2, <1>15 DEF ProfileInv, CallsExact
<1>19. SamplerOnce'
  BY <1>1, <1>3, <1>5 DEF ProfileInv, SamplerOnce, At
<1>. QED BY <1>9, <1>10, <1>12, <1>13, <1>14, <1>17, <1>18, <1>19 DEF ProfileInv

LEMMA ProfileStep == ProfileInv /\ [ProfileNext]_profileVars => ProfileInv'
<1>. SUFFICES ASSUME ProfileInv, [ProfileNext]_profileVars PROVE ProfileInv'
  OBVIOUS
<1>1. ASSUME NEW self \in Functions, NEW from \in Callers, Mcount(self, from) PROVE ProfileInv'
  BY <1>1, McountKept
<1>2. CASE FindFunction \/ FindArc \/ LoadCount \/ StoreCount
  BY <1>2, FindFunctionKept, FindArcKept, LoadCountKept, StoreCountKept
<1>3. CASE McountRecord
  BY <1>3, SamplerTestKept, SamplerClaimKept, SamplerStartKept, CloseInterruptsKept,
     NewFunctionKept, LinkFunctionKept, NewArcKept, LinkArcKept, RestoreInterruptsKept DEF McountRecord
<1>4. CASE ClockStarts
  BY <1>4, ProfileQuiet DEF ClockStarts
<1>5. CASE UNCHANGED profileVars
  <2>1. ticking' \in BOOLEAN
    BY <1>5 DEF profileVars, samplerVars, ProfileInv, ProfileTypeOK
  <2>. QED BY <1>5, <2>1, ProfileQuiet DEF profileVars, samplerVars
<1>. QED BY <1>1, <1>2, <1>3, <1>4, <1>5 DEF ProfileNext

LEMMA ProfileInvariant == ProfileSpec => []ProfileInv
BY ProfileStarts, ProfileStep, PTL DEF ProfileSpec

\* However interrupts come into mcount, the graph has an arc with a count for
\* every call that ended, and no arc counts more calls than began; without
\* nesting the counts are exact and the sampler started once (alt_mcount.S,
\* alt_gmon.c:151).
THEOREM CallGraphKept == ProfileSpec => []ProfileKept
<1>1. ProfileInv => ProfileKept
  <2>. SUFFICES ASSUME ProfileInv PROVE ProfileKept
    OBVIOUS
  <2>1. ProfileTypeOK /\ CallsKept /\ CallsExact /\ SamplerOnce
    BY DEF ProfileInv
  <2>2. ASSUME NEW pair \in Pairs
        PROVE  /\ ended[pair] > 0 => Counted(pair) > 0
               /\ Counted(pair) <= begun[pair]
               /\ ~nested => samplers <= 1 /\ (levels = << >> => Counted(pair) = ended[pair])
    <3>1. ended[pair] > 0 => Counted(pair) > 0
      BY <2>1, CountedIs DEF CallsKept
    <3>2. Counted(pair) <= begun[pair]
      <4>. DEFINE m == Cardinality(Uncounted(pair))
                  c == Counted(pair)
                  b == begun[pair]
      <4>1. c + m <= b /\ c \in Nat /\ m \in Nat /\ b \in Nat
        BY <2>1, CountedIs, UncountedFinite DEF CallsKept, ProfileTypeOK
      <4>. HIDE DEF c, m, b
      <4>2. c <= b
        BY <4>1
      <4>. QED BY <4>2 DEF c, b
    <3>3. ~nested => samplers <= 1
      BY <2>1 DEF SamplerOnce
    <3>4. ~nested /\ levels = << >> => Counted(pair) = ended[pair]
      <4>1. ended[pair] \in Nat
        BY <2>1 DEF ProfileTypeOK
      <4>. QED BY <2>1, <4>1 DEF CallsExact, At
    <3>. QED BY <3>1, <3>2, <3>3, <3>4
  <2>. QED BY <2>2 DEF ProfileKept
<1>. QED BY <1>1, ProfileInvariant, PTL

-----------------------------------------------------------------------------
(***************************************************************************)
(* The heap                                                                *)
(***************************************************************************)
Block == [base : Nat, end : Nat]
HeapInv == /\ heap_end \in Nat /\ HeapStart <= heap_end
           /\ blocks \in Seq(Block)
           /\ BlocksDisjoint

\* Rounding up gives the next address of a word.
LEMMA AlignedUp ==
  ASSUME NEW a \in Nat
  PROVE  Aligned(a) \in Nat /\ a <= Aligned(a) /\ Aligned(a) % WordBytes = 0
<1>. DEFINE q == (a + WordBytes - 1) \div WordBytes
<1>1. q \in Nat /\ Aligned(a) = q * 4 /\ a <= q * 4
  BY DEF Aligned, WordBytes
<1>. HIDE DEF q
<1>2. (q * 4) % 4 = 0
  BY <1>1
<1>. QED BY <1>1, <1>2 DEF WordBytes

\* The invariant, block by block.
BlockInv(i) ==
  /\ blocks[i].base % WordBytes = 0 /\ HeapStart <= blocks[i].base
  /\ blocks[i].base <= blocks[i].end
  /\ blocks[i].end <= (IF i = 1 THEN heap_end ELSE blocks[i - 1].base)
  /\ blocks[i].end <= HeapLimit

\* What the invariant says of a block.
LEMMA HeapFacts ==
  ASSUME HeapInv
  PROVE  /\ heap_end \in Nat /\ blocks \in Seq(Block) /\ Len(blocks) \in Nat
         /\ HeapStart \in Nat /\ HeapLimit \in Nat /\ HeapStart <= HeapLimit
         /\ HeapStart <= heap_end
         /\ \A i \in 1 .. Len(blocks) :
              BlockInv(i) /\ blocks[i].base \in Nat /\ blocks[i].end \in Nat
<1>1. /\ heap_end \in Nat /\ blocks \in Seq(Block) /\ Len(blocks) \in Nat
      /\ HeapStart \in Nat /\ HeapLimit \in Nat /\ HeapStart <= HeapLimit
      /\ HeapStart <= heap_end
  BY HeapConstants, LenProperties DEF HeapInv
<1>2. ASSUME NEW i \in 1 .. Len(blocks)
      PROVE  BlockInv(i) /\ blocks[i].base \in Nat /\ blocks[i].end \in Nat
  <2>1. blocks[i] \in Block
    BY <1>1, ElementOfSeq
  <2>2. BlockInv(i)
    BY DEF HeapInv, BlocksDisjoint, BlockInv
  <2>. QED BY <2>1, <2>2 DEF Block
<1>. QED BY <1>1, <1>2

\* A request that is refused moves the end upwards only.
LEMMA FailsKept ==
  ASSUME HeapInv, NEW incr \in Int, SbrkFails(incr)
  PROVE  HeapInv'
<1>1. /\ heap_end' \in Nat /\ heap_end <= heap_end' /\ blocks' = blocks
      /\ HeapStart <= heap_end'
  BY HeapFacts, AlignedUp DEF SbrkFails
<1>2. ASSUME NEW i \in 1 .. Len(blocks) PROVE BlockInv(i)'
  <2>1. BlockInv(i) /\ blocks[i].base \in Nat /\ blocks[i].end \in Nat
    BY HeapFacts
  <2>2. i = 1 => blocks[i].end <= heap_end'
    BY <1>1, <2>1, HeapFacts DEF BlockInv
  <2>. QED BY <1>1, <2>1, <2>2 DEF BlockInv
<1>3. BlocksDisjoint'
  BY <1>1, <1>2 DEF BlocksDisjoint, BlockInv
<1>. QED BY <1>1, <1>3 DEF HeapInv

\* A new block begins at the end, behind all the others.
LEMMA GrowsKept ==
  ASSUME HeapInv, NEW incr \in Increments, SbrkGrows(incr)
  PROVE  HeapInv'
<1>. DEFINE new == [base |-> Aligned(heap_end), end |-> heap_end']
            old == Len(blocks)
<1>1. /\ heap_end \in Nat /\ blocks \in Seq(Block) /\ old \in Nat /\ incr \in Nat
      /\ HeapLimit \in Nat /\ HeapStart \in Nat /\ HeapStart <= heap_end
  BY HeapConstants, HeapFacts
<1>2. /\ Aligned(heap_end) \in Nat /\ heap_end <= Aligned(heap_end)
      /\ Aligned(heap_end) % WordBytes = 0
  BY <1>1, AlignedUp
<1>3. heap_end' = Aligned(heap_end) + incr /\ heap_end' <= HeapLimit
      /\ blocks' = << new >> \o blocks
  BY DEF SbrkGrows, Fits
<1>4. heap_end' \in Nat /\ HeapStart <= heap_end' /\ new \in Block
  BY <1>1, <1>2, <1>3 DEF Block
<1>5. << new >> \in Seq(Block) /\ Len(<< new >>) = 1 /\ << new >>[1] = new
  BY <1>4
<1>6. new.base = Aligned(heap_end) /\ new.end = heap_end'
  OBVIOUS
<1>. HIDE DEF new, old
<1>7. /\ blocks' \in Seq(Block) /\ Len(blocks') = 1 + old
      /\ \A i \in 1 .. 1 + old : blocks'[i] = IF i <= 1 THEN << new >>[i] ELSE blocks[i - 1]
  BY <1>1, <1>3, <1>5, ConcatProperties DEF old
<1>8. blocks'[1] = new /\ \A i \in 1 .. old : blocks'[i + 1] = blocks[i]
  BY <1>1, <1>5, <1>7
<1>9. BlockInv(1)'
  BY <1>1, <1>2, <1>3, <1>6, <1>8 DEF BlockInv
<1>10. ASSUME NEW i \in 1 .. old PROVE BlockInv(i + 1)'
  <2>1. BlockInv(i) /\ blocks[i].base \in Nat /\ blocks[i].end \in Nat
    BY HeapFacts DEF old
  <2>2. i + 1 # 1 /\ i + 1 - 1 = i /\ blocks'[i + 1] = blocks[i]
    BY <1>1, <1>8
  <2>3. blocks[i].end <= blocks'[i].base
    <3>1. CASE i = 1
      BY <1>1, <1>2, <1>6, <1>8, <2>1, <3>1 DEF BlockInv
    <3>2. CASE i # 1
      <4>1. i - 1 \in 1 .. old /\ i - 1 + 1 = i
        BY <1>1, <3>2
      <4>2. blocks'[i] = blocks[i - 1]
        BY <1>8, <4>1
      <4>. QED BY <2>1, <3>2, <4>2 DEF BlockInv
    <3>. QED BY <3>1, <3>2
  <2>. QED BY <2>1, <2>2, <2>3 DEF BlockInv
<1>11. ASSUME NEW i \in 1 .. Len(blocks') PROVE BlockInv(i)'
  <2>1. CASE i = 1
    BY <1>9, <2>1
  <2>2. CASE i # 1
    <3>1. i - 1 \in 1 .. old /\ i - 1 + 1 = i
      BY <1>1, <1>7, <2>2
    <3>. QED BY <1>10, <3>1
  <2>. QED BY <2>1, <2>2
<1>12. BlocksDisjoint'
  BY <1>11 DEF BlocksDisjoint, BlockInv
<1>. QED BY <1>4, <1>7, <1>12 DEF HeapInv

\* What is given back ends or cuts blocks from the newest one on; those that are
\* left are as they were, but for the end of the newest of them.
LEMMA ShrinksKept ==
  ASSUME HeapInv, NEW n \in Increments, SbrkShrinks(n)
  PROVE  HeapInv'
<1>. DEFINE len == Len(blocks)
            end == heap_end'
<1>1. /\ end = Aligned(heap_end) - n /\ end >= HeapStart /\ GiveUp(end)
      /\ len \in Nat /\ n \in Nat /\ HeapStart \in Nat
  BY HeapConstants, HeapFacts DEF SbrkShrinks
<1>2. end \in Nat /\ HeapStart <= heap_end'
  <2>1. Aligned(heap_end) \in Nat
    BY HeapFacts, AlignedUp
  <2>2. end \in Int /\ end >= HeapStart
    <3>. HIDE DEF end
    <3>. QED BY <1>1, <2>1
  <2>. QED BY <1>1, <2>2
<1>. DEFINE Cut(j) == [base |-> blocks[j].base,
                       end  |-> IF blocks[j].end <= end THEN blocks[j].end ELSE end]
<1>3. PICK k \in 0 .. len :
        /\ \A i \in 1 .. len : i <= k <=> blocks[i].base >= end
        /\ blocks' = [i \in 1 .. len - k |-> Cut(i + k)]
  BY <1>1 DEF GiveUp
<1>4. ASSUME NEW j \in 1 .. len, j > k
      PROVE  /\ Cut(j) \in Block /\ Cut(j).base = blocks[j].base
             /\ Cut(j).base <= Cut(j).end /\ Cut(j).end <= end
             /\ Cut(j).end <= blocks[j].end
  <2>1. /\ blocks[j].base \in Nat /\ blocks[j].end \in Nat
        /\ blocks[j].base <= blocks[j].end
    BY HeapFacts DEF BlockInv
  <2>2. blocks[j].base < end
    BY <1>1, <1>2, <1>3, <1>4, <2>1
  <2>. QED BY <1>2, <2>1, <2>2 DEF Block
<1>. HIDE DEF Cut, end
<1>5. \A i \in 1 .. len - k : i + k \in 1 .. len /\ i + k > k
  BY <1>1
<1>6. /\ blocks' \in Seq(Block) /\ Len(blocks') = len - k
      /\ \A i \in 1 .. len - k : blocks'[i] = Cut(i + k)
  <2>1. len - k \in Nat
    BY <1>1
  <2>2. \A i \in 1 .. len - k : Cut(i + k) \in Block
    BY <1>4, <1>5
  <2>. QED BY <1>3, <2>1, <2>2
<1>7. ASSUME NEW i \in 1 .. len - k PROVE BlockInv(i)'
  <2>. DEFINE j == i + k
  <2>1. /\ j \in 1 .. len /\ j > k /\ blocks'[i] = Cut(j)
        /\ BlockInv(j) /\ blocks[j].base \in Nat /\ blocks[j].end \in Nat
    BY <1>5, <1>6, HeapFacts
  <2>2. /\ Cut(j).base = blocks[j].base /\ Cut(j).base <= Cut(j).end
        /\ Cut(j).end <= end /\ Cut(j).end <= blocks[j].end /\ Cut(j).end \in Nat
    BY <1>4, <2>1 DEF Block
  <2>3. CASE i = 1
    BY <2>1, <2>2, <2>3, HeapFacts DEF BlockInv, end
  <2>4. CASE i # 1
    <3>1. i - 1 \in 1 .. len - k /\ (i - 1) + k = j - 1 /\ j # 1
      BY <1>1, <2>4
    <3>2. j - 1 \in 1 .. len /\ j - 1 > k
      BY <1>5, <3>1
    <3>3. blocks'[i - 1].base = blocks[j - 1].base /\ blocks[j - 1].base \in Nat
      BY <1>4, <1>6, <3>1, <3>2, HeapFacts
    <3>4. blocks[j].end <= blocks[j - 1].base
      BY <2>1, <3>1 DEF BlockInv
    <3>. HIDE DEF j
    <3>5. blocks'[i].end <= blocks'[i - 1].base
      BY <2>1, <2>2, <3>3, <3>4
    <3>. QED BY <2>1, <2>2, <2>4, <3>5, HeapFacts DEF BlockInv
  <2>. QED BY <2>3, <2>4
<1>8. BlocksDisjoint'
  BY <1>6, <1>7 DEF BlocksDisjoint, BlockInv
<1>. QED BY <1>2, <1>6, <1>8 DEF HeapInv, end

\* The blocks in use begin at words, are disjoint, within the heap and below its
\* end, after any sequence of requests, refused ones and returns among them, as long
\* as no more is given back than was handed out (alt_sbrk.c:88 does not check it).
THEOREM HeapNeverOverlaps == HeapSpec => []BlocksDisjoint
<1>1. HeapInit => HeapInv
  <2>1. << >> \in Seq(Block) /\ Len(<< >>) = 0
    OBVIOUS
  <2>. QED BY <2>1, HeapConstants DEF HeapInit, HeapInv, BlocksDisjoint
<1>2. HeapInv /\ [HeapNext]_heapVars => HeapInv'
  <2>1. CASE HeapNext
    <3>1. PICK n \in Increments :
            SbrkFails(n) \/ SbrkFails(-n) \/ SbrkGrows(n) \/ SbrkShrinks(n)
      BY <2>1 DEF HeapNext
    <3>2. n \in Int /\ -n \in Int
      BY HeapConstants
    <3>. QED BY <2>1, <3>1, <3>2, FailsKept, GrowsKept, ShrinksKept
  <2>2. CASE UNCHANGED heapVars
    BY <2>2 DEF heapVars, HeapInv, BlocksDisjoint
  <2>. QED BY <2>1, <2>2
<1>3. HeapInv => BlocksDisjoint
  BY DEF HeapInv
<1>. QED BY <1>1, <1>2, <1>3, PTL DEF HeapSpec
=============================================================================
