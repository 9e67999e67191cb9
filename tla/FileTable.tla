----------------------------- MODULE FileTable -----------------------------
(***************************************************************************)
(* The HAL's table of file descriptors: open, close, the exclusive lock of *)
(* ioctl, fcntl, what read, write, lseek, fstat and isatty reach through a *)
(* descriptor, and alt_main: the drivers' registration, the redirection of *)
(* stdin, stdout and stderr, constructors, main, destructors.              *)
(*                                                                         *)
(* A name is a device, or a path below the mount point of a file system;   *)
(* names do not conflict (alt_fs_reg.c:43).  The program has one thread    *)
(* (ALT_SINGLE_THREADED), and passes only descriptors it opened.           *)
(***************************************************************************)
EXTENDS Integers

CONSTANTS
  Devices,       (* character devices other than /dev/null                 *)
  MountOf,       (* a function from paths to their file system             *)
  Null, NoDev,   (* /dev/null; a free descriptor                           *)
  Provides,      (* the functions each driver has of those in DevFunctions *)
  Stdout, Stdin, Stderr,   (* ALT_STDOUT, ALT_STDIN, ALT_STDERR            *)
  Modes,         (* sets of "read" and "write" that programs open with     *)
  MaxFd          (* ALT_MAX_FD: 32                                         *)

FileSystems == {MountOf[p] : p \in DOMAIN MountOf}
Names       == Devices \cup DOMAIN MountOf \cup {Null}

\* The calls for which a driver may have a function, beside open and close.
DevFunctions == {"read", "write", "lseek", "fstat"}

ASSUME FileAssumption ==
  /\ MaxFd \in Nat /\ MaxFd > 3
  /\ Modes \subseteq {{"read"}, {"write"}, {"read", "write"}}
  /\ Null \notin Devices /\ NoDev \notin Names \cup FileSystems
  /\ FileSystems \cap (Devices \cup {Null}) = {}
  /\ {"EACCES", "ENOTSUP", "character device"} \cap (Devices \cup FileSystems \cup {Null}) = {}
  /\ {Stdout, Stdin, Stderr} \subseteq Names
  /\ Provides \in [Devices \cup FileSystems \cup {Null} -> SUBSET DevFunctions]

VARIABLES
  phase,         (* where alt_main is                                      *)
  registered,    (* alt_dev_list and alt_fs_list                           *)
  dev, flags,    (* alt_fd_list                                            *)
  alt_max_fd,
  opened         (* history: the device or file system, and the mode, of   *)
                 (* what open returned and close has not taken             *)

fileVars == <<phase, registered, dev, flags, alt_max_fd, opened>>
owned    == DOMAIN opened

Fds == 0 .. MaxFd - 1

Others(f, limit) == {g \in Fds \ {f} : g <= limit /\ dev[g] = dev[f]}
Free             == {f \in Fds : dev[f] = NoDev}

\* alt_get_fd takes the first free descriptor.
FirstFree(f) == f \in Free /\ \A g \in Free : f <= g

\* alt_find_dev, then alt_find_file.
FoundDev(name) == name \in registered
Found(name) ==
  IF FoundDev(name) THEN name
  ELSE IF name \in DOMAIN MountOf /\ MountOf[name] \in registered THEN MountOf[name]
  ELSE NoDev

MutFileLocked(d, f, limit) ==
  d \notin FileSystems /\ \E g \in Fds \ {f} : g < limit /\ dev[g] = d /\ "excl" \in flags[g]

\* alt_file_locked: file systems look after themselves.
FileLocked(d, f, limit) ==
  d \notin FileSystems /\ \E g \in Fds \ {f} : g <= limit /\ dev[g] = d /\ "excl" \in flags[g]

OpenFlags(d, mode) == IF d \in FileSystems THEN mode ELSE mode \cup {"dev"}

\* alt_get_fd raises the high-water mark, also of an open that then fails.
Raised(f) == IF f > alt_max_fd THEN f ELSE alt_max_fd

MutOpenRefused(d, f) ==
  /\ FileLocked(d, f, Raised(f)) \/ d \in FileSystems
  /\ alt_max_fd' = Raised(f)
  /\ dev' = [dev EXCEPT ![f] = d]
  /\ UNCHANGED <<flags, opened>>

\* The device is locked, or the open() of the file system refuses: the
\* descriptor is released.
OpenRefused(d, f) ==
  /\ FileLocked(d, f, Raised(f)) \/ d \in FileSystems
  /\ alt_max_fd' = Raised(f)
  /\ UNCHANGED <<dev, flags, opened>>

OpenSucceeds(d, f, mode) ==
  /\ ~FileLocked(d, f, Raised(f))
  /\ alt_max_fd' = Raised(f)
  /\ dev' = [dev EXCEPT ![f] = d]
  /\ flags' = [flags EXCEPT ![f] = OpenFlags(d, mode)]
  /\ opened' = [g \in owned \cup {f} |-> IF g = f THEN [to |-> d, mode |-> mode] ELSE opened[g]]

\* open; nothing happens if the name is unknown or all descriptors are taken.
Open(name, mode) ==
  /\ Found(name) # NoDev
  /\ \E f \in Fds :
       FirstFree(f) /\ (OpenRefused(Found(name), f) \/ OpenSucceeds(Found(name), f, mode))
  /\ UNCHANGED registered

-----------------------------------------------------------------------------
(* alt_main *)

Become(from, to) == phase = from /\ phase' = to

\* alt_sys_init registers what the BSP contains, one driver after the other.
Insert(d)   == registered' = registered \cup {d}
DevReg(d)   == d \in Devices /\ Insert(d)
FsReg(d)    == d \in FileSystems /\ Insert(d)
SysInit ==
  /\ \/ phase = "sysInit" /\ UNCHANGED phase
        /\ \E d \in (Devices \cup FileSystems) \ registered : DevReg(d) \/ FsReg(d)
     \/ Become("sysInit", "stdout") /\ UNCHANGED registered
  /\ UNCHANGED <<dev, flags, alt_max_fd, opened>>

MutOpenFd(f, name, mode) ==
  IF Found(name) = NoDev
  THEN UNCHANGED <<dev, flags, alt_max_fd>>
  ELSE /\ \E old \in Fds : FirstFree(old) /\ alt_max_fd' = Raised(old)
       /\ dev' = [dev EXCEPT ![f] = Found(name)]
       /\ UNCHANGED flags

\* alt_open_fd: what open found is copied to f and its descriptor released.
OpenFd(f, name, mode) ==
  IF Found(name) = NoDev
  THEN UNCHANGED <<dev, flags, alt_max_fd>>
  ELSE /\ \E old \in Fds : FirstFree(old) /\ alt_max_fd' = Raised(old)
       /\ dev' = [dev EXCEPT ![f] = Found(name)]
       /\ flags' = [flags EXCEPT ![f] = OpenFlags(Found(name), mode)]

\* alt_io_redirect
Redirect ==
  /\ \/ Become("stdout", "stdin")  /\ OpenFd(1, Stdout, {"write"})
     \/ Become("stdin", "stderr")  /\ OpenFd(0, Stdin, {"read"})
     \/ Become("stderr", "ctors")   /\ OpenFd(2, Stderr, {"write"})
  /\ UNCHANGED <<registered, opened>>

\* alt_release_fd: the first three are never given back.
Close(f) ==
  /\ IF f > 2
     THEN dev' = [dev EXCEPT ![f] = NoDev] /\ flags' = [flags EXCEPT ![f] = {}]
     ELSE UNCHANGED <<dev, flags>>
  /\ opened' = [g \in owned \ {f} |-> opened[g]]
  /\ UNCHANGED <<registered, alt_max_fd>>

\* alt_fd_lock and alt_fd_unlock, for devices only.
Lock(f) ==
  /\ "dev" \in flags[f]
  /\ flags' = IF Others(f, alt_max_fd - 1) = {}
              THEN [flags EXCEPT ![f] = @ \cup {"excl"}] ELSE flags
  /\ UNCHANGED <<registered, dev, alt_max_fd, opened>>

Unlock(f) ==
  /\ "dev" \in flags[f]
  /\ flags' = [flags EXCEPT ![f] = @ \ {"excl"}]
  /\ UNCHANGED <<registered, dev, alt_max_fd, opened>>

\* ioctl keeps these two requests from the driver.
Ioctl(f) == Lock(f) \/ Unlock(f)

\* fcntl(F_SETFL): blocking or not, and nothing else.
Fcntl(f, nonblock) ==
  /\ flags' = [flags EXCEPT ![f] = (@ \ {"nonblock"}) \cup nonblock]
  /\ UNCHANGED <<registered, dev, alt_max_fd, opened>>

\* Constructors, main and destructors call these functions.
Calls ==
  /\ phase \in {"ctors", "main", "dtors"} /\ UNCHANGED phase
  /\ \/ \E name \in Names, mode \in Modes : Open(name, mode)
     \/ \E f \in owned \cup {0, 1, 2} :
          Close(f) \/ Ioctl(f) \/ \E nonblock \in {{}, {"nonblock"}} : Fcntl(f, nonblock)

\* The constructors have run.
DoCtors == Become("ctors", "main") /\ UNCHANGED <<registered, dev, flags, alt_max_fd, opened>>

\* main returns: stdout is closed, and exit runs the destructors, which find
\* it in the table none the less.
MainReturns == Become("main", "dtors") /\ Close(1)

\* _exit spins for ever.
Exit == phase' = "exit" /\ UNCHANGED <<registered, dev, flags, alt_max_fd, opened>>

\* The destructors have run.
DoDtors == phase = "dtors" /\ Exit

\* A signal to the program itself that neither POSIX nor the HAL ignores ends it
\* without closing anything; to another process, or ignored, it does nothing.
Kill(pid, signal) ==
  /\ phase \in {"ctors", "main", "dtors"}
  /\ pid <= 0 /\ signal = "fatal"
  /\ Exit

-----------------------------------------------------------------------------
(***************************************************************************)
(* What the other calls reach through a descriptor: the driver of a device,*)
(* or an error.  They leave the table as it is.                            *)
(***************************************************************************)
AccMode(f) == flags[f] \cap {"read", "write"}

ReadFrom(f) ==
  IF AccMode(f) # {"write"} /\ "read" \in Provides[dev[f]] THEN dev[f] ELSE "EACCES"
WriteTo(f) ==
  IF AccMode(f) # {"read"} /\ "write" \in Provides[dev[f]] THEN dev[f] ELSE "EACCES"
Lseek(f) == IF "lseek" \in Provides[dev[f]] THEN dev[f] ELSE "ENOTSUP"

\* Without a function of its own a device is a character device.
Fstat(f)  == IF "fstat" \in Provides[dev[f]] THEN dev[f] ELSE "character device"
Isatty(f) == Fstat(f) = "character device"

-----------------------------------------------------------------------------
FileInit ==
  /\ phase = "sysInit"
  /\ registered = {Null}
  /\ dev = [f \in Fds |-> IF f <= 2 THEN Null ELSE NoDev]
  /\ flags = [f \in Fds |-> IF f <= 2 THEN {"read"} ELSE {}]
  /\ alt_max_fd = -1
  /\ opened = [f \in {} |-> NoDev]

FileNext ==
  \/ SysInit \/ Redirect \/ DoCtors \/ Calls \/ MainReturns \/ DoDtors
  \/ \E pid \in {0, 1}, signal \in {"ignored", "fatal"} : Kill(pid, signal)

FileSpec == FileInit /\ [][FileNext]_fileVars

-----------------------------------------------------------------------------
\* Descriptors are neither leaked nor shared: those in use are what the program
\* opened and the first three, however opens fail (alt_open.c:159), and the
\* high-water mark that the searches stop at covers them (alt_get_fd.c:69).
FdAccounted ==
  /\ {f \in Fds : dev[f] # NoDev} = owned \cup {0, 1, 2}
  /\ \A f \in owned : f <= alt_max_fd

\* A descriptor that was opened to read reads from the device that the name
\* meant, and so does one to write, and neither does more; the first three do
\* the same from the constructors on for the configured devices, and what was not
\* found stays at /dev/null (alt_io_redirect.c:80), which refuses to be written
\* through a descriptor that is not open for it (alt_dev.c:91).
Reaches(f, d, mode) ==
  /\ ReadFrom(f) = IF "read" \in mode /\ "read" \in Provides[d] THEN d ELSE "EACCES"
  /\ WriteTo(f) = IF "write" \in mode /\ "write" \in Provides[d] THEN d ELSE "EACCES"
  /\ Isatty(f) <=> "fstat" \notin Provides[d]
  /\ Lseek(f) = IF "lseek" \in Provides[d] THEN d ELSE "ENOTSUP"

DescriptorsReach ==
  /\ \A f \in owned : Reaches(f, opened[f].to, opened[f].mode)
  /\ phase \in {"ctors", "main", "dtors", "exit"} =>
       \A s \in {<<0, Stdin, {"read"}>>, <<1, Stdout, {"write"}>>, <<2, Stderr, {"write"}>>} :
         IF Found(s[2]) = NoDev THEN Reaches(s[1], Null, {"read"})
                                ELSE Reaches(s[1], Found(s[2]), s[3])

\* While a descriptor holds the lock of its device, nobody else opens the device
\* (alt_fd_lock.c:44, "Further calls to open() for this device will fail until
\* the lock is released").
LockHolds ==
  [][\A f \in Fds :
       "excl" \in flags[f] /\ "excl" \in flags'[f]
         => {g \in Fds : dev'[g] = dev[f]} \subseteq {g \in Fds : dev[g] = dev[f]}]_fileVars
=============================================================================
