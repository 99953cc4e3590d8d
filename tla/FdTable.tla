------------------------------ MODULE FdTable ------------------------------
(***************************************************************************)
(* The file descriptors of one PCB: sys_open, sys_close, sys_read and      *)
(* sys_write (syscalls.c), the functions they reach through the entries'   *)
(* pointers (file_sys_driver.c, rtc.c, terminal.c), and what sys_execute   *)
(* and sys_halt do to the table when a program takes and leaves the slot.  *)
(*                                                                         *)
(* int 0x80 is a trap gate: system calls run with interrupts on, and a     *)
(* tick that finds a Ctrl+C calls sys_halt from wherever the program is.   *)
(* So a call is several steps, cut where the table is between two states   *)
(* that sys_halt tells apart.  A slot's descriptors are touched by the     *)
(* slot's own program alone (Processes!Coherent): one slot is modelled,    *)
(* with the programs that run in it one after the other.                   *)
(*                                                                         *)
(* The slots are those of programs started from a shell: a base shell      *)
(* (Processes!BaseShells) opens no file, and its sys_halt, which starts it *)
(* again, leaves the table as it is.                                       *)
(*                                                                         *)
(* The file system is read-only, so the open function always finds what    *)
(* sys_open found: were it to fail, Opens would leave the call stuck.      *)
(*                                                                         *)
(* KeepClaim, LeaveFlags, AdmitsAll, MovedByRequest and AllButFirst are    *)
(* not the code: each is the next definition with a plausible mistake in   *)
(* it.                                                                     *)
(***************************************************************************)
EXTENDS FileSys

CONSTANTS
    FD_END,     \* descriptors are 0 .. FD_END - 1: 8 in the code
    ReadSizes,  \* the sizes programs ask for
    Filenames   \* the names they open, those sys_open refuses at once left out

ASSUME TableAssumption ==
    /\ FD_END \in Nat /\ FD_END > 2
    /\ ReadSizes \subseteq Uints
    /\ \A name \in Filenames : name \in Names /\ Len(name) \in 1 .. NAME

FD_START == 2
Fds      == 0 .. FD_END - 1
UserFds  == FD_START .. FD_END - 1

(* The function a pointer holds is named by the kind of file it serves;    *)
(* "terminal" is t_read or t_write.                                        *)
Null     == "null"
Pointers == Kinds \cup {"terminal", Null}
NoOps    == [close |-> Null, read |-> Null, write |-> Null]
OpsOf(k) == [close |-> k, read |-> k, write |-> k]

VARIABLES
    flags,          \* flags[fd]: fd_entry[fd].flags
    ops,            \* its file_operations_table_pointer (open is never called again)
    inode,
    file_position,
    pc,             \* where the program is
    fd_local,       \* fd_index_to_open of sys_open, fd of sys_close
    filename,       \* the argument of sys_open
    history         \* history[fd]: what a program saw of the file open at fd

entries == << flags, ops, inode, file_position >>
vars    == << entries, pc, fd_local, filename, history >>

NoName == << >>

(* The name fd was opened by, what the reads since then delivered, and     *)
(* whether all were plain: as an int the size is not negative, and a       *)
(* directory is read in names, as ls does (ece391ls.c).                    *)
Unread(name) == [name |-> name, got |-> << >>, plain |-> TRUE]

PCs == {"free",         \* no program in the slot
        "user",         \* in the program, or in a call that holds no entry
        "marked",       \* sys_open: flags set, pointers not (line 451)
        "closable",     \* sys_open: open and close set, the rest not (463)
        "uncloseable",  \* sys_close: open and close cleared, flags not (87)
        "faulting"}     \* sys_halt: page fault on a null close, over and over

InProgram == pc \notin {"free", "faulting"}

(* PCBs lie in memory that is zero at boot.                                *)
Init ==
    /\ flags = [fd \in Fds |-> 0]
    /\ ops = [fd \in Fds |-> NoOps]
    /\ inode = [fd \in Fds |-> 0]
    /\ file_position = [fd \in Fds |-> 0]
    /\ pc = "free"
    /\ fd_local = FD_START
    /\ filename = NoName
    /\ history = [fd \in Fds |-> Unread(NoName)]

(* sys_execute: stdin can be read and stdout written; 2 .. 7 are left as   *)
(* the last program left them.                                             *)
Execute ==
    /\ pc = "free"
    /\ pc' = "user"
    /\ flags' = [flags EXCEPT ![0] = 1, ![1] = 1]
    /\ ops' = [ops EXCEPT ![0].read = "terminal", ![1].write = "terminal"]
    /\ UNCHANGED << inode, file_position, fd_local, filename, history >>

-----------------------------------------------------------------------------
(* sys_open claims the first free entry before it looks the name up.       *)
FirstFree(fd) ==
    /\ fd \in UserFds
    /\ flags[fd] = 0
    /\ \A e \in UserFds : e < fd => flags[e] = 1

OpenMark(fd, name) ==
    /\ pc = "user"
    /\ FirstFree(fd)
    /\ file_position' = [file_position EXCEPT ![fd] = 0]
    /\ inode' = [inode EXCEPT ![fd] = 0]
    /\ flags' = [flags EXCEPT ![fd] = 1]
    /\ fd_local' = fd
    /\ filename' = name
    /\ pc' = "marked"
    /\ UNCHANGED << ops, history >>

file_to_open == read_dentry_by_name(filename)

(* read_dentry_by_name fails: the claim is dropped.                        *)
KeepClaim == UNCHANGED flags
DropClaim == flags' = [flags EXCEPT ![fd_local] = 0]

OpenNoSuchName ==
    /\ pc = "marked"
    /\ file_to_open = NoEntry
    /\ DropClaim
    /\ filename' = NoName
    /\ pc' = "user"
    /\ UNCHANGED << ops, inode, file_position, fd_local, history >>

OpenFound ==
    /\ pc = "marked"
    /\ file_to_open # NoEntry
    /\ ops' = [ops EXCEPT ![fd_local].close = file_to_open.file_type]
    /\ pc' = "closable"
    /\ UNCHANGED << flags, inode, file_position, fd_local, filename, history >>

(* read and write are set, open is called, a file gets its inode.          *)
OpenInstall ==
    LET k == file_to_open.file_type
    IN  /\ pc = "closable"
        /\ Opens(filename, k)
        /\ ops' = [ops EXCEPT ![fd_local].read = k, ![fd_local].write = k]
        /\ inode' = [inode EXCEPT ![fd_local] =
                        IF k = "file" THEN file_to_open.inode_number ELSE @]
        /\ filename' = NoName
        /\ pc' = "user"
        /\ history' = [history EXCEPT ![fd_local] = Unread(filename)]
        /\ UNCHANGED << flags, file_position, fd_local >>

-----------------------------------------------------------------------------
(* sys_read refuses stdout, sys_write stdin, sys_close both; all refuse a  *)
(* number out of range and an entry that is not open.                      *)
AdmitsAll(n, barred) == n \in Fds /\ flags[n] = 1
Admits(n, barred)  == n \in Fds \ barred /\ flags[n] = 1

(* sys_close calls the close function and clears the pointers, then the    *)
(* rest of the entry, flags last.                                          *)
CloseStart(fd) ==
    /\ pc = "user"
    /\ Admits(fd, {0, 1})
    /\ ops' = [ops EXCEPT ![fd].close = Null]
    /\ fd_local' = fd
    /\ pc' = "uncloseable"
    /\ UNCHANGED << flags, inode, file_position, filename, history >>

LeaveFlags(fd) == UNCHANGED flags
ClearFlags(fd) == flags' = [flags EXCEPT ![fd] = 0]

CloseFinish ==
    /\ pc = "uncloseable"
    /\ ops' = [ops EXCEPT ![fd_local] = NoOps]
    /\ file_position' = [file_position EXCEPT ![fd_local] = 0]
    /\ inode' = [inode EXCEPT ![fd_local] = 0]
    /\ ClearFlags(fd_local)
    /\ pc' = "user"
    /\ history' = [history EXCEPT ![fd_local] = Unread(NoName)]
    /\ UNCHANGED << fd_local, filename >>

(* A call that returns -1 on the spot; sys_open does for a name that is    *)
(* empty or too long and when there is no free entry.                      *)
Refused ==
    /\ pc = "user"
    /\ UNCHANGED vars

(* What the read function of kind k returns, for n bytes.  rtc_read        *)
(* returns 0; how t_read gets a line is in module LineInput.               *)
Result(fd, n) ==
    CASE ops[fd].read = "file"      -> file_read(inode[fd], file_position[fd], n)
      [] ops[fd].read = "directory" -> directory_read(file_position[fd], n)
      [] OTHER                      -> [retval |-> 0, buf |-> << >>]

(* file_read moves the position by what it returns, directory_read by one, *)
(* unless they fail; the others leave it.                                  *)
MovedByRequest(k, r, n) ==
    CASE k = "file" /\ r # FAILURE      -> n
      [] k = "directory" /\ r # FAILURE -> 1
      [] OTHER                          -> 0
Moved(k, r, n) ==
    CASE k = "file" /\ r # FAILURE      -> r
      [] k = "directory" /\ r # FAILURE -> 1
      [] OTHER                          -> 0

Plain(k, n) == IF k = "directory" THEN n = NAME ELSE n \in Ints

(* What a plain read delivers is added to the history: bytes of a file, a  *)
(* name of a directory.                                                    *)
Noted(h, k, n, result) ==
    IF ~h.plain \/ ~Plain(k, n)
    THEN [h EXCEPT !.plain = FALSE, !.got = << >>]
    ELSE CASE k = "directory" /\ result.retval > 0 -> [h EXCEPT !.got = Append(@, result.buf)]
           [] k # "directory"                      -> [h EXCEPT !.got = @ \o result.buf]
           [] OTHER                                -> h

Read(fd, n) ==
    LET k == ops[fd].read
        r == Result(fd, n)
    IN  /\ pc = "user"
        /\ Admits(fd, {1})
        /\ file_position' = [file_position EXCEPT ![fd] = @ + Moved(k, r.retval, n)]
        /\ history' = [history EXCEPT ![fd] = Noted(@, k, n, r)]
        /\ UNCHANGED << flags, ops, inode, pc, fd_local, filename >>

Write(fd) ==
    /\ pc = "user"
    /\ Admits(fd, {0})
    /\ UNCHANGED vars

-----------------------------------------------------------------------------
(* sys_halt, called by the program, by an exception handler, or, from any  *)
(* point of a call, by a tick that found a Ctrl+C: every entry of 2 .. 7   *)
(* with flags set goes through sys_close, in order.                        *)
AllButFirst == {fd \in UserFds : fd > FD_START /\ flags[fd] = 1}
HaltCloses  == {fd \in UserFds : flags[fd] = 1}

NullClose(fd) == fd \in HaltCloses /\ ops[fd].close = Null

Closing(S) ==
    /\ flags' = [fd \in Fds |-> IF fd \in S THEN 0 ELSE flags[fd]]
    /\ ops' = [fd \in Fds |-> IF fd \in S THEN NoOps ELSE ops[fd]]
    /\ inode' = [fd \in Fds |-> IF fd \in S THEN 0 ELSE inode[fd]]
    /\ file_position' = [fd \in Fds |-> IF fd \in S THEN 0 ELSE file_position[fd]]
    /\ history' = [fd \in Fds |-> IF fd \in S THEN Unread(NoName) ELSE history[fd]]

Halt ==
    /\ InProgram
    /\ \A fd \in UserFds : ~NullClose(fd)
    /\ Closing(HaltCloses)
    /\ filename' = NoName
    /\ pc' = "free"
    /\ UNCHANGED fd_local

(* A null close pointer is called: the loop stops there in a page fault.   *)
HaltFaults ==
    /\ InProgram
    /\ \E fd \in UserFds :
          /\ NullClose(fd)
          /\ \A e \in UserFds : e < fd => ~NullClose(e)
          /\ Closing({e \in HaltCloses : e < fd})
    /\ filename' = NoName
    /\ pc' = "faulting"
    /\ UNCHANGED fd_local

(* exec_handler14 calls sys_halt, which comes to the same entry.           *)
FaultAgain == pc = "faulting" /\ UNCHANGED vars

Next ==
    \/ Execute
    \/ \E fd \in UserFds, name \in Filenames : OpenMark(fd, name)
    \/ OpenNoSuchName
    \/ OpenFound
    \/ OpenInstall
    \/ \E fd \in UserFds : CloseStart(fd)
    \/ CloseFinish
    \/ Refused
    \/ \E fd \in Fds, n \in ReadSizes : Read(fd, n)
    \/ \E fd \in Fds : Write(fd)
    \/ Halt
    \/ HaltFaults
    \/ FaultAgain

Spec == Init /\ [][Next]_vars

-----------------------------------------------------------------------------
TypeOK ==
    /\ flags \in [Fds -> {0, 1}]
    /\ ops \in [Fds -> [close : Pointers, read : Pointers, write : Pointers]]
    /\ inode \in [Fds -> 0 .. INODES]
    /\ file_position \in [Fds -> Ints]
    /\ pc \in PCs
    /\ fd_local \in UserFds
    /\ filename \in Filenames \cup {NoName}

(* No system call a program makes jumps through a pointer that is not set: *)
(* sys_read, sys_write and sys_close test flags, and never the pointer.    *)
CallsDefined == pc = "user" => \A fd \in Fds :
    /\ Admits(fd, {1})    => ops[fd].read # Null
    /\ Admits(fd, {0})    => ops[fd].write # Null
    /\ Admits(fd, {0, 1}) => ops[fd].close # Null

(* sys_execute does not clear the descriptors of the slot it takes: the    *)
(* program finds 2 .. 7 closed because whatever ended the one before, at   *)
(* whatever point of a call, closed them ("Close all the files when we are *)
(* halting", CP4 BUGLOG).                                                  *)
ShutEntry(fd) == flags[fd] = 0 /\ ops[fd] = NoOps /\ inode[fd] = 0 /\ file_position[fd] = 0
SlotClean == pc = "free" => \A fd \in UserFds : ShutEntry(fd)

(* Between calls an entry is whole: open, with all the functions of one    *)
(* kind of file and the inode of a file of the directory if it is a file,  *)
(* or shut; and in a call only the entry the call works on is not.         *)
InCall  == pc \in {"marked", "closable", "uncloseable"}
FileInodes == {e.inode_number : e \in {e \in Range(dir_entries) : e.file_type = "file"}}
OpenEntry(fd) ==
    /\ flags[fd] = 1
    /\ \E k \in Kinds :
          /\ ops[fd] = OpsOf(k)
          /\ inode[fd] \in IF k = "file" THEN FileInodes ELSE {0}
Whole == \A fd \in UserFds :
    \/ InCall /\ fd = fd_local
    \/ pc = "faulting"
    \/ OpenEntry(fd)
    \/ ShutEntry(fd)

Holding(fd, k) ==
    /\ flags[fd] = 1 /\ ops[fd] = OpsOf(k)
    /\ pc # "faulting" /\ ~(InCall /\ fd = fd_local)

(* A position never leaves the file or the directory, whatever sizes were  *)
(* asked for: not past the end, where file_read would return what is left  *)
(* ("ALLOW READING GREATER THAN THE LENGTH OF THE FILE, but JUST STOP",    *)
(* file_sys_driver.c:70), and not before the start, for the sizes that are *)
(* negative as an int and make offset + length wrap.                       *)
PositionInFile == \A fd \in UserFds :
    /\ Holding(fd, "file") =>
           file_position[fd] \in 0 .. inode_table[inode[fd]].length_in_bytes
    /\ Holding(fd, "directory") => file_position[fd] \in 0 .. DIR

(* A look-up finds the first entry with exactly the name asked for, and    *)
(* nothing for a name that is only the beginning of one, or that goes on   *)
(* where one ends ("fixes the 32 char edge case", file_sys_driver.c:247).  *)
FirstNamed(name) ==
    LET named == {k \in DOMAIN dir_entries : dir_entries[k].file_name = name}
    IN  IF named = {} THEN NoEntry
        ELSE dir_entries[CHOOSE k \in named : \A m \in named : k <= m]
LookupExact == filename # NoName => file_to_open = FirstNamed(filename)

(* What a name stands for: the file's blocks one after the other, cut at   *)
(* its length, or the names in the directory.                              *)
Bytes(b)   == [k \in 1 .. BLOCK |-> IF b \in DOMAIN data THEN data[b][k - 1] ELSE "lost"]
Blocks(n)  == [k \in 1 .. Cardinality(DOMAIN n.data_blocks) |-> Bytes(n.data_blocks[k - 1])]
Content(e) ==
    IF e.file_type = "file"
    THEN LET n == inode_table[e.inode_number]
         IN  SubSeq(FlattenSeq(Blocks(n)), 1, n.length_in_bytes)
    ELSE [k \in DOMAIN dir_entries |-> dir_entries[k].file_name]
Readable == {name \in Filenames : FirstNamed(name).file_type \in {"file", "directory"}}
Contents == [name \in Readable |-> Content(FirstNamed(name))]

(* A program that opens a name and reads gets the bytes of the file of     *)
(* that name, or the names of the directory, in order, none twice and none *)
(* left out, however its reads fall on the ends of blocks and with other   *)
(* descriptors open and read in between.                                   *)
Delivered == \A fd \in UserFds : \A k \in {"file", "directory"} :
    Holding(fd, k) /\ history[fd].plain =>
        IsPrefix(history[fd].got, Contents[history[fd].name])

(* A read that returns 0 means that all was read: cat, grep and ls stop    *)
(* there, and nowhere else (ece391cat.c:22, ece391ls.c:18).                *)
EndMeansAll == \A fd \in UserFds, n \in ReadSizes : \A k \in {"file", "directory"} :
    Holding(fd, k) /\ history[fd].plain /\ Plain(k, n) /\ Result(fd, n).retval = 0 =>
        history[fd].got = Contents[history[fd].name]

(* sys_halt never jumps through a null pointer: cli was added "hopefully"  *)
(* against "the extremely rare pagefault bug", that "programs would        *)
(* sometimes pagefault while attempting to halt" (syscalls.c:108).         *)
HaltNeverFaults == pc # "faulting"

(* The table implements OpenFiles: opens, closes and exits look like one   *)
(* step each, an open that fails like none.                                *)
Held(fd) == pc = "faulting" \/ (InCall /\ fd = fd_local)
SeenAt(fd) ==
    IF flags[fd] = 0 \/ Held(fd)
    THEN [kind |-> "closed", pos |-> 0]
    ELSE [kind |-> ops[fd].read, pos |-> file_position[fd]]
Seen == [fd \in UserFds |-> SeenAt(fd)]
Files == INSTANCE OpenFiles
    WITH Descriptors <- UserFds,
         Positions <- Ints,
         alive <- InProgram,
         file  <- Seen
ImplementsOpenFiles == Files!Spec

=============================================================================
