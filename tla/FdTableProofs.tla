--------------------------- MODULE FdTableProofs ---------------------------
(***************************************************************************)
(* Proofs about FdTable for every directory, every image, every size of    *)
(* the table and of an unsigned: first that a look-up is exact and that a  *)
(* read stays in the file, then the invariants, then that what a program   *)
(* reads is what its name stands for, then that the table implements       *)
(* OpenFiles.                                                              *)
(*                                                                         *)
(* The inductive invariant adds to those of FdTable what a call has left   *)
(* in the entry it works on at each of its points (Calls), that a name is  *)
(* known exactly in sys_open, and that descriptors 0 and 1 only ever hold  *)
(* the terminal's functions (Standard). Traced adds where the reads of a   *)
(* descriptor got to: what its program read is the beginning of the        *)
(* content of its name, up to the position in the entry.                   *)
(***************************************************************************)
EXTENDS FdTable, LeastNumber, SequenceTheorems, FiniteSetTheorems, TLAPS

(***************************************************************************)
(* Numbers and names.                                                      *)
(***************************************************************************)
LEMMA TableSizes ==
    /\ NAME \in Nat /\ 0 < NAME
    /\ UINT_MAX \in Nat /\ INODES \in Nat /\ 0 \in 0 .. INODES
    /\ DIR \in Nat /\ DIR \in Ints /\ Ints \subseteq Nat /\ 0 \in Ints
    /\ Len(dir_entries) \in Nat /\ Len(dir_entries) <= DIR
    /\ FD_END \in Nat /\ FD_END > 2
    /\ UserFds \subseteq Fds /\ Fds \subseteq Nat
    /\ FD_START \in UserFds /\ 0 \in Fds /\ 1 \in Fds
    /\ 0 \notin UserFds /\ 1 \notin UserFds
<1>1. Len(dir_entries) \in Nat /\ Len(dir_entries) <= DIR
  BY FileSysAssumption, LenProperties
<1>2. UINT_MAX \div 2 \in Nat
  BY FileSysAssumption, SMT
<1>3. DIR \in Nat /\ DIR \in Ints /\ Ints \subseteq Nat /\ 0 \in Ints
  BY <1>2, FileSysAssumption, SMT DEF Ints
<1>4. /\ FD_END \in Nat /\ FD_END > 2
      /\ UserFds \subseteq Fds /\ Fds \subseteq Nat
      /\ FD_START \in UserFds /\ 0 \in Fds /\ 1 \in Fds
      /\ 0 \notin UserFds /\ 1 \notin UserFds
  BY TableAssumption, SMT DEF UserFds, Fds, FD_START
<1> QED  BY <1>1, <1>3, <1>4, FileSysAssumption, SMT

(* A character is Nul exactly from the end of the name on.                 *)
LEMMA CharEnds ==
    ASSUME NEW s \in Names, NEW k \in Nat
    PROVE  Char(s, k) = Nul <=> Len(s) <= k
<1>1. Len(s) \in Nat
  BY LenProperties DEF Names
<1>2. CASE k < Len(s)
  <2>1. k + 1 \in 1 .. Len(s)
    BY <1>1, <1>2, SMT
  <2>2. s[k + 1] \in STRING \ {Nul}
    BY <2>1, ElementOfSeq DEF Names
  <2> QED  BY <1>1, <1>2, <2>2, SMT DEF Char
<1>3. CASE ~(k < Len(s))
  BY <1>1, <1>3, SMT DEF Char
<1> QED  BY <1>2, <1>3

(* Two names of at most NAME characters match only if they are the same.   *)
LEMMA MatchesExact ==
    ASSUME NEW s \in Names, NEW t \in Names, Len(s) <= NAME, Len(t) <= NAME
    PROVE  Matches(s, t) <=> s = t
<1>0. Len(s) \in Nat /\ Len(t) \in Nat /\ NAME \in Nat /\ 0 < NAME
  BY LenProperties, TableSizes DEF Names
<1>1. ASSUME Matches(s, t) PROVE s = t
  <2>1. PICK j \in 0 .. NAME - 1 :
           /\ Char(s, j) = Nul \/ j = NAME - 1
           /\ \A k \in 0 .. j : Char(s, k) = Char(t, k)
    BY <1>1 DEF Matches
  <2>2. j \in Nat /\ (Len(s) <= j \/ j = NAME - 1)
    <3>1. j \in Nat
      BY <1>0, <2>1, SMT
    <3> QED  BY <2>1, <3>1, CharEnds
  <2>3. ~(Len(s) < Len(t))
    <3> SUFFICES ASSUME Len(s) < Len(t) PROVE FALSE
      OBVIOUS
    <3>1. Len(s) \in 0 .. j
      BY <1>0, <2>1, <2>2, SMT
    <3>2. Char(s, Len(s)) = Char(t, Len(s))
      BY <2>1, <3>1
    <3>3. Char(s, Len(s)) = Nul /\ Char(t, Len(s)) # Nul
      <4>1. ~(Len(t) <= Len(s)) /\ Len(s) <= Len(s)
        BY <1>0, SMT
      <4> QED  BY <1>0, <4>1, CharEnds
    <3> QED  BY <3>2, <3>3
  <2>4. ~(Len(t) < Len(s))
    <3> SUFFICES ASSUME Len(t) < Len(s) PROVE FALSE
      OBVIOUS
    <3>1. Len(t) \in 0 .. j
      BY <1>0, <2>1, <2>2, SMT
    <3>2. Char(s, Len(t)) = Char(t, Len(t))
      BY <2>1, <3>1
    <3>3. Char(t, Len(t)) = Nul /\ Char(s, Len(t)) # Nul
      <4>1. ~(Len(s) <= Len(t)) /\ Len(t) <= Len(t)
        BY <1>0, SMT
      <4> QED  BY <1>0, <4>1, CharEnds
    <3> QED  BY <3>2, <3>3
  <2>5. Len(s) = Len(t)
    BY <1>0, <2>3, <2>4, SMT
  <2>6. ASSUME NEW i \in 1 .. Len(s) PROVE s[i] = t[i]
    <3>1. /\ i - 1 \in 0 .. j /\ i - 1 < Len(s) /\ i - 1 < Len(t)
          /\ (i - 1) + 1 = i
      BY <1>0, <2>1, <2>2, <2>5, <2>6, SMT
    <3>2. Char(s, i - 1) = Char(t, i - 1)
      BY <2>1, <3>1
    <3> QED  BY <3>1, <3>2 DEF Char
  <2> QED  BY <2>5, <2>6, SeqEqual DEF Names
<1>2. ASSUME s = t PROVE Matches(s, t)
  <2>1. CASE Len(s) < NAME
    <3>1. Len(s) \in 0 .. NAME - 1 /\ Char(s, Len(s)) = Nul
      <4>1. Len(s) <= Len(s)
        BY <1>0, SMT
      <4> QED  BY <1>0, <2>1, <4>1, CharEnds, SMT
    <3> QED  BY <1>2, <3>1 DEF Matches
  <2>2. CASE ~(Len(s) < NAME)
    <3>1. NAME - 1 \in 0 .. NAME - 1
      BY <1>0, SMT
    <3> QED  BY <1>2, <3>1 DEF Matches
  <2> QED  BY <2>1, <2>2
<1> QED  BY <1>1, <1>2

(* The names of the slots are names, and none of an unused slot matches.   *)
LEMMA SlotTyped ==
    ASSUME NEW k \in 0 .. DIR - 1
    PROVE  /\ Slot(k).file_name \in Names
           /\ Len(Slot(k).file_name) <= NAME
           /\ k < Len(dir_entries) =>
                 /\ k + 1 \in DOMAIN dir_entries /\ Slot(k) = dir_entries[k + 1]
                 /\ Slot(k).file_type \in Kinds /\ Slot(k).inode_number \in 0 .. INODES
           /\ ~(k < Len(dir_entries)) => Slot(k).file_name = << >>
<1>0. k \in Nat /\ DOMAIN dir_entries = 1 .. Len(dir_entries) /\ Len(dir_entries) \in Nat
  BY TableSizes, FileSysAssumption, LenProperties, SMT
<1>1. CASE k < Len(dir_entries)
  <2>1. k + 1 \in 1 .. Len(dir_entries)
    BY <1>0, <1>1, SMT
  <2>2. /\ dir_entries[k + 1] \in Entries
        /\ Len(dir_entries[k + 1].file_name) \in 1 .. NAME
        /\ dir_entries[k + 1].inode_number \in 0 .. INODES
    BY <2>1, FileSysAssumption, ElementOfSeq
  <2>3. Len(dir_entries[k + 1].file_name) <= NAME
    BY <2>2, TableSizes, SMT
  <2> QED  BY <1>0, <1>1, <2>1, <2>2, <2>3 DEF Slot, Entries
<1>2. CASE ~(k < Len(dir_entries))
  <2>1. << >> \in Names /\ Len(<< >>) = 0
    BY EmptySeq DEF Names
  <2> QED  BY <1>2, <2>1, TableSizes, SMT DEF Slot, Unused
<1> QED  BY <1>1, <1>2

(* A look-up by a name the code accepts finds the first entry of exactly   *)
(* that name, or nothing if there is none.                                 *)
LEMMA LookupIsExact ==
    ASSUME NEW name \in Names, Len(name) \in 1 .. NAME
    PROVE  read_dentry_by_name(name) = FirstNamed(name)
<1> DEFINE found == {k \in 0 .. DIR - 1 : Matches(name, Slot(k).file_name)}
           named == {k \in DOMAIN dir_entries : dir_entries[k].file_name = name}
<1>0. /\ DIR \in Nat /\ DOMAIN dir_entries = 1 .. Len(dir_entries)
      /\ Len(dir_entries) \in Nat /\ Len(dir_entries) <= DIR
      /\ Len(name) <= NAME /\ Len(name) # 0
  BY TableSizes, FileSysAssumption, LenProperties, SMT
<1>1. ASSUME NEW k \in 0 .. DIR - 1
      PROVE  k \in found <=> k + 1 \in named
  <2>1. k \in found <=> name = Slot(k).file_name
    BY <1>0, SlotTyped, MatchesExact
  <2>2. CASE k < Len(dir_entries)
    BY <2>1, <2>2, SlotTyped
  <2>3. CASE ~(k < Len(dir_entries))
    <3>1. name # << >>
      BY <1>0, EmptySeq
    <3>2. ~(k + 1 \in DOMAIN dir_entries)
      BY <1>0, <2>3, SMT
    <3> QED  BY <2>1, <2>3, <3>1, <3>2, SlotTyped
  <2> QED  BY <2>2, <2>3
<1>2. \A m \in named : m - 1 \in 0 .. DIR - 1 /\ (m - 1) + 1 = m /\ m \in Nat
  BY <1>0, SMT
<1>3. found \subseteq Nat /\ named \subseteq Nat
  BY <1>0, <1>2, SMT
<1> HIDE DEF found, named
<1>4. found = {} <=> named = {}
  <2>1. found # {} => named # {}
    BY <1>1 DEF found
  <2>2. ASSUME NEW m \in named PROVE found # {}
    BY <1>1, <1>2
  <2> QED  BY <2>1, <2>2
<1>5. CASE named = {}
  BY <1>4, <1>5 DEF read_dentry_by_name, FirstNamed, found, named
<1>6. CASE named # {}
  <2>1. PICK k : k = CHOOSE j \in found : \A m \in found : j <= m
    OBVIOUS
  <2>2. PICK n : n = CHOOSE j \in named : \A m \in named : j <= m
    OBVIOUS
  <2>3. /\ k \in found /\ \A m \in found : k <= m
        /\ n \in named /\ \A m \in named : n <= m
    BY <1>3, <1>4, <1>6, <2>1, <2>2, Least
  <2>4. k \in 0 .. DIR - 1 /\ k + 1 \in named /\ n - 1 \in found
    <3>1. k \in 0 .. DIR - 1
      BY <2>3 DEF found
    <3>2. n - 1 \in found
      BY <1>1, <1>2, <2>3
    <3> QED  BY <1>1, <2>3, <3>1, <3>2
  <2>5. n = k + 1
    <3>1. n <= k + 1 /\ k <= n - 1
      BY <2>3, <2>4
    <3>2. n \in Nat /\ k \in Nat
      BY <1>3, <2>3
    <3> QED  BY <3>1, <3>2, SMT
  <2>6. k < Len(dir_entries)
    <3>1. k + 1 \in DOMAIN dir_entries
      BY <2>4 DEF named
    <3> QED  BY <1>0, <2>4, <3>1, SMT
  <2>7. Slot(k) = dir_entries[n]
    BY <2>4, <2>5, <2>6, SlotTyped
  <2>8. read_dentry_by_name(name) = Slot(k)
    BY <1>4, <1>6, <2>1 DEF read_dentry_by_name, found
  <2>9. FirstNamed(name) = dir_entries[n]
    BY <1>6, <2>2 DEF FirstNamed, named
  <2> QED  BY <2>7, <2>8, <2>9
<1> QED  BY <1>5, <1>6

(* What a look-up returns: nothing, or an entry of the directory.          *)
LEMMA LookupTyped ==
    ASSUME NEW name \in Names, Len(name) \in 1 .. NAME
    PROVE  LET e == read_dentry_by_name(name)
           IN  e # NoEntry =>
                  /\ e.file_type \in Kinds
                  /\ e.inode_number \in 0 .. INODES
                  /\ e.file_type = "file" => e.inode_number \in FileInodes
<1> DEFINE named == {k \in DOMAIN dir_entries : dir_entries[k].file_name = name}
<1>1. read_dentry_by_name(name) = FirstNamed(name)
  BY LookupIsExact
<1>2. named \subseteq Nat
  BY FileSysAssumption, LenProperties, SMT
<1>3. CASE named # {}
  <2>1. PICK n \in named : FirstNamed(name) = dir_entries[n]
    BY <1>2, <1>3, Least DEF FirstNamed
  <2>2. n \in 1 .. Len(dir_entries) /\ dir_entries[n] \in Entries
    BY FileSysAssumption, LenProperties, ElementOfSeq
  <2>3. dir_entries[n].inode_number \in 0 .. INODES
    BY <2>2, FileSysAssumption
  <2>4. dir_entries[n] \in Range(dir_entries)
    BY <2>1 DEF Range
  <2> QED  BY <1>1, <2>1, <2>2, <2>3, <2>4 DEF Entries, FileInodes
<1>4. CASE named = {}
  BY <1>1, <1>4 DEF FirstNamed
<1> QED  BY <1>3, <1>4

(***************************************************************************)
(* Reads: a position that is in the file, or in the directory, stays there.*)
(***************************************************************************)
Length(i) == inode_table[i].length_in_bytes

LEMMA ReadStaysInFile ==
    ASSUME NEW i \in 0 .. INODES, NEW p \in 0 .. Length(i), NEW n \in Uints,
           file_read(i, p, n).retval # FAILURE
    PROVE  p + file_read(i, p, n).retval \in 0 .. Length(i)
<1>1. Length(i) \in Nat /\ p \in Nat /\ n \in Nat /\ UINT_MAX \in Nat
  <2>1. Length(i) \in Ints
    BY FileSysAssumption DEF Length
  <2>2. Length(i) \in Nat
    BY <2>1, TableSizes
  <2> QED  BY <2>2, TableSizes, SMT DEF Uints
<1>2. (p + n) % (UINT_MAX + 1) \in Nat
  BY <1>1, SMT
<1>3. UpperBound(i, p, n) \in 0 .. Length(i)
  BY <1>1, <1>2, SMT DEF UpperBound, Length
<1>4. file_read(i, p, n).retval = UpperBound(i, p, n) - p
  BY DEF file_read, read_data
<1> QED  BY <1>1, <1>3, <1>4, SMT

LEMMA ReadStaysInDirectory ==
    ASSUME NEW p \in 0 .. DIR, NEW n, directory_read(p, n).retval # FAILURE
    PROVE  p + 1 \in 0 .. DIR
BY TableSizes, SMT DEF directory_read

(***************************************************************************)
(* The inductive invariant.                                                *)
(***************************************************************************)
Standard ==
    /\ ops[0].read \in {Null, "terminal"}
    /\ flags[0] = 1 => ops[0].read = "terminal"
    /\ flags[1] = 1 => ops[1].write = "terminal"

Calls ==
    /\ pc \in {"marked", "closable"} =>
          /\ filename \in Filenames
          /\ flags[fd_local] = 1
          /\ inode[fd_local] = 0
          /\ file_position[fd_local] = 0
          /\ \A e \in UserFds : e < fd_local => flags[e] = 1
    /\ pc = "marked" => ops[fd_local] = NoOps
    /\ pc = "closable" =>
          file_to_open # NoEntry /\ ops[fd_local].close = file_to_open.file_type
    /\ pc = "uncloseable" => flags[fd_local] = 1

InFile(fd) ==
    /\ ops[fd] = OpsOf("file") => file_position[fd] \in 0 .. Length(inode[fd])
    /\ ops[fd] = OpsOf("directory") => file_position[fd] \in 0 .. DIR
EntryAt(fd) == ShutEntry(fd) \/ (OpenEntry(fd) /\ InFile(fd))
Sound == \A fd \in UserFds : ~Held(fd) => EntryAt(fd)

IInv ==
    /\ TypeOK
    /\ Standard
    /\ Calls
    /\ Sound
    /\ SlotClean

Kept(fd) ==
    /\ flags'[fd] = flags[fd]
    /\ ops'[fd] = ops[fd]
    /\ inode'[fd] = inode[fd]
    /\ file_position'[fd] = file_position[fd]

LEMMA KeptEntry ==
    ASSUME NEW fd, Kept(fd)
    PROVE  /\ EntryAt(fd) => EntryAt(fd)'
           /\ ShutEntry(fd) => ShutEntry(fd)'
BY DEF Kept, EntryAt, ShutEntry, OpenEntry, InFile

(* OpsOf is one-to-one and sets every pointer.                             *)
LEMMA OpsOfKind ==
    ASSUME NEW k \in Kinds
    PROVE  /\ OpsOf(k).read = k /\ OpsOf(k).write = k /\ OpsOf(k).close = k
           /\ k # Null /\ k # "closed" /\ k \in Pointers
           /\ OpsOf(k) # NoOps
           /\ OpsOf(k) = OpsOf("file") => k = "file"
           /\ OpsOf(k) = OpsOf("directory") => k = "directory"
BY DEF OpsOf, Kinds, Null, NoOps, Pointers

LEMMA InitIInv == Init => IInv
<1> SUFFICES ASSUME Init PROVE IInv
  OBVIOUS
<1>1. NoOps \in [close : Pointers, read : Pointers, write : Pointers]
  BY DEF NoOps, Pointers
<1>2. TypeOK
  BY <1>1, TableSizes DEF Init, TypeOK, PCs
<1>3. Standard
  BY TableSizes DEF Init, Standard, NoOps
<1>4. Calls
  BY DEF Init, Calls
<1>5. Sound /\ SlotClean
  BY TableSizes DEF Init, Sound, SlotClean, EntryAt, ShutEntry
<1> QED  BY <1>2, <1>3, <1>4, <1>5 DEF IInv

LEMMA ExecuteIInv == IInv /\ Execute => IInv'
<1> SUFFICES ASSUME IInv, Execute PROVE IInv'
  OBVIOUS
<1>1. TypeOK'
  <2>1. ops' = [ops EXCEPT ![0].read = "terminal", ![1].write = "terminal"]
    BY DEF Execute
  <2>2. ops' \in [Fds -> [close : Pointers, read : Pointers, write : Pointers]]
    <3> DEFINE T == [close : Pointers, read : Pointers, write : Pointers]
               o == [ops EXCEPT ![0].read = "terminal"]
    <3>1. o \in [Fds -> T]
      <4>1. ops \in [Fds -> T] /\ 0 \in Fds /\ "terminal" \in Pointers
        BY TableSizes DEF IInv, TypeOK, Pointers
      <4>2. [ops[0] EXCEPT !.read = "terminal"] \in T
        BY <4>1
      <4> QED  BY <4>1, <4>2
    <3>2. ops' = [o EXCEPT ![1].write = "terminal"]
      BY <2>1
    <3> HIDE DEF o
    <3>3. [o[1] EXCEPT !.write = "terminal"] \in T
      BY <3>1, TableSizes DEF Pointers
    <3> QED  BY <3>1, <3>2, <3>3
  <2> QED  BY <2>2, TableSizes DEF IInv, TypeOK, Execute, PCs
<1>2. Standard'
  BY TableSizes DEF IInv, TypeOK, Execute, Standard
<1>3. Calls' /\ SlotClean'
  BY DEF Execute, Calls, SlotClean
<1>4. ASSUME NEW fd \in UserFds PROVE EntryAt(fd)'
  <2>1. Kept(fd)
    BY TableSizes DEF IInv, TypeOK, Execute, Kept
  <2>2. EntryAt(fd)
    BY DEF IInv, SlotClean, Execute, EntryAt
  <2> QED  BY <2>1, <2>2, KeptEntry
<1> QED  BY <1>1, <1>2, <1>3, <1>4 DEF IInv, Sound

LEMMA OpenMarkIInv ==
    ASSUME NEW fd \in UserFds, NEW name \in Filenames
    PROVE  IInv /\ OpenMark(fd, name) => IInv'
<1> SUFFICES ASSUME IInv, OpenMark(fd, name) PROVE IInv'
  OBVIOUS
<1>0. /\ fd \in Fds /\ flags[fd] = 0 /\ pc = "user" /\ fd # 0 /\ fd # 1
      /\ \A e \in UserFds : e < fd => flags[e] = 1
  BY TableSizes DEF OpenMark, FirstFree
<1>1. TypeOK'
  BY <1>0, TableSizes DEF IInv, TypeOK, OpenMark, PCs
<1>2. Standard'
  BY <1>0, TableSizes DEF IInv, TypeOK, OpenMark, Standard
<1>3. ShutEntry(fd)
  BY <1>0 DEF IInv, Sound, Held, InCall, EntryAt, OpenEntry
<1>4. Calls'
  BY <1>0, <1>3, TableSizes DEF IInv, TypeOK, OpenMark, Calls, ShutEntry
<1>5. SlotClean'
  BY DEF OpenMark, SlotClean
<1>6. ASSUME NEW e \in UserFds, ~Held(e)' PROVE EntryAt(e)'
  <2>1. e # fd
    BY <1>6 DEF OpenMark, Held, InCall
  <2>2. Kept(e)
    BY <1>0, <2>1, TableSizes DEF IInv, TypeOK, OpenMark, Kept
  <2>3. EntryAt(e)
    BY <1>0 DEF IInv, Sound, Held, InCall
  <2> QED  BY <2>2, <2>3, KeptEntry
<1> QED  BY <1>1, <1>2, <1>4, <1>5, <1>6 DEF IInv, Sound

LEMMA OpenNoSuchNameIInv == IInv /\ OpenNoSuchName => IInv'
<1> SUFFICES ASSUME IInv, OpenNoSuchName PROVE IInv'
  OBVIOUS
<1>0. /\ fd_local \in UserFds /\ fd_local \in Fds /\ fd_local # 0 /\ fd_local # 1
      /\ flags' = [flags EXCEPT ![fd_local] = 0]
      /\ pc = "marked" /\ pc' = "user" /\ filename' = NoName
      /\ UNCHANGED << ops, inode, file_position, fd_local >>
  BY TableSizes DEF IInv, TypeOK, OpenNoSuchName, DropClaim
<1>1. TypeOK'
  BY <1>0 DEF IInv, TypeOK, PCs
<1>2. Standard'
  BY <1>0, TableSizes DEF IInv, TypeOK, Standard
<1>3. Calls' /\ SlotClean'
  BY <1>0 DEF Calls, SlotClean
<1>4. ASSUME NEW e \in UserFds PROVE EntryAt(e)'
  <2>1. CASE e = fd_local
    BY <1>0, <2>1 DEF IInv, TypeOK, Calls, EntryAt, ShutEntry
  <2>2. CASE e # fd_local
    <3>1. Kept(e)
      BY <1>0, <2>2, TableSizes DEF IInv, TypeOK, Kept
    <3>2. EntryAt(e)
      BY <1>0, <2>2 DEF IInv, Sound, Held
    <3> QED  BY <3>1, <3>2, KeptEntry
  <2> QED  BY <2>1, <2>2
<1> QED  BY <1>1, <1>2, <1>3, <1>4 DEF IInv, Sound

(* The name sys_open works on is one the code accepts.                     *)
LEMMA NameKnown ==
    ASSUME IInv, pc \in {"marked", "closable"}
    PROVE  filename \in Names /\ Len(filename) \in 1 .. NAME
BY TableAssumption DEF IInv, Calls

LEMMA OpenFoundIInv == IInv /\ OpenFound => IInv'
<1> SUFFICES ASSUME IInv, OpenFound PROVE IInv'
  OBVIOUS
<1>0. /\ fd_local \in UserFds /\ fd_local \in Fds /\ fd_local # 0 /\ fd_local # 1
      /\ file_to_open # NoEntry
      /\ ops' = [ops EXCEPT ![fd_local].close = file_to_open.file_type]
      /\ pc = "marked" /\ pc' = "closable"
      /\ UNCHANGED << flags, inode, file_position, fd_local, filename >>
  BY TableSizes DEF IInv, TypeOK, OpenFound
<1>1. file_to_open.file_type \in Pointers
  BY <1>0, NameKnown, LookupTyped DEF file_to_open, Pointers
<1>2. TypeOK'
  BY <1>0, <1>1 DEF IInv, TypeOK, PCs
<1>3. Standard'
  BY <1>0, TableSizes DEF IInv, TypeOK, Standard
<1>4. Calls'
  BY <1>0 DEF IInv, TypeOK, Calls, file_to_open
<1>5. SlotClean'
  BY <1>0 DEF SlotClean
<1>6. ASSUME NEW e \in UserFds, ~Held(e)' PROVE EntryAt(e)'
  <2>1. e # fd_local
    BY <1>0, <1>6 DEF Held, InCall
  <2>2. Kept(e)
    BY <1>0, <2>1, TableSizes DEF IInv, TypeOK, Kept
  <2>3. EntryAt(e)
    BY <1>0, <2>1 DEF IInv, Sound, Held
  <2> QED  BY <2>2, <2>3, KeptEntry
<1> QED  BY <1>2, <1>3, <1>4, <1>5, <1>6 DEF IInv, Sound

LEMMA OpenInstallIInv == IInv /\ OpenInstall => IInv'
<1> SUFFICES ASSUME IInv, OpenInstall PROVE IInv'
  OBVIOUS
<1> DEFINE k == file_to_open.file_type
           i == IF k = "file" THEN file_to_open.inode_number ELSE inode[fd_local]
<1>0. /\ fd_local \in UserFds /\ fd_local \in Fds /\ fd_local # 0 /\ fd_local # 1
      /\ ops' = [ops EXCEPT ![fd_local].read = k, ![fd_local].write = k]
      /\ inode' = [inode EXCEPT ![fd_local] = i]
      /\ pc = "closable" /\ pc' = "user" /\ filename' = NoName
      /\ UNCHANGED << flags, file_position, fd_local >>
  BY TableSizes DEF IInv, TypeOK, OpenInstall
<1>1. /\ k \in Kinds /\ k \in Pointers
      /\ file_to_open.inode_number \in 0 .. INODES
      /\ k = "file" => file_to_open.inode_number \in FileInodes
  BY <1>0, NameKnown, LookupTyped DEF IInv, Calls, file_to_open, Pointers
<1>2. ops[fd_local].close = k /\ ops'[fd_local] = OpsOf(k)
  <2>1. ops[fd_local].close = k
    BY <1>0 DEF IInv, Calls
  <2> QED  BY <1>0, <2>1 DEF IInv, TypeOK, OpsOf
<1>3. i \in 0 .. INODES /\ inode'[fd_local] = i
  BY <1>0, <1>1 DEF IInv, TypeOK
<1>4. TypeOK'
  BY <1>0, <1>1, <1>3 DEF IInv, TypeOK, PCs
<1>5. Standard'
  BY <1>0, TableSizes DEF IInv, TypeOK, Standard
<1>6. Calls' /\ SlotClean'
  BY <1>0 DEF Calls, SlotClean
<1>7. flags'[fd_local] = 1 /\ file_position'[fd_local] = 0 /\ inode[fd_local] = 0
  BY <1>0 DEF IInv, Calls
<1>8. OpenEntry(fd_local)'
  <2>1. flags'[fd_local'] = 1 /\ ops'[fd_local'] = OpsOf(k)
    BY <1>0, <1>2, <1>7
  <2>2. inode'[fd_local'] \in IF k = "file" THEN FileInodes ELSE {0}
    BY <1>0, <1>1, <1>3, <1>7
  <2> QED  BY <1>1, <2>1, <2>2 DEF OpenEntry
<1>9. InFile(fd_local)'
  <2>1. Length(i) \in Nat
    BY <1>3, FileSysAssumption, TableSizes DEF Length
  <2>2. 0 \in 0 .. Length(i) /\ 0 \in 0 .. DIR
    BY <2>1, TableSizes, SMT
  <2> QED  BY <1>0, <1>3, <1>7, <2>2 DEF InFile
<1>10. ASSUME NEW e \in UserFds, e # fd_local PROVE EntryAt(e)'
  <2>1. Kept(e)
    BY <1>0, <1>10, TableSizes DEF IInv, TypeOK, Kept
  <2>2. EntryAt(e)
    BY <1>0, <1>10 DEF IInv, Sound, Held
  <2> QED  BY <2>1, <2>2, KeptEntry
<1>11. Sound'
  BY <1>0, <1>8, <1>9, <1>10 DEF Sound, EntryAt
<1> QED  BY <1>4, <1>5, <1>6, <1>11 DEF IInv

LEMMA CloseStartIInv ==
    ASSUME NEW fd \in UserFds PROVE IInv /\ CloseStart(fd) => IInv'
<1> SUFFICES ASSUME IInv, CloseStart(fd) PROVE IInv'
  OBVIOUS
<1>0. /\ fd \in Fds /\ fd # 0 /\ fd # 1 /\ flags[fd] = 1
      /\ ops' = [ops EXCEPT ![fd].close = Null]
      /\ fd_local' = fd /\ pc = "user" /\ pc' = "uncloseable"
      /\ UNCHANGED << flags, inode, file_position, filename >>
  BY TableSizes DEF CloseStart, Admits
<1>1. TypeOK'
  BY <1>0 DEF IInv, TypeOK, PCs, Pointers
<1>2. Standard'
  BY <1>0, TableSizes DEF IInv, TypeOK, Standard
<1>3. Calls' /\ SlotClean'
  BY <1>0 DEF Calls, SlotClean
<1>4. ASSUME NEW e \in UserFds, ~Held(e)' PROVE EntryAt(e)'
  <2>1. e # fd
    BY <1>0, <1>4 DEF Held, InCall
  <2>2. Kept(e)
    BY <1>0, <2>1, TableSizes DEF IInv, TypeOK, Kept
  <2>3. EntryAt(e)
    BY <1>0 DEF IInv, Sound, Held, InCall
  <2> QED  BY <2>2, <2>3, KeptEntry
<1> QED  BY <1>1, <1>2, <1>3, <1>4 DEF IInv, Sound

LEMMA CloseFinishIInv == IInv /\ CloseFinish => IInv'
<1> SUFFICES ASSUME IInv, CloseFinish PROVE IInv'
  OBVIOUS
<1>0. /\ fd_local \in UserFds /\ fd_local \in Fds /\ fd_local # 0 /\ fd_local # 1
      /\ ops' = [ops EXCEPT ![fd_local] = NoOps]
      /\ file_position' = [file_position EXCEPT ![fd_local] = 0]
      /\ inode' = [inode EXCEPT ![fd_local] = 0]
      /\ flags' = [flags EXCEPT ![fd_local] = 0]
      /\ pc = "uncloseable" /\ pc' = "user"
      /\ UNCHANGED << fd_local, filename >>
  BY TableSizes DEF IInv, TypeOK, CloseFinish, ClearFlags
<1>1. TypeOK'
  <2>1. NoOps \in [close : Pointers, read : Pointers, write : Pointers]
    BY DEF NoOps, Pointers
  <2> QED  BY <1>0, <2>1, TableSizes DEF IInv, TypeOK, PCs
<1>2. Standard'
  BY <1>0, TableSizes DEF IInv, TypeOK, Standard
<1>3. Calls' /\ SlotClean'
  BY <1>0 DEF Calls, SlotClean
<1>4. ASSUME NEW e \in UserFds PROVE EntryAt(e)'
  <2>1. CASE e = fd_local
    BY <1>0, <2>1 DEF IInv, TypeOK, EntryAt, ShutEntry
  <2>2. CASE e # fd_local
    <3>1. Kept(e)
      BY <1>0, <2>2, TableSizes DEF IInv, TypeOK, Kept
    <3>2. EntryAt(e)
      BY <1>0, <2>2 DEF IInv, Sound, Held
    <3> QED  BY <3>1, <3>2, KeptEntry
  <2> QED  BY <2>1, <2>2
<1> QED  BY <1>1, <1>2, <1>3, <1>4 DEF IInv, Sound

(* A read through fd keeps the position where it should be: of a terminal  *)
(* and of the RTC it does not move, of a file or directory it moves as the *)
(* lemmas above say.                                                       *)
LEMMA ReadIInv ==
    ASSUME NEW fd \in Fds, NEW n \in ReadSizes PROVE IInv /\ Read(fd, n) => IInv'
<1> SUFFICES ASSUME IInv, Read(fd, n) PROVE IInv'
  OBVIOUS
<1> DEFINE k == ops[fd].read
           r == Result(fd, n).retval
           p == file_position[fd] + Moved(k, r, n)
<1>0. /\ pc = "user" /\ flags[fd] = 1 /\ fd # 1
      /\ file_position' = [file_position EXCEPT ![fd] = p]
      /\ UNCHANGED << flags, ops, inode, pc, fd_local, filename >>
  BY DEF Read, Admits
<1>1. file_position[fd] \in Ints /\ file_position[fd] \in Nat
  BY TableSizes DEF IInv, TypeOK
<1>2. CASE fd = 0
  <2>1. k = "terminal"
    BY <1>0, <1>2 DEF IInv, Standard
  <2>2. p = file_position[fd]
    BY <1>1, <2>1, SMT DEF Moved
  <2>3. file_position' = file_position
    BY <1>0, <2>2 DEF IInv, TypeOK
  <2> QED  BY <1>0, <2>3 DEF IInv, TypeOK, Standard, Calls, file_to_open, Sound, Held,
               InCall, EntryAt, ShutEntry, OpenEntry, InFile, SlotClean
<1>3. CASE fd # 0
  <2>1. fd \in UserFds
    BY <1>0, <1>3, TableSizes, SMT DEF Fds, UserFds, FD_START
  <2>2. EntryAt(fd) /\ ~ShutEntry(fd)
    BY <1>0, <2>1 DEF IInv, Sound, Held, InCall, ShutEntry
  <2>3. PICK j \in Kinds : /\ ops[fd] = OpsOf(j)
                           /\ inode[fd] \in IF j = "file" THEN FileInodes ELSE {0}
    BY <2>2 DEF EntryAt, OpenEntry
  <2>4. k = j /\ InFile(fd)
    BY <2>2, <2>3, OpsOfKind DEF EntryAt
  <2>5. /\ p \in Ints
        /\ j = "file" => p \in 0 .. Length(inode[fd])
        /\ j = "directory" => p \in 0 .. DIR
    <3>1. CASE j = "file" /\ r # FAILURE
      <4>1. r = file_read(inode[fd], file_position[fd], n).retval
        BY <2>4, <3>1 DEF Result
      <4>2. /\ inode[fd] \in 0 .. INODES /\ n \in Uints
            /\ file_position[fd] \in 0 .. Length(inode[fd])
        BY <2>1, <2>3, <2>4, <3>1, TableAssumption DEF IInv, TypeOK, InFile
      <4>3. p \in 0 .. Length(inode[fd])
        BY <2>4, <3>1, <4>1, <4>2, ReadStaysInFile DEF Moved
      <4>4. Length(inode[fd]) \in Ints
        BY <4>2, FileSysAssumption DEF Length
      <4> QED  BY <3>1, <4>3, <4>4, TableSizes, SMT DEF Ints
    <3>2. CASE j = "directory" /\ r # FAILURE
      <4>1. r = directory_read(file_position[fd], n).retval
        BY <2>4, <3>2 DEF Result
      <4>2. file_position[fd] \in 0 .. DIR
        BY <2>3, <2>4, <3>2 DEF InFile
      <4>3. file_position[fd] + 1 \in 0 .. DIR
        BY <3>2, <4>1, <4>2, ReadStaysInDirectory
      <4>4. p = file_position[fd] + 1
        BY <2>4, <3>2 DEF Moved
      <4> QED  BY <3>2, <4>3, <4>4, TableSizes, SMT DEF Ints
    <3>3. CASE ~(j = "file" /\ r # FAILURE) /\ ~(j = "directory" /\ r # FAILURE)
      <4>1. p = file_position[fd]
        BY <1>1, <2>4, <3>3, SMT DEF Moved
      <4> QED  BY <1>1, <2>3, <2>4, <4>1 DEF InFile
    <3> QED  BY <3>1, <3>2, <3>3
  <2>6. file_position'[fd] = p
    BY <1>0 DEF IInv, TypeOK
  <2>7. TypeOK'
    BY <1>0, <2>5 DEF IInv, TypeOK
  <2>8. EntryAt(fd)'
    <3>1. OpenEntry(fd)'
      BY <1>0, <2>2 DEF EntryAt, OpenEntry
    <3>2. InFile(fd)'
      BY <1>0, <2>3, <2>5, <2>6, OpsOfKind DEF InFile
    <3> QED  BY <3>1, <3>2 DEF EntryAt
  <2>9. ASSUME NEW e \in UserFds, ~Held(e)' PROVE EntryAt(e)'
    <3>1. CASE e # fd
      <4>1. Kept(e)
        BY <1>0, <3>1, TableSizes DEF IInv, TypeOK, Kept
      <4>2. EntryAt(e)
        BY <1>0 DEF IInv, Sound, Held, InCall
      <4> QED  BY <4>1, <4>2, KeptEntry
    <3> QED  BY <2>8, <3>1
  <2>10. Standard' /\ Calls' /\ SlotClean'
    BY <1>0 DEF IInv, Standard, Calls, SlotClean
  <2> QED  BY <2>7, <2>9, <2>10 DEF IInv, Sound
<1> QED  BY <1>2, <1>3

(* What sys_halt leaves: entries it closed are shut, the others are as they*)
(* were.                                                                   *)
LEMMA ClosingLeaves ==
    ASSUME IInv, NEW S, S \subseteq UserFds, Closing(S)
    PROVE  /\ flags' \in [Fds -> {0, 1}]
           /\ ops' \in [Fds -> [close : Pointers, read : Pointers, write : Pointers]]
           /\ inode' \in [Fds -> 0 .. INODES]
           /\ file_position' \in [Fds -> Ints]
           /\ \A fd \in S : ShutEntry(fd)'
           /\ \A fd \in Fds \ S : Kept(fd)
           /\ Standard'
<1>1. NoOps \in [close : Pointers, read : Pointers, write : Pointers]
  BY DEF NoOps, Pointers
<1>2. \A fd \in S : ShutEntry(fd)'
  BY TableSizes DEF Closing, ShutEntry
<1>3. \A fd \in Fds \ S : Kept(fd)
  BY DEF Closing, Kept
<1>4. 0 \in Fds \ S /\ 1 \in Fds \ S
  BY TableSizes
<1>5. Standard'
  BY <1>3, <1>4 DEF IInv, Standard, Kept
<1> QED  BY <1>1, <1>2, <1>3, <1>5, TableSizes DEF IInv, TypeOK, Closing

LEMMA HaltIInv == IInv /\ Halt => IInv'
<1> SUFFICES ASSUME IInv, Halt PROVE IInv'
  OBVIOUS
<1>1. /\ Closing(HaltCloses) /\ HaltCloses \subseteq UserFds
      /\ pc' = "free" /\ filename' = NoName /\ fd_local' = fd_local /\ pc # "faulting"
  BY DEF Halt, HaltCloses, InProgram
<1>2. TypeOK' /\ Standard'
  BY <1>1, ClosingLeaves DEF IInv, TypeOK, PCs
<1>3. ASSUME NEW fd \in UserFds PROVE ShutEntry(fd)'
  <2>1. CASE fd \in HaltCloses
    BY <1>1, <2>1, ClosingLeaves
  <2>2. CASE fd \notin HaltCloses
    <3>1. flags[fd] # 1
      BY <2>2 DEF HaltCloses
    <3>2. ~Held(fd)
      BY <1>1, <3>1 DEF IInv, Calls, Held, InCall
    <3>3. ShutEntry(fd)
      BY <3>1, <3>2 DEF IInv, Sound, EntryAt, OpenEntry
    <3>4. Kept(fd)
      BY <1>1, <2>2, ClosingLeaves, TableSizes
    <3> QED  BY <3>3, <3>4, KeptEntry
  <2> QED  BY <2>1, <2>2
<1>4. Calls'
  BY <1>1 DEF Calls
<1> QED  BY <1>2, <1>3, <1>4 DEF IInv, Sound, EntryAt, SlotClean

LEMMA HaltFaultsIInv == IInv /\ HaltFaults => IInv'
<1> SUFFICES ASSUME IInv, HaltFaults PROVE IInv'
  OBVIOUS
<1>1. PICK fd \in UserFds : Closing({e \in HaltCloses : e < fd})
  BY DEF HaltFaults
<1>2. /\ {e \in HaltCloses : e < fd} \subseteq UserFds
      /\ pc' = "faulting" /\ filename' = NoName /\ fd_local' = fd_local
  BY DEF HaltFaults, HaltCloses
<1>3. TypeOK' /\ Standard'
  BY <1>1, <1>2, ClosingLeaves DEF IInv, TypeOK, PCs
<1> QED  BY <1>2, <1>3 DEF IInv, Calls, Sound, Held, SlotClean

LEMMA NextIInv == IInv /\ [Next]_vars => IInv'
<1> SUFFICES ASSUME IInv, [Next]_vars PROVE IInv'
  OBVIOUS
<1>1. CASE UNCHANGED vars
  BY <1>1 DEF IInv, vars, entries, TypeOK, Standard, Calls, file_to_open, Sound, Held,
              InCall, EntryAt, ShutEntry, OpenEntry, InFile, SlotClean
<1>2. CASE Refused \/ FaultAgain \/ \E fd \in Fds : Write(fd)
  BY <1>1, <1>2 DEF Refused, FaultAgain, Write
<1> QED  BY <1>1, <1>2, ExecuteIInv, OpenMarkIInv, OpenNoSuchNameIInv, OpenFoundIInv,
            OpenInstallIInv, CloseStartIInv, CloseFinishIInv, ReadIInv, HaltIInv,
            HaltFaultsIInv DEF Next

THEOREM Invariance == Spec => []IInv
BY InitIInv, NextIInv, PTL DEF Spec

(* The table's variables keep their types; that positions stay int takes   *)
(* the whole invariant (file_sys_driver.c:323).                            *)
THEOREM AlwaysTyped == Spec => []TypeOK
BY Invariance, PTL DEF IInv

(* No system call jumps through a pointer that is not set (syscalls.c:370),*)
(* for every table and every directory.                                    *)
THEOREM AlwaysCallsDefined == Spec => []CallsDefined
<1>1. IInv => CallsDefined
  <2> SUFFICES ASSUME IInv, pc = "user", NEW fd \in Fds, flags[fd] = 1
               PROVE  /\ fd # 1 => ops[fd].read # Null
                      /\ fd # 0 => ops[fd].write # Null
                      /\ fd # 0 /\ fd # 1 => ops[fd].close # Null
    BY DEF CallsDefined, Admits
  <2>1. CASE fd = 0
    BY <2>1 DEF IInv, Standard, Null
  <2>2. CASE fd = 1
    BY <2>2 DEF IInv, Standard, Null
  <2>3. CASE fd # 0 /\ fd # 1
    <3>1. fd \in UserFds
      BY <2>3, TableSizes, SMT DEF Fds, UserFds, FD_START
    <3>2. OpenEntry(fd)
      BY <3>1 DEF IInv, Sound, Held, InCall, EntryAt, ShutEntry
    <3> QED  BY <3>2, OpsOfKind DEF OpenEntry
  <2> QED  BY <2>1, <2>2, <2>3
<1> QED  BY <1>1, Invariance, PTL

(* A slot is free only with its descriptors shut, though sys_execute never *)
(* clears them (syscalls.c:349): in whatever call, before or after         *)
(* whatever line the program was ended.                                    *)
THEOREM AlwaysSlotClean == Spec => []SlotClean
BY Invariance, PTL DEF IInv

(* Entries are whole between calls (syscalls.c:451).                       *)
THEOREM AlwaysWhole == Spec => []Whole
<1>1. IInv => Whole
  BY DEF IInv, Whole, Sound, Held, EntryAt
<1> QED  BY <1>1, Invariance, PTL

(* A position never leaves its file, for every size of block, every length *)
(* and every width of an unsigned (file_sys_driver.c:70).                  *)
THEOREM AlwaysPositionInFile == Spec => []PositionInFile
<1>1. IInv => PositionInFile
  <2> SUFFICES ASSUME IInv, NEW fd \in UserFds, NEW k \in {"file", "directory"},
                      Holding(fd, k)
               PROVE  InFile(fd)
    BY DEF PositionInFile, Holding, InFile, Length
  <2> QED  BY DEF IInv, Holding, Sound, Held, EntryAt, ShutEntry
<1> QED  BY <1>1, Invariance, PTL

(* A look-up finds exactly the name asked for, for every directory and     *)
(* every length of a name (file_sys_driver.c:247).                         *)
THEOREM AlwaysLookupExact == Spec => []LookupExact
<1>1. IInv => LookupExact
  <2> SUFFICES ASSUME IInv, filename # NoName
               PROVE  file_to_open = FirstNamed(filename)
    BY DEF LookupExact
  <2>1. filename \in Names /\ Len(filename) \in 1 .. NAME
    BY TableAssumption DEF IInv, TypeOK
  <2> QED  BY <2>1, LookupIsExact DEF file_to_open
<1> QED  BY <1>1, Invariance, PTL

(***************************************************************************)
(* What a file holds, byte for byte: Contents joins its blocks with        *)
(* FlattenSeq and cuts them at the length; the driver divides every index  *)
(* by the size of a block (file_sys_driver.c:195).                         *)
(***************************************************************************)
(* The quotient and the rest a multiple below x gives.                     *)
LEMMA RestOf ==
    ASSUME NEW B \in Nat, B > 0, NEW x \in Nat, NEW q \in Nat, q * B <= x, x < (q + 1) * B
    PROVE  x \div B = q /\ x % B = x - q * B
OBVIOUS

(* The quotient and the rest of a division, without products of unknowns.  *)
LEMMA Division ==
    ASSUME NEW B \in Nat \ {0}, NEW x \in Nat, NEW q \in Nat
    PROVE  /\ x \div B \in Nat /\ x % B \in 0 .. B - 1
           /\ x < q * B <=> x \div B < q
           /\ q * B <= x /\ x < q * B + B => x \div B = q /\ x % B = x - q * B
<1>1. x \div B \in Nat /\ x % B \in 0 .. B - 1
  OBVIOUS
<1>2. x < q * B <=> x \div B < q
  OBVIOUS
<1>3. ASSUME q * B <= x, x < q * B + B PROVE x \div B = q /\ x % B = x - q * B
  <2>1. (q + 1) * B = q * B + B /\ q * B \in Nat
    OBVIOUS
  <2>2. B \in Nat /\ B > 0 /\ q * B <= x /\ x < (q + 1) * B
    BY <1>3, <2>1
  <2> QED  BY <2>2, RestOf
<1> QED  BY <1>1, <1>2, <1>3

(* As many blocks as are needed hold at least x bytes.                     *)
LEMMA RoundedUp ==
    ASSUME NEW B \in Nat \ {0}, NEW x \in Nat
    PROVE  /\ (x + B - 1) \div B \in Nat
           /\ x <= ((x + B - 1) \div B) * B
BY SMT

(* Pieces of B values each, joined: the value at x is that of the piece    *)
(* x \div B at x % B. FlattenSeq defines the joined beginnings one from    *)
(* the other; the least one that is not as stated would follow from one    *)
(* that is.                                                                *)
LEMMA FlattenPieces ==
    ASSUME NEW S, NEW B \in Nat \ {0}, NEW pieces \in Seq([1 .. B -> S])
    PROVE  FlattenSeq(pieces) =
               [x \in 1 .. Len(pieces) * B |-> pieces[(x - 1) \div B + 1][((x - 1) % B) + 1]]
<1> DEFINE n == Len(pieces)
           first(i) == [x \in 1 .. i * B |-> pieces[(x - 1) \div B + 1][((x - 1) % B) + 1]]
           closed == [i \in 1 .. n |-> first(i)]
           IsFlatten(f) == f = [i \in 1 .. n |-> IF i = 1 THEN pieces[i]
                                                 ELSE f[i - 1] \o pieces[i]]
           flatten == CHOOSE f : IsFlatten(f)
<1>1. n \in Nat /\ \A i \in 1 .. n : pieces[i] \in [1 .. B -> S]
  BY LenProperties, ElementOfSeq
<1>2. ASSUME NEW i \in 1 .. n
      PROVE  /\ first(i) \in Seq(S) /\ Len(first(i)) = i * B
             /\ pieces[i] \in Seq(S) /\ Len(pieces[i]) = B
             /\ i * B \in Nat
  <2>1. i * B \in Nat /\ B \in Nat
    BY <1>1
  <2>2. ASSUME NEW x \in 1 .. i * B
        PROVE  pieces[(x - 1) \div B + 1][((x - 1) % B) + 1] \in S
    <3>1. x - 1 \in Nat /\ i \in Nat /\ x - 1 < i * B
      BY <1>1, <2>1
    <3>2. (x - 1) \div B \in Nat /\ (x - 1) \div B < i /\ (x - 1) % B \in 0 .. B - 1
      BY <3>1, Division
    <3>3. (x - 1) \div B + 1 \in 1 .. n /\ ((x - 1) % B) + 1 \in 1 .. B
      BY <1>1, <3>1, <3>2
    <3> QED  BY <1>1, <3>3
  <2>3. first(i) \in [1 .. i * B -> S] /\ pieces[i] \in [1 .. B -> S]
    BY <1>1, <2>2
  <2> HIDE DEF first
  <2> QED  BY <2>1, <2>3, SeqDef
<1>3. ASSUME 1 \in 1 .. n PROVE first(1) = pieces[1]
  <2>1. 1 * B = B /\ pieces[1] \in [1 .. B -> S]
    BY <1>1, <1>3
  <2>2. ASSUME NEW x \in 1 .. B PROVE (x - 1) \div B + 1 = 1 /\ ((x - 1) % B) + 1 = x
    <3>1. x - 1 \in Nat /\ 0 * B <= x - 1 /\ x - 1 < 0 * B + B
      BY <2>2
    <3>2. (x - 1) \div B = 0 /\ (x - 1) % B = (x - 1) - 0 * B
      BY <3>1, Division
    <3> QED  BY <3>1, <3>2
  <2>3. first(1) = [x \in 1 .. B |-> pieces[1][x]]
    BY <2>1, <2>2
  <2> HIDE DEF first
  <2> QED  BY <2>1, <2>3
<1>4. ASSUME NEW i \in 2 .. n PROVE first(i) = first(i - 1) \o pieces[i]
  <2> DEFINE a == (i - 1) * B
  <2>1. i \in 1 .. n /\ i - 1 \in 1 .. n /\ i - 1 \in Nat
    BY <1>1, <1>4
  <2>2. a \in Nat /\ i * B = a + B /\ B \in Nat
    BY <2>1
  <2>3. first(i - 1) = [x \in 1 .. a |-> pieces[(x - 1) \div B + 1][((x - 1) % B) + 1]]
    OBVIOUS
  <2>4. first(i) = [x \in 1 .. a + B |-> pieces[(x - 1) \div B + 1][((x - 1) % B) + 1]]
    BY <2>2
  <2>5. ASSUME NEW x \in Nat, a <= x - 1, x - 1 < a + B, x - 1 \in Nat
        PROVE  (x - 1) \div B + 1 = i /\ ((x - 1) % B) + 1 = x - a
    <3>1. (x - 1) \div B = i - 1 /\ (x - 1) % B = (x - 1) - a
      BY <2>1, <2>5, Division
    <3> HIDE DEF a
    <3> QED  BY <2>1, <2>2, <2>5, <3>1
  <2>6. /\ first(i - 1) \in Seq(S) /\ Len(first(i - 1)) = a
        /\ first(i) \in Seq(S) /\ Len(first(i)) = a + B
        /\ pieces[i] \in Seq(S) /\ Len(pieces[i]) = B
    BY <1>2, <2>1, <2>2
  <2> HIDE DEF first, a
  <2>7. ASSUME NEW x \in 1 .. a + B
        PROVE  first(i)[x] = IF x <= a THEN first(i - 1)[x] ELSE pieces[i][x - a]
    <3>1. CASE x <= a
      BY <2>2, <2>3, <2>4, <3>1
    <3>2. CASE x > a
      <4>1. x \in Nat /\ x - 1 \in Nat /\ a <= x - 1 /\ x - 1 < a + B
        BY <2>2, <3>2
      <4>2. first(i)[x] = pieces[(x - 1) \div B + 1][((x - 1) % B) + 1]
        BY <2>4
      <4>3. first(i)[x] = pieces[i][x - a]
        BY <2>5, <4>1, <4>2
      <4> QED  BY <2>2, <3>2, <4>3
    <3> QED  BY <2>2, <3>1, <3>2
  <2>8. /\ first(i - 1) \o pieces[i] \in Seq(S)
        /\ Len(first(i - 1) \o pieces[i]) = a + B
        /\ \A x \in 1 .. a + B : (first(i - 1) \o pieces[i])[x] =
              IF x <= a THEN first(i - 1)[x] ELSE pieces[i][x - a]
    BY <2>6, ConcatProperties
  <2>9. \A x \in 1 .. a + B : first(i)[x] = (first(i - 1) \o pieces[i])[x]
    BY <2>7, <2>8
  <2>10. \A s, t \in Seq(S) : Len(s) = a + B /\ Len(t) = a + B
                              /\ (\A x \in 1 .. a + B : s[x] = t[x]) => s = t
    BY SeqEqual
  <2> QED  BY <2>6, <2>8, <2>9, <2>10
<1> HIDE DEF first
<1>5. IsFlatten(closed)
  <2>1. /\ closed = [i \in 1 .. n |-> closed[i]]
        /\ \A i \in 1 .. n : closed[i] = first(i)
    OBVIOUS
  <2> HIDE DEF closed
  <2>2. ASSUME NEW i \in 1 .. n
        PROVE  closed[i] = IF i = 1 THEN pieces[i] ELSE closed[i - 1] \o pieces[i]
    <3>1. CASE i = 1
      BY <1>3, <2>1, <3>1
    <3>2. CASE i # 1
      <4>1. i \in 2 .. n /\ i - 1 \in 1 .. n
        BY <1>1, <3>2
      <4>2. closed[i] = first(i) /\ closed[i - 1] = first(i - 1)
        BY <2>1, <4>1
      <4>3. first(i) = first(i - 1) \o pieces[i]
        BY <1>4, <4>1
      <4> QED  BY <3>2, <4>2, <4>3
    <3> QED  BY <3>1, <3>2
  <2> QED  BY <2>1, <2>2
<1>6. IsFlatten(flatten)
  BY <1>5
<1> HIDE DEF flatten
<1>7. \A i \in 1 .. n : flatten[i] = first(i)
  <2> DEFINE wrong == {i \in 1 .. n : flatten[i] # first(i)}
  <2> SUFFICES ASSUME wrong # {} PROVE FALSE
    OBVIOUS
  <2>1. PICK m \in wrong : \A k \in wrong : m <= k
    <3>1. wrong \subseteq Nat
      BY <1>1
    <3> HIDE DEF wrong
    <3> QED  BY <3>1, Least
  <2>2. m \in 1 .. n /\ flatten[m] # first(m)
    BY <2>1
  <2>3. flatten[m] = IF m = 1 THEN pieces[m] ELSE flatten[m - 1] \o pieces[m]
    BY <1>6, <2>2
  <2>4. CASE m = 1
    BY <1>3, <2>2, <2>3, <2>4
  <2>5. CASE m # 1
    <3>1. m \in 2 .. n /\ m - 1 \in 1 .. n /\ ~(m <= m - 1)
      BY <1>1, <2>2, <2>5
    <3>2. flatten[m - 1] = first(m - 1)
      BY <2>1, <3>1
    <3> QED  BY <1>4, <2>2, <2>3, <2>5, <3>1, <3>2
  <2> QED  BY <2>4, <2>5
<1>8. CASE n = 0
  <2>1. FlattenSeq(pieces) = pieces /\ pieces = << >>
    BY <1>8, EmptySeq DEF FlattenSeq
  <2>2. n * B = 0
    BY <1>8
  <2>3. first(n) = << >>
    BY <2>2 DEF first
  <2> QED  BY <2>1, <2>3 DEF first
<1>9. CASE n # 0
  <2>1. FlattenSeq(pieces) = flatten[n]
    BY <1>9 DEF FlattenSeq, flatten
  <2>2. n \in 1 .. n
    BY <1>1, <1>9
  <2> QED  BY <1>7, <2>1, <2>2 DEF first
<1> QED  BY <1>8, <1>9

(* The blocks of a file, one after the other and cut at its length, hold   *)
(* at k the byte that block k \div BLOCK holds at k % BLOCK.               *)
LEMMA FileContent ==
    ASSUME NEW e, e.file_type = "file", e.inode_number \in 0 .. INODES
    PROVE  LET i == e.inode_number
           IN  /\ \E S : Content(e) \in Seq(S)
               /\ Len(Content(e)) = Length(i) /\ Length(i) \in Nat
               /\ \A k \in 0 .. Length(i) - 1 :
                     BlockOf(i, k) \in DOMAIN data =>
                         Content(e)[k + 1] = data[BlockOf(i, k)][k % BLOCK]
<1> DEFINE i == e.inode_number
           node == inode_table[i]
           L == Length(i)
           nb == (L + BLOCK - 1) \div BLOCK
           block(j) == node.data_blocks[j - 1]
           S == {Bytes(block(j))[o] : j \in 1 .. nb, o \in 1 .. BLOCK}
           pieces == [j \in 1 .. nb |-> Bytes(block(j))]
           flat == [x \in 1 .. nb * BLOCK |->
                       pieces[(x - 1) \div BLOCK + 1][((x - 1) % BLOCK) + 1]]
<1>1. /\ BLOCK \in Nat \ {0} /\ L \in Nat /\ node.length_in_bytes = L
      /\ DOMAIN node.data_blocks = 0 .. nb - 1
  BY FileSysAssumption, TableSizes DEF Length
<1>2. nb \in Nat /\ L <= nb * BLOCK /\ nb * BLOCK \in Nat
  <2>1. nb \in Nat /\ L <= nb * BLOCK
    BY <1>1, RoundedUp
  <2> HIDE DEF nb
  <2> QED  BY <1>1, <2>1
<1> HIDE DEF L, nb
<1>3. Cardinality(DOMAIN node.data_blocks) = nb
  <2>1. Cardinality(0 .. nb - 1) = IF 0 > nb - 1 THEN 0 ELSE nb - 1 - 0 + 1
    BY <1>2, FS_Interval
  <2> QED  BY <1>1, <1>2, <2>1
<1>4. Blocks(node) = pieces
  BY <1>3 DEF Blocks
<1>5. pieces \in Seq([1 .. BLOCK -> S]) /\ Len(pieces) = nb
  <2>1. \A j \in 1 .. nb : Bytes(block(j)) \in [1 .. BLOCK -> S]
    <3>1. \A b : Bytes(b) = [o \in 1 .. BLOCK |-> Bytes(b)[o]]
      BY DEF Bytes
    <3> QED  BY <3>1
  <2> HIDE DEF S
  <2>2. pieces \in [1 .. nb -> [1 .. BLOCK -> S]]
    BY <2>1
  <2> HIDE DEF pieces
  <2> QED  BY <1>2, <2>2, SeqDef
<1>6. FlattenSeq(Blocks(node)) = flat
  <2> HIDE DEF pieces, S
  <2>1. FlattenSeq(pieces) = [x \in 1 .. Len(pieces) * BLOCK |->
                                 pieces[(x - 1) \div BLOCK + 1][((x - 1) % BLOCK) + 1]]
    <3>1. BLOCK \in Nat \ {0}
      BY <1>1
    <3> QED  BY <1>5, <3>1, FlattenPieces, Zenon
  <2> QED  BY <1>4, <1>5, <2>1
<1>7. Content(e) = SubSeq(flat, 1, L)
  BY <1>1, <1>6 DEF Content
<1>8. ASSUME NEW k \in Nat, k < nb * BLOCK
      PROVE  /\ k \div BLOCK \in 0 .. nb - 1 /\ k % BLOCK \in 0 .. BLOCK - 1
             /\ flat[k + 1] = Bytes(node.data_blocks[k \div BLOCK])[(k % BLOCK) + 1]
             /\ flat[k + 1] \in S
  <2>1. PICK q, o : q = k \div BLOCK /\ o = k % BLOCK
    OBVIOUS
  <2>2. q \in Nat /\ q < nb /\ o \in 0 .. BLOCK - 1
    BY <1>1, <1>2, <1>8, <2>1, Division
  <2>3. (k + 1) - 1 = k /\ k + 1 \in 1 .. nb * BLOCK
    BY <1>2, <1>8
  <2>4. flat[k + 1] = pieces[q + 1][o + 1]
    BY <2>1, <2>3
  <2>5. q \in 0 .. nb - 1 /\ q + 1 \in 1 .. nb /\ (q + 1) - 1 = q /\ o + 1 \in 1 .. BLOCK
    BY <1>1, <1>2, <2>2
  <2>6. pieces[q + 1] = Bytes(node.data_blocks[q])
    BY <2>5
  <2>7. Bytes(block(q + 1))[o + 1] \in S
    BY <2>5
  <2>8. Bytes(block(q + 1)) = Bytes(node.data_blocks[q])
    BY <2>5
  <2> HIDE DEF S, pieces, flat
  <2>9. flat[k + 1] = Bytes(node.data_blocks[q])[o + 1] /\ flat[k + 1] \in S
    BY <2>4, <2>6, <2>7, <2>8
  <2> QED  BY <2>1, <2>2, <2>5, <2>9
<1> HIDE DEF pieces, S, flat
<1>9. \A x \in 1 .. L : flat[x] \in S
  <2> TAKE x \in 1 .. L
  <2>1. x - 1 \in Nat /\ x - 1 < nb * BLOCK /\ (x - 1) + 1 = x
    BY <1>1, <1>2
  <2> QED  BY <1>8, <2>1
<1>10. /\ Content(e) \in Seq(S) /\ Len(Content(e)) = L
       /\ \A x \in 1 .. L : Content(e)[x] = flat[x]
  <2>1. /\ SubSeq(flat, 1, L) \in Seq(S)
        /\ Len(SubSeq(flat, 1, L)) = IF 1 <= L THEN L - 1 + 1 ELSE 0
        /\ \A x \in 1 .. L - 1 + 1 : SubSeq(flat, 1, L)[x] = flat[1 + x - 1]
    BY <1>1, <1>9, SubSeqProperties
  <2> QED  BY <1>1, <1>7, <2>1
<1>11. ASSUME NEW k \in 0 .. L - 1, BlockOf(i, k) \in DOMAIN data
       PROVE  Content(e)[k + 1] = data[BlockOf(i, k)][k % BLOCK]
  <2>1. k \in Nat /\ k < nb * BLOCK /\ k + 1 \in 1 .. L
    BY <1>1, <1>2
  <2>2. Content(e)[k + 1] = Bytes(BlockOf(i, k))[(k % BLOCK) + 1]
    BY <1>8, <1>10, <2>1 DEF BlockOf
  <2>3. (k % BLOCK) + 1 \in 1 .. BLOCK /\ ((k % BLOCK) + 1) - 1 = k % BLOCK
    BY <1>1, <1>8, <2>1
  <2> QED  BY <1>11, <2>2, <2>3 DEF Bytes
<1> QED  BY <1>1, <1>10, <1>11 DEF L

(* A directory holds the names of its entries, in order.                   *)
LEMMA DirectoryContent ==
    ASSUME NEW e, e.file_type = "directory"
    PROVE  /\ Content(e) \in Seq(Names)
           /\ Len(Content(e)) = Len(dir_entries)
           /\ \A k \in 1 .. Len(dir_entries) : Content(e)[k] = dir_entries[k].file_name
<1>1. /\ Len(dir_entries) \in Nat /\ DOMAIN dir_entries = 1 .. Len(dir_entries)
      /\ \A k \in 1 .. Len(dir_entries) : dir_entries[k] \in Entries
  BY FileSysAssumption, LenProperties, ElementOfSeq
<1>2. Content(e) = [k \in 1 .. Len(dir_entries) |-> dir_entries[k].file_name]
  BY <1>1 DEF Content
<1>3. Content(e) \in [1 .. Len(dir_entries) -> Names]
  BY <1>1, <1>2 DEF Entries
<1> QED  BY <1>1, <1>2, <1>3, SeqDef

(* The beginning of a sequence, and what follows it.                       *)
LEMMA PrefixGrows ==
    ASSUME NEW S, NEW c \in Seq(S), NEW p \in Nat, NEW buf, NEW r \in Nat, p + r <= Len(c),
           buf = [j \in 1 .. r |-> c[p + j]]
    PROVE  SubSeq(c, 1, p) \o buf = SubSeq(c, 1, p + r)
<1>1. Len(c) \in Nat /\ p + r \in Nat /\ \A x \in 1 .. Len(c) : c[x] \in S
  BY LenProperties, ElementOfSeq
<1>2. \A n \in Nat : n <= Len(c) =>
          /\ SubSeq(c, 1, n) \in Seq(S) /\ Len(SubSeq(c, 1, n)) = n
          /\ \A x \in 1 .. n : SubSeq(c, 1, n)[x] = c[x]
  <2> TAKE n \in Nat
  <2> HAVE n <= Len(c)
  <2>1. \A x \in 1 .. n : c[x] \in S
    BY <1>1
  <2>2. /\ SubSeq(c, 1, n) \in Seq(S)
        /\ Len(SubSeq(c, 1, n)) = IF 1 <= n THEN n - 1 + 1 ELSE 0
        /\ \A x \in 1 .. n - 1 + 1 : SubSeq(c, 1, n)[x] = c[1 + x - 1]
    BY <2>1, SubSeqProperties
  <2> QED  BY <2>2
<1>3. /\ SubSeq(c, 1, p) \in Seq(S) /\ Len(SubSeq(c, 1, p)) = p
      /\ \A x \in 1 .. p : SubSeq(c, 1, p)[x] = c[x]
      /\ SubSeq(c, 1, p + r) \in Seq(S) /\ Len(SubSeq(c, 1, p + r)) = p + r
      /\ \A x \in 1 .. p + r : SubSeq(c, 1, p + r)[x] = c[x]
  BY <1>1, <1>2
<1>4. buf \in Seq(S) /\ Len(buf) = r /\ \A j \in 1 .. r : buf[j] = c[p + j]
  <2>1. buf \in [1 .. r -> S]
    BY <1>1
  <2>2. \A j \in 1 .. r : buf[j] = c[p + j]
    OBVIOUS
  <2> QED  BY <2>1, <2>2, SeqDef
<1>5. /\ SubSeq(c, 1, p) \o buf \in Seq(S) /\ Len(SubSeq(c, 1, p) \o buf) = p + r
      /\ \A x \in 1 .. p + r : (SubSeq(c, 1, p) \o buf)[x] =
             IF x <= p THEN SubSeq(c, 1, p)[x] ELSE buf[x - p]
  BY <1>3, <1>4, ConcatProperties
<1>6. ASSUME NEW x \in 1 .. p + r
      PROVE  (SubSeq(c, 1, p) \o buf)[x] = SubSeq(c, 1, p + r)[x]
  <2>1. CASE x <= p
    BY <1>3, <1>5, <2>1
  <2>2. CASE x > p
    <3>1. x - p \in 1 .. r /\ p + (x - p) = x
      BY <2>2
    <3> QED  BY <1>3, <1>4, <1>5, <2>2, <3>1
  <2> QED  BY <1>1, <2>1, <2>2
<1> QED  BY <1>3, <1>5, <1>6, SeqEqual

(* A plain read of a file delivers what follows the position, nothing only *)
(* at the end of the file, and fails without delivering anything.          *)
LEMMA PlainFileRead ==
    ASSUME NEW e, e.file_type = "file", e.inode_number \in 0 .. INODES,
           NEW p \in 0 .. Length(e.inode_number), NEW n \in Uints, n \in Ints
    PROVE  LET r     == file_read(e.inode_number, p, n)
               moved == IF r.retval = FAILURE THEN 0 ELSE r.retval
           IN  /\ moved \in Nat /\ p + moved <= Length(e.inode_number)
               /\ r.buf = [j \in 1 .. moved |-> Content(e)[p + j]]
               /\ r.retval = 0 => p = Length(e.inode_number)
<1> DEFINE i == e.inode_number
           L == Length(i)
           r == file_read(i, p, n)
           upper == UpperBound(i, p, n)
<1>1. L \in Nat /\ p \in Nat /\ p <= L /\ n \in Nat
  BY FileContent, TableSizes
<1>2. (p + n) % (UINT_MAX + 1) = p + n
  <2>1. UINT_MAX \in Nat /\ p + n \in Nat /\ p + n <= UINT_MAX
    <3>1. L \in Ints
      BY FileSysAssumption DEF Length
    <3>2. UINT_MAX \in Nat /\ p <= UINT_MAX \div 2 /\ n <= UINT_MAX \div 2
      BY <1>1, <3>1, TableSizes DEF Ints
    <3> QED  BY <1>1, <3>2
  <2> QED  BY <2>1
<1>3. upper = IF p + n > L THEN L ELSE p + n
  BY <1>2 DEF UpperBound, Length
<1>4. upper \in Nat /\ p <= upper /\ upper <= L /\ upper - p \in Nat
      /\ (n # 0 /\ upper = p => p = L)
  BY <1>1, <1>3
<1> HIDE DEF upper
<1>5. r = IF n = 0 THEN [retval |-> FAILURE, buf |-> << >>] ELSE read_data(i, p, n)
  BY DEF file_read
<1>6. CASE n = 0 \/ \E k \in p .. upper - 1 : BlockOf(i, k) \notin DOMAIN data
  <2>1. r = [retval |-> FAILURE, buf |-> << >>]
    BY <1>5, <1>6 DEF read_data, upper
  <2>2. << >> = [j \in 1 .. 0 |-> Content(e)[p + j]] /\ FAILURE # 0
    BY DEF FAILURE
  <2> QED  BY <1>1, <2>1, <2>2
<1>7. CASE n # 0 /\ \A k \in p .. upper - 1 : BlockOf(i, k) \in DOMAIN data
  <2>1. r = [retval |-> upper - p,
             buf |-> [k \in 1 .. upper - p |->
                         data[BlockOf(i, p + k - 1)][(p + k - 1) % BLOCK]]]
    BY <1>5, <1>7 DEF read_data, upper
  <2>2. ASSUME NEW k \in 1 .. upper - p
        PROVE  data[BlockOf(i, p + k - 1)][(p + k - 1) % BLOCK] = Content(e)[p + k]
    <3>1. /\ p + k - 1 \in 0 .. L - 1 /\ (p + k - 1) + 1 = p + k
          /\ p + k - 1 \in p .. upper - 1
      BY <1>1, <1>4
    <3>2. BlockOf(i, p + k - 1) \in DOMAIN data
      BY <1>7, <3>1
    <3>3. \A c \in 0 .. L - 1 : BlockOf(i, c) \in DOMAIN data =>
              Content(e)[c + 1] = data[BlockOf(i, c)][c % BLOCK]
      BY FileContent
    <3> QED  BY <3>1, <3>2, <3>3
  <2>3. r.retval = upper - p /\ r.buf = [k \in 1 .. upper - p |-> Content(e)[p + k]]
    BY <2>1, <2>2
  <2>4. r.retval # FAILURE
    BY <1>4, <2>3 DEF FAILURE
  <2>5. r.retval = 0 => upper = p
    BY <1>1, <1>4, <2>3
  <2> QED  BY <1>1, <1>4, <1>7, <2>3, <2>4, <2>5
<1> QED  BY <1>6, <1>7

(* A read of NAME bytes of a directory delivers the name at the position,  *)
(* whatever its length, and behind the last name nothing.                  *)
LEMMA PlainDirectoryRead ==
    ASSUME NEW p \in 0 .. DIR - 1
    PROVE  LET r == directory_read(p, NAME)
           IN  /\ r.retval \in Nat
               /\ p < Len(dir_entries) =>
                     r.retval > 0 /\ r.buf = dir_entries[p + 1].file_name
               /\ p >= Len(dir_entries) => r.retval = 0
<1> DEFINE r == directory_read(p, NAME)
           e == Slot(p)
           n == UpTo(NAME, Len(NameAt(p)))
<1>0. /\ NAME \in Nat /\ NAME > 0 /\ DIR \in Nat /\ p \in Nat /\ ~(p >= DIR)
      /\ Len(dir_entries) \in Nat
  BY TableSizes
<1>1. r = [retval |-> n, buf |-> SubSeq(NameAt(p), 1, n)]
  BY <1>0 DEF directory_read
<1>2. CASE p < Len(dir_entries)
  <2>1. /\ e = dir_entries[p + 1] /\ e.file_name \in Names
        /\ Len(e.file_name) \in 1 .. NAME /\ Len(e.file_name) \in Nat
        /\ e.file_type \in Kinds
    BY <1>0, <1>2, SlotTyped, FileSysAssumption, LenProperties
  <2> DEFINE T == (STRING \ {Nul}) \cup Kinds
  <2>2. e.file_name \in Seq(T)
    BY <2>1, SeqMonotonic DEF Names
  <2>3. CASE Len(e.file_name) < NAME \/ e.file_type = "rtc"
    <3>1. NameAt(p) = e.file_name
      BY <2>3 DEF NameAt
    <3>2. n = Len(e.file_name)
      BY <1>0, <2>1, <3>1 DEF UpTo
    <3>3. SubSeq(NameAt(p), 1, n) = e.file_name
      BY <2>2, <3>1, <3>2, SubSeqFull
    <3> QED  BY <1>1, <1>2, <1>0, <2>1, <3>2, <3>3
  <2>4. CASE ~(Len(e.file_name) < NAME \/ e.file_type = "rtc")
    <3>1. NameAt(p) = Append(e.file_name, e.file_type) /\ Len(e.file_name) = NAME
      BY <1>0, <2>1, <2>4 DEF NameAt
    <3>2. /\ NameAt(p) \in Seq(T) /\ Len(NameAt(p)) = NAME + 1
          /\ \A k \in 1 .. NAME : NameAt(p)[k] = e.file_name[k]
      BY <2>1, <2>2, <3>1, AppendProperties
    <3>3. n = NAME
      BY <1>0, <3>2 DEF UpTo
    <3>4. \A k \in 1 .. NAME : NameAt(p)[k] \in T
      BY <2>2, <3>1, <3>2, ElementOfSeq
    <3> HIDE DEF T
    <3>5. /\ SubSeq(NameAt(p), 1, NAME) \in Seq(T)
          /\ Len(SubSeq(NameAt(p), 1, NAME)) = IF 1 <= NAME THEN NAME - 1 + 1 ELSE 0
          /\ \A k \in 1 .. NAME - 1 + 1 : SubSeq(NameAt(p), 1, NAME)[k] = NameAt(p)[1 + k - 1]
      BY <1>0, <3>4, SubSeqProperties
    <3>6. /\ Len(SubSeq(NameAt(p), 1, NAME)) = NAME
          /\ \A k \in 1 .. NAME : SubSeq(NameAt(p), 1, NAME)[k] = e.file_name[k]
      BY <1>0, <3>2, <3>5
    <3>7. SubSeq(NameAt(p), 1, NAME) = e.file_name
      BY <2>2, <3>1, <3>5, <3>6, SeqEqual
    <3> QED  BY <1>0, <1>1, <1>2, <2>1, <3>3, <3>7
  <2> QED  BY <2>3, <2>4
<1>3. CASE p >= Len(dir_entries)
  <2>1. e.file_name = << >> /\ Len(<< >>) = 0
    BY <1>0, <1>3, SlotTyped, EmptySeq
  <2>2. NameAt(p) = << >>
    BY <1>0, <2>1 DEF NameAt
  <2>3. n = 0
    BY <1>0, <2>1, <2>2 DEF UpTo
  <2> QED  BY <1>0, <1>1, <1>3, <2>3
<1> QED  BY <1>0, <1>2, <1>3

(***************************************************************************)
(* What a program read is the beginning of what the name stands for, up to *)
(* the position.                                                           *)
(***************************************************************************)
Recorded(h) ==
    /\ h = [name |-> h.name, got |-> h.got, plain |-> h.plain]
    /\ h.plain \in BOOLEAN

Followed(fd, k) ==
    LET h == history[fd]
        e == FirstNamed(h.name)
    IN  Holding(fd, k) =>
            /\ h.name \in Filenames
            /\ e.file_type = k
            /\ k = "file" => inode[fd] = e.inode_number
            /\ h.plain => h.got = SubSeq(Content(e), 1, UpTo(file_position[fd], Len(Content(e))))

Traced ==
    /\ DOMAIN history = Fds
    /\ \A fd \in Fds : Recorded(history[fd])
    /\ \A fd \in UserFds : \A k \in {"file", "directory"} : Followed(fd, k)

(* Nothing is open at first.                                               *)
LEMMA InitTraced == Init => Traced
<1> SUFFICES ASSUME Init PROVE Traced
  OBVIOUS
<1>1. DOMAIN history = Fds /\ \A fd \in Fds : Recorded(history[fd])
  BY DEF Init, Recorded, Unread
<1>2. \A fd \in UserFds, k \in {"file", "directory"} : ~Holding(fd, k)
  BY TableSizes DEF Init, Holding
<1> QED  BY <1>1, <1>2 DEF Traced, Followed

(* An entry that is kept, with its history, is followed on.                *)
LEMMA FollowedKept ==
    ASSUME NEW fd \in UserFds, NEW k, Followed(fd, k), Kept(fd), history'[fd] = history[fd],
           Holding(fd, k)' => Holding(fd, k)
    PROVE  Followed(fd, k)'
BY DEF Followed, Kept

(* sys_open installs the file its name stands for, at position 0.          *)
LEMMA InstallTraced == IInv /\ IInv' /\ Traced /\ OpenInstall => Traced'
<1> SUFFICES ASSUME IInv, IInv', Traced, OpenInstall PROVE Traced'
  OBVIOUS
<1> DEFINE f == fd_local
           e == FirstNamed(filename)
<1>1. /\ f \in UserFds /\ f \in Fds /\ DOMAIN history = Fds
      /\ ops' = [ops EXCEPT ![f].read = file_to_open.file_type,
                            ![f].write = file_to_open.file_type]
      /\ inode' = [inode EXCEPT ![f] = IF file_to_open.file_type = "file"
                                       THEN file_to_open.inode_number ELSE inode[f]]
      /\ history' = [history EXCEPT ![f] = Unread(filename)]
      /\ pc = "closable" /\ pc' = "user"
      /\ UNCHANGED << flags, file_position, fd_local >>
  BY TableSizes DEF IInv, TypeOK, OpenInstall, Traced
<1>2. /\ filename \in Filenames /\ file_to_open = e /\ file_position[f] = 0
      /\ ops[f].close = e.file_type
      /\ e.file_type \in Kinds /\ e.inode_number \in 0 .. INODES
  BY <1>1, NameKnown, LookupIsExact, LookupTyped DEF IInv, Calls, file_to_open
<1>3. ASSUME NEW k \in {"file", "directory"}, Holding(f, k)' PROVE Followed(f, k)'
  <2>1. ops'[f] = OpsOf(e.file_type)
    BY <1>1, <1>2 DEF IInv, TypeOK, OpsOf
  <2>2. ops'[f] = OpsOf(k)
    BY <1>1, <1>3 DEF Holding
  <2>3. e.file_type = k
    BY <2>1, <2>2 DEF OpsOf
  <2>4. history'[f] = Unread(filename) /\ file_position'[f] = 0 /\ f' = f
    BY <1>1, <1>2
  <2>5. k = "file" => inode'[f] = e.inode_number
    BY <1>1, <1>2, <2>3 DEF IInv, TypeOK
  <2>6. PICK S : Content(e) \in Seq(S)
    BY <1>2, <1>3, <2>3, FileContent, DirectoryContent
  <2>7. UpTo(0, Len(Content(e))) = 0
    BY <2>6, LenProperties DEF UpTo
  <2>8. SubSeq(Content(e), 1, 0) = << >>
    BY SubSeqEmpty
  <2>9. history'[f].name = filename /\ history'[f].got = << >>
    BY <2>4 DEF Unread
  <2>10. FirstNamed(history'[f].name) = e
    BY <2>9
  <2>11. history'[f].got = SubSeq(Content(e), 1, UpTo(file_position'[f], Len(Content(e))))
    BY <2>4, <2>7, <2>8, <2>9
  <2> QED  BY <1>2, <2>3, <2>4, <2>5, <2>9, <2>10, <2>11 DEF Followed
<1>4. ASSUME NEW fd \in UserFds, fd # f, NEW k \in {"file", "directory"}
      PROVE  Followed(fd, k)'
  <2>1. Kept(fd) /\ history'[fd] = history[fd]
    BY <1>1, <1>4, TableSizes DEF IInv, TypeOK, Kept
  <2>2. Holding(fd, k)' => Holding(fd, k)
    BY <1>1, <1>4, <2>1 DEF Holding, Kept
  <2> QED  BY <2>1, <2>2, FollowedKept DEF Traced
<1>5. DOMAIN history' = Fds /\ \A fd \in Fds : Recorded(history'[fd])
  BY <1>1 DEF Traced, Recorded, Unread
<1>6. \A fd \in UserFds : \A k \in {"file", "directory"} : Followed(fd, k)'
  <2> TAKE fd \in UserFds
  <2> TAKE k \in {"file", "directory"}
  <2>1. CASE fd = f /\ Holding(f, k)'
    BY <1>1, <1>3, <2>1
  <2>2. CASE fd = f /\ ~Holding(f, k)'
    BY <1>1, <2>2 DEF Followed
  <2> QED  BY <1>4, <2>1, <2>2
<1> QED  BY <1>5, <1>6 DEF Traced

(* What a read adds to the history of its descriptor.                      *)
LEMMA NotedRecorded ==
    ASSUME NEW h, Recorded(h), NEW k, NEW n, NEW r, NEW new, new = Noted(h, k, n, r)
    PROVE  /\ Recorded(new) /\ new.name = h.name
           /\ new.plain => h.plain /\ Plain(k, n)
           /\ new.plain => new.got = CASE k = "directory" /\ r.retval > 0 -> Append(h.got, r.buf)
                                       [] k # "directory"                 -> h.got \o r.buf
                                       [] OTHER                           -> h.got
<1>0. h = [name |-> h.name, got |-> h.got, plain |-> h.plain] /\ h.plain \in BOOLEAN
  BY DEF Recorded
<1>1. CASE ~h.plain \/ ~Plain(k, n)
  <2>1. new = [h EXCEPT !.plain = FALSE, !.got = << >>]
    BY <1>1 DEF Noted
  <2>2. new = [name |-> h.name, got |-> << >>, plain |-> FALSE]
    BY <1>0, <2>1
  <2> QED  BY <2>2 DEF Recorded
<1>2. CASE ~(~h.plain \/ ~Plain(k, n))
  <2>0. new = CASE k = "directory" /\ r.retval > 0 -> [h EXCEPT !.got = Append(h.got, r.buf)]
                [] k # "directory"                 -> [h EXCEPT !.got = h.got \o r.buf]
                [] OTHER                           -> h
    BY <1>2 DEF Noted
  <2>1. CASE k = "directory" /\ r.retval > 0
    <3>1. new = [name |-> h.name, got |-> Append(h.got, r.buf), plain |-> h.plain]
      BY <1>0, <2>0, <2>1
    <3>2. new.got = Append(h.got, r.buf) /\ new.name = h.name /\ new.plain = h.plain
      BY <3>1
    <3>3. Recorded(new)
      BY <1>0, <3>1 DEF Recorded
    <3> QED  BY <1>2, <2>1, <3>2, <3>3
  <2>2. CASE k # "directory"
    <3>1. new = [name |-> h.name, got |-> h.got \o r.buf, plain |-> h.plain]
      BY <1>0, <2>0, <2>2
    <3> QED  BY <1>0, <1>2, <2>2, <3>1 DEF Recorded
  <2>3. CASE k = "directory" /\ ~(r.retval > 0)
    <3>1. new = h
      BY <2>0, <2>3
    <3> QED  BY <1>0, <1>2, <2>3, <3>1 DEF Recorded
  <2> QED  BY <2>1, <2>2, <2>3
<1> QED  BY <1>1, <1>2

(* A plain read of what fd holds adds to what was read what follows.       *)
LEMMA ReadFollowed ==
    ASSUME IInv, Traced, NEW fd \in UserFds, NEW n \in ReadSizes, Read(fd, n),
           NEW k \in {"file", "directory"}
    PROVE  Followed(fd, k)'
<1> DEFINE h == history[fd]
           e == FirstNamed(h.name)
           c == Content(e)
           p == file_position[fd]
           r == Result(fd, n)
<1> SUFFICES ASSUME Holding(fd, k)' PROVE Followed(fd, k)'
  BY DEF Followed
<1>1. /\ fd \in Fds /\ pc = "user" /\ flags[fd] = 1 /\ n \in Uints
      /\ UNCHANGED << flags, ops, inode, pc, fd_local, filename >>
      /\ history' = [history EXCEPT ![fd] = Noted(h, ops[fd].read, n, r)]
      /\ file_position' = [file_position EXCEPT ![fd] = p + Moved(ops[fd].read, r.retval, n)]
      /\ p \in Nat /\ DOMAIN history = Fds /\ Recorded(h)
  BY TableSizes, TableAssumption DEF Read, Admits, IInv, TypeOK, Traced
<1>2. Holding(fd, k) /\ ops[fd].read = k
  <2>1. Holding(fd, k)
    BY <1>1 DEF Holding, InCall
  <2> QED  BY <2>1, OpsOfKind DEF Holding, Kinds
<1>3. /\ h.name \in Filenames /\ e.file_type = k
      /\ k = "file" => inode[fd] = e.inode_number
      /\ h.plain => h.got = SubSeq(c, 1, UpTo(p, Len(c)))
  BY <1>2 DEF Traced, Followed
<1>4. /\ history'[fd] = Noted(h, k, n, r)
      /\ file_position'[fd] = p + Moved(k, r.retval, n)
  BY <1>1, <1>2 DEF IInv, TypeOK
<1> DEFINE new == history'[fd]
<1>11. /\ Recorded(new) /\ new.name = h.name
       /\ new.plain => h.plain /\ Plain(k, n)
       /\ new.plain => new.got = CASE k = "directory" /\ r.retval > 0 -> Append(h.got, r.buf)
                                   [] k # "directory"                 -> h.got \o r.buf
                                   [] OTHER                           -> h.got
  <2>1. Recorded(h) /\ new = Noted(h, k, n, r)
    BY <1>1, <1>4
  <2> HIDE DEF new, h, r
  <2> QED  BY <2>1, NotedRecorded
<1>5. Sound /\ ~Held(fd) /\ EntryAt(fd)
  BY <1>1 DEF IInv, Sound, Held, InCall
<1>6. InFile(fd) /\ ops[fd] = OpsOf(k)
  BY <1>1, <1>2, <1>5 DEF EntryAt, ShutEntry, Holding
<1>7. SUFFICES ASSUME history'[fd].plain
               PROVE  history'[fd].got = SubSeq(c, 1, UpTo(file_position'[fd], Len(c)))
  <2>1. history'[fd].name = h.name /\ inode'[fd] = inode[fd]
    BY <1>1, <1>11
  <2> QED  BY <1>3, <2>1 DEF Followed
<1>8. h.plain /\ Plain(k, n) /\ h.got = SubSeq(c, 1, UpTo(p, Len(c)))
  BY <1>3, <1>7, <1>11
<1> HIDE DEF h, r, c
<1>9. CASE k = "file"
  <2> DEFINE m == IF r.retval = FAILURE THEN 0 ELSE r.retval
  <2>1. /\ e.inode_number \in 0 .. INODES /\ p \in 0 .. Length(e.inode_number)
        /\ r = file_read(e.inode_number, p, n) /\ n \in Ints
        /\ inode[fd] = e.inode_number
    <3>1. inode[fd] \in 0 .. INODES
      BY <1>1 DEF IInv, TypeOK
    <3> QED  BY <1>2, <1>3, <1>6, <1>8, <1>9, <3>1 DEF InFile, Result, Plain, r
  <2>2. PICK S : c \in Seq(S)
    BY <1>3, <1>9, <2>1, FileContent DEF c
  <2>3. Len(c) = Length(e.inode_number) /\ Len(c) \in Nat
    BY <1>3, <1>9, <2>1, FileContent DEF c
  <2>4. /\ m \in Nat /\ p + m <= Len(c) /\ r.buf = [j \in 1 .. m |-> c[p + j]]
    BY <1>1, <1>3, <1>9, <2>1, <2>3, PlainFileRead DEF c
  <2>5. Moved(k, r.retval, n) = m
    BY <1>9 DEF Moved
  <2> HIDE DEF m
  <2>6. UpTo(p, Len(c)) = p /\ UpTo(p + m, Len(c)) = p + m
    BY <1>1, <2>3, <2>4 DEF UpTo
  <2>7. history'[fd].got = h.got \o r.buf
    BY <1>7, <1>9, <1>11
  <2>8. SubSeq(c, 1, p) \o r.buf = SubSeq(c, 1, p + m)
    BY <1>1, <2>2, <2>4, PrefixGrows
  <2> QED  BY <1>4, <1>8, <2>5, <2>6, <2>7, <2>8
<1>10. CASE k = "directory"
  <2>1. /\ r = directory_read(p, NAME) /\ p \in 0 .. DIR /\ n = NAME
        /\ DIR \in Nat /\ Len(dir_entries) \in Nat
    BY <1>2, <1>6, <1>8, <1>10, TableSizes DEF InFile, Result, Plain, r
  <2>2. /\ c \in Seq(Names) /\ Len(c) = Len(dir_entries)
        /\ \A j \in 1 .. Len(dir_entries) : c[j] = dir_entries[j].file_name
    BY <1>3, <1>10, DirectoryContent DEF c
  <2>3. CASE p < Len(dir_entries)
    <3>1. p \in 0 .. DIR - 1
      BY <2>1, <2>3, TableSizes
    <3>2. r.retval \in Nat /\ r.retval > 0 /\ r.buf = c[p + 1]
      BY <1>1, <2>1, <2>2, <2>3, <3>1, PlainDirectoryRead
    <3>3. history'[fd].got = Append(h.got, r.buf)
      BY <1>7, <1>10, <1>11, <3>2
    <3>4. Moved(k, r.retval, n) = 1
      BY <1>10, <3>2 DEF Moved, FAILURE
    <3>5. UpTo(p, Len(c)) = p /\ UpTo(p + 1, Len(c)) = p + 1 /\ p + 1 <= Len(c)
      BY <1>1, <2>1, <2>2, <2>3 DEF UpTo
    <3>6. SubSeq(c, 1, p) \o << c[p + 1] >> = SubSeq(c, 1, p + 1)
      <4>1. << c[p + 1] >> = [j \in 1 .. 1 |-> c[p + j]]
        OBVIOUS
      <4> QED  BY <1>1, <2>2, <3>5, <4>1, PrefixGrows
    <3>7. Append(SubSeq(c, 1, p), c[p + 1]) = SubSeq(c, 1, p) \o << c[p + 1] >>
      <4>1. \A x \in 1 .. p : c[x] \in Names
        BY <1>1, <2>2, <3>5, ElementOfSeq
      <4>2. SubSeq(c, 1, p) \in Seq(Names)
        BY <1>1, <4>1, SubSeqProperties
      <4>3. c[p + 1] \in Names
        BY <1>1, <2>2, <3>5, ElementOfSeq
      <4> QED  BY <4>2, <4>3, AppendIsConcat
    <3> QED  BY <1>4, <1>8, <3>2, <3>3, <3>4, <3>5, <3>6, <3>7
  <2>4. CASE p >= Len(dir_entries)
    <3>1. ~(r.retval > 0)
      <4>1. CASE p = DIR
        BY <2>1, <4>1 DEF directory_read, FAILURE
      <4>2. CASE p # DIR
        <5>1. p \in 0 .. DIR - 1
          BY <2>1, <4>2
        <5> QED  BY <2>1, <2>4, <5>1, PlainDirectoryRead
      <4> QED  BY <4>1, <4>2
    <3>2. history'[fd].got = h.got
      BY <1>7, <1>10, <1>11, <3>1
    <3>3. Moved(k, r.retval, n) \in {0, 1}
      BY <1>10 DEF Moved
    <3>4. UpTo(p, Len(c)) = Len(c) /\ UpTo(file_position'[fd], Len(c)) = Len(c)
      BY <1>1, <1>4, <2>1, <2>2, <2>4, <3>3 DEF UpTo
    <3> QED  BY <1>8, <3>2, <3>4
  <2> QED  BY <1>1, <2>1, <2>3, <2>4
<1> QED  BY <1>9, <1>10

(* A read of one descriptor leaves what the others read.                   *)
LEMMA ReadTraced ==
    ASSUME IInv, Traced, NEW fd \in Fds, NEW n \in ReadSizes, Read(fd, n)
    PROVE  Traced'
<1>1. /\ history' = [history EXCEPT ![fd] = Noted(history[fd], ops[fd].read, n, Result(fd, n))]
      /\ UNCHANGED << flags, ops, inode, pc, fd_local >>
      /\ DOMAIN history = Fds /\ Recorded(history[fd])
  BY DEF Read, Traced
<1>2. DOMAIN history' = Fds /\ \A e \in Fds : Recorded(history'[e])
  BY <1>1, NotedRecorded DEF Traced
<1>3. ASSUME NEW e \in UserFds, e # fd, NEW k \in {"file", "directory"}
      PROVE  Followed(e, k)'
  <2>1. Kept(e) /\ history'[e] = history[e]
    BY <1>1, <1>3, TableSizes DEF IInv, TypeOK, Kept, Read
  <2>2. Holding(e, k)' => Holding(e, k)
    BY <1>1 DEF Holding, InCall
  <2> QED  BY <2>1, <2>2, FollowedKept DEF Traced
<1> QED  BY <1>2, <1>3, ReadFollowed DEF Traced

(* The other steps leave an entry and its history, or hold nothing there.  *)
LEMMA OthersTraced ==
    ASSUME IInv, IInv', Traced,
           \/ Execute \/ OpenNoSuchName \/ OpenFound \/ CloseFinish \/ Halt \/ HaltFaults
           \/ \E fd \in UserFds, name \in Filenames : OpenMark(fd, name)
           \/ \E fd \in UserFds : CloseStart(fd)
    PROVE  Traced'
<1>0. fd_local \in UserFds /\ fd_local \in Fds /\ DOMAIN history = Fds
      /\ \A fd \in Fds : Recorded(history[fd])
  BY TableSizes DEF IInv, TypeOK, Traced
<1> SUFFICES /\ DOMAIN history' = Fds /\ \A fd \in Fds : Recorded(history'[fd])
             /\ \A fd \in UserFds, k \in {"file", "directory"} :
                   Holding(fd, k)' => /\ Kept(fd) /\ history'[fd] = history[fd]
                                      /\ Holding(fd, k)
  <2>1. \A fd \in UserFds, k \in {"file", "directory"} : Followed(fd, k)'
    BY FollowedKept DEF Traced, Followed
  <2> QED  BY <2>1 DEF Traced
<1>1. CASE Execute
  <2>1. \A fd \in UserFds : flags'[fd] = 0
    BY <1>1, TableSizes DEF IInv, TypeOK, SlotClean, ShutEntry, Execute
  <2>2. \A fd \in UserFds, k \in {"file", "directory"} : ~Holding(fd, k)'
    BY <2>1 DEF Holding
  <2>3. history' = history
    BY <1>1 DEF Execute
  <2> QED  BY <1>0, <2>2, <2>3
<1>2. CASE OpenNoSuchName \/ CloseFinish
  <2>1. /\ flags' = [flags EXCEPT ![fd_local] = 0]
        /\ InCall /\ pc' = "user" /\ fd_local' = fd_local
        /\ history' \in {history, [history EXCEPT ![fd_local] = Unread(NoName)]}
    BY <1>2 DEF OpenNoSuchName, CloseFinish, DropClaim, ClearFlags, InCall
  <2>2. \A fd \in UserFds : fd # fd_local => Kept(fd) /\ history'[fd] = history[fd]
    BY <1>0, <1>2, <2>1, TableSizes DEF IInv, TypeOK, Kept, OpenNoSuchName, CloseFinish
  <2>3. flags'[fd_local] = 0
    BY <1>0, <2>1 DEF IInv, TypeOK
  <2>4. DOMAIN history' = Fds /\ \A fd \in Fds : Recorded(history'[fd])
    <3>1. Recorded(Unread(NoName))
      BY DEF Recorded, Unread
    <3>2. DOMAIN history' = Fds
          /\ \A fd \in Fds : history'[fd] \in {history[fd], Unread(NoName)}
      BY <1>0, <2>1
    <3> QED  BY <1>0, <3>1, <3>2
  <2>5. ASSUME NEW fd \in UserFds, NEW k \in {"file", "directory"}, Holding(fd, k)'
        PROVE  Kept(fd) /\ history'[fd] = history[fd] /\ Holding(fd, k)
    <3>1. fd # fd_local
      BY <2>3, <2>5 DEF Holding
    <3>2. Kept(fd) /\ history'[fd] = history[fd]
      BY <2>2, <3>1
    <3> QED  BY <2>1, <2>5, <3>1, <3>2 DEF Holding, Kept, InCall
  <2> QED  BY <2>4, <2>5
<1>3. CASE OpenFound
  <2>1. /\ pc = "marked" /\ pc' = "closable" /\ fd_local' = fd_local /\ history' = history
        /\ \A fd \in UserFds : fd # fd_local => Kept(fd)
    BY <1>3, TableSizes DEF IInv, TypeOK, OpenFound, Kept
  <2> QED  BY <1>0, <2>1 DEF Holding, Kept, InCall
<1>4. CASE (\E fd \in UserFds, name \in Filenames : OpenMark(fd, name))
           \/ (\E fd \in UserFds : CloseStart(fd))
  <2>1. /\ pc = "user" /\ pc' \in {"marked", "uncloseable"} /\ history' = history
        /\ fd_local' \in UserFds
        /\ \A fd \in UserFds : fd # fd_local' => Kept(fd)
    BY <1>4, TableSizes DEF IInv, TypeOK, OpenMark, CloseStart, Kept
  <2> QED  BY <1>0, <2>1 DEF Holding, Kept, InCall
<1>5. CASE Halt \/ HaltFaults
  <2>1. PICK S : Closing(S)
    BY <1>5 DEF Halt, HaltFaults
  <2>2. DOMAIN history' = Fds /\ \A fd \in Fds : Recorded(history'[fd])
    BY <1>0, <2>1 DEF Closing, Recorded, Unread
  <2>3. \A fd \in UserFds, k \in {"file", "directory"} : ~Holding(fd, k)'
    <3>1. CASE Halt
      BY <3>1 DEF Halt, IInv, SlotClean, ShutEntry, Holding
    <3>2. CASE HaltFaults
      BY <3>2 DEF HaltFaults, Holding
    <3> QED  BY <1>5, <3>1, <3>2
  <2> QED  BY <2>2, <2>3
<1> QED  BY <1>1, <1>2, <1>3, <1>4, <1>5

(* Every step: calls that are refused and writes change nothing.           *)
LEMMA NextTraced == IInv /\ IInv' /\ Traced /\ [Next]_vars => Traced'
<1> SUFFICES ASSUME IInv, IInv', Traced, [Next]_vars PROVE Traced'
  OBVIOUS
<1>1. CASE Refused \/ FaultAgain \/ (\E fd \in Fds : Write(fd)) \/ UNCHANGED vars
  <2>1. UNCHANGED vars
    BY <1>1 DEF Refused, FaultAgain, Write
  <2> QED  BY <2>1 DEF vars, entries, Traced, Followed, Holding, InCall
<1> QED  BY <1>1, OthersTraced, InstallTraced, ReadTraced DEF Next

(* What was read is at all times the beginning of what the name stands     *)
(* for, up to the position.                                                *)
THEOREM Tracing == Spec => [](IInv /\ Traced)
BY InitIInv, NextIInv, InitTraced, NextTraced, PTL DEF Spec

(* What a program reads through a descriptor is the file of the name it    *)
(* opened, from the beginning and without a gap, for every image, block    *)
(* size and sequence of plain reads, with other descriptors open and read  *)
(* in between (file_sys_driver.c:70, 323).                                 *)
THEOREM AlwaysDelivered == Spec => []Delivered
<1>1. IInv /\ Traced => Delivered
  <2> SUFFICES ASSUME IInv, Traced, NEW fd \in UserFds, NEW k \in {"file", "directory"},
                      Holding(fd, k), history[fd].plain
               PROVE  IsPrefix(history[fd].got, Contents[history[fd].name])
    BY DEF Delivered
  <2> DEFINE h == history[fd]
             e == FirstNamed(h.name)
             c == Content(e)
             m == UpTo(file_position[fd], Len(c))
  <2>1. /\ h.name \in Filenames /\ e.file_type = k /\ h.got = SubSeq(c, 1, m)
        /\ k = "file" => inode[fd] = e.inode_number
    BY DEF Traced, Followed
  <2>2. Contents[h.name] = c
    BY <2>1 DEF Contents, Readable
  <2>3. PICK S : c \in Seq(S)
    <3>1. k = "file" => e.inode_number \in 0 .. INODES
      BY <2>1, TableSizes DEF IInv, TypeOK
    <3> QED  BY <2>1, <3>1, FileContent, DirectoryContent
  <2>4. Len(c) \in Nat /\ file_position[fd] \in Nat
    BY <2>3, LenProperties, TableSizes DEF IInv, TypeOK
  <2>5. m \in Nat /\ m <= Len(c)
    BY <2>4 DEF UpTo
  <2> HIDE DEF m, c
  <2>6. \A x \in 1 .. m : c[x] \in S
    BY <2>3, <2>4, <2>5, ElementOfSeq
  <2>7. h.got \in Seq(S) /\ Len(h.got) = IF 1 <= m THEN m - 1 + 1 ELSE 0
    BY <2>1, <2>5, <2>6, SubSeqProperties DEF c, m
  <2>8. Len(h.got) = m
    BY <2>5, <2>7
  <2>9. SubSeq(h.got, 1, m) = h.got
    BY <2>7, <2>8, SubSeqFull
  <2> QED  BY <2>1, <2>2, <2>5, <2>8, <2>9 DEF IsPrefix, c, m
<1> QED  BY <1>1, Tracing, PTL

(* A plain read returns 0 at the end and nowhere else: cat and ls stop     *)
(* with all of it read (ece391cat.c:22, ece391ls.c:18).                    *)
THEOREM AlwaysEndMeansAll == Spec => []EndMeansAll
<1>1. IInv /\ Traced => EndMeansAll
  <2> SUFFICES ASSUME IInv, Traced, NEW fd \in UserFds, NEW n \in ReadSizes,
                      NEW k \in {"file", "directory"},
                      Holding(fd, k), history[fd].plain, Plain(k, n), Result(fd, n).retval = 0
               PROVE  history[fd].got = Contents[history[fd].name]
    BY DEF EndMeansAll
  <2> DEFINE h == history[fd]
             e == FirstNamed(h.name)
             c == Content(e)
             p == file_position[fd]
  <2>1. /\ h.name \in Filenames /\ e.file_type = k
        /\ h.got = SubSeq(c, 1, UpTo(p, Len(c)))
        /\ k = "file" => inode[fd] = e.inode_number
    BY DEF Traced, Followed
  <2>2. Contents[h.name] = c
    BY <2>1 DEF Contents, Readable
  <2>3. /\ ops[fd] = OpsOf(k) /\ ops[fd].read = k /\ InFile(fd) /\ n \in Uints
        /\ p \in Nat /\ inode[fd] \in 0 .. INODES
    <3>1. ops[fd] = OpsOf(k) /\ flags[fd] = 1 /\ ~Held(fd)
      BY DEF Holding, Held
    <3>2. InFile(fd)
      BY <3>1 DEF IInv, Sound, EntryAt, ShutEntry
    <3> QED  BY <3>1, <3>2, OpsOfKind, TableAssumption, TableSizes DEF Kinds, IInv, TypeOK
  <2>4. CASE k = "file"
    <3>1. /\ e.inode_number \in 0 .. INODES /\ p \in 0 .. Length(e.inode_number) /\ n \in Ints
          /\ file_read(e.inode_number, p, n).retval = 0
      BY <2>1, <2>3, <2>4 DEF InFile, Plain, Result
    <3>2. p = Length(e.inode_number)
      BY <2>1, <2>3, <2>4, <3>1, PlainFileRead
    <3>3. PICK S : c \in Seq(S)
      BY <2>1, <2>4, <3>1, FileContent
    <3>4. Len(c) = p /\ UpTo(p, Len(c)) = Len(c)
      BY <2>1, <2>3, <2>4, <3>1, <3>2, FileContent DEF UpTo
    <3>5. SubSeq(c, 1, Len(c)) = c
      BY <3>3, SubSeqFull
    <3> QED  BY <2>1, <2>2, <3>4, <3>5
  <2>5. CASE k = "directory"
    <3>1. /\ p \in 0 .. DIR /\ DIR \in Nat /\ Len(dir_entries) \in Nat
          /\ directory_read(p, NAME).retval = 0
      BY <2>3, <2>5, TableSizes DEF InFile, Plain, Result
    <3>2. p \in 0 .. DIR - 1
      BY <2>3, <3>1 DEF directory_read, FAILURE
    <3>3. ~(p < Len(dir_entries))
      BY <3>1, <3>2, PlainDirectoryRead
    <3>4. c \in Seq(Names) /\ Len(c) = Len(dir_entries)
      BY <2>1, <2>5, DirectoryContent
    <3>5. UpTo(p, Len(c)) = Len(c)
      BY <3>3, <3>4 DEF UpTo
    <3>6. SubSeq(c, 1, Len(c)) = c
      BY <3>4, SubSeqFull
    <3> QED  BY <2>1, <2>2, <3>5, <3>6
  <2> QED  BY <2>4, <2>5
<1> QED  BY <1>1, Tracing, PTL

(***************************************************************************)
(* Refinement: what each step looks like in OpenFiles.                     *)
(***************************************************************************)
LEMMA SeenOpen ==
    ASSUME IInv, NEW fd \in UserFds, flags[fd] # 0, ~Held(fd)
    PROVE  /\ Seen[fd] = [kind |-> ops[fd].read, pos |-> file_position[fd]]
           /\ ops[fd].read \in Kinds /\ Seen[fd] # Files!Closed
<1>1. Seen[fd] = [kind |-> ops[fd].read, pos |-> file_position[fd]]
  BY DEF Seen, SeenAt
<1>2. ops[fd].read \in Kinds
  BY OpsOfKind DEF IInv, Sound, EntryAt, ShutEntry, OpenEntry
<1>3. Seen[fd].kind # "closed"
  BY <1>1, <1>2, OpsOfKind
<1> QED  BY <1>1, <1>2, <1>3 DEF Files!Closed

LEMMA SeenClosed ==
    ASSUME NEW fd \in UserFds, flags[fd] = 0 \/ Held(fd)
    PROVE  Seen[fd] = Files!Closed
BY DEF Seen, SeenAt, Files!Closed

LEMMA SeenSame ==
    ASSUME \A fd \in UserFds : SeenAt(fd)' = SeenAt(fd)
    PROVE  Seen' = Seen
BY DEF Seen

(* A step that changes how one entry is seen.                              *)
LEMMA SeenOne ==
    ASSUME NEW fd \in UserFds, \A e \in UserFds \ {fd} : SeenAt(e)' = SeenAt(e)
    PROVE  Seen' = [Seen EXCEPT ![fd] = Seen'[fd]]
BY DEF Seen

(* An entry that is kept, and held neither before nor after, looks alike.  *)
LEMMA SeenKept ==
    ASSUME NEW fd \in UserFds, Kept(fd), ~Held(fd), ~Held(fd)'
    PROVE  SeenAt(fd)' = SeenAt(fd)
BY DEF Kept, SeenAt

LEMMA InitRefines == Init => Files!Init
BY DEF Init, InProgram, Files!Init, Files!Nothing, Files!Closed, Seen, SeenAt, UserFds, Fds,
       FD_START

LEMMA OpensRefine ==
    ASSUME IInv, OpenInstall
    PROVE  Files!Open(fd_local)
<1> DEFINE k == file_to_open.file_type
<1>0. /\ fd_local \in UserFds /\ fd_local \in Fds
      /\ ops' = [ops EXCEPT ![fd_local].read = k, ![fd_local].write = k]
      /\ inode' = [inode EXCEPT ![fd_local] =
                      IF k = "file" THEN file_to_open.inode_number ELSE inode[fd_local]]
      /\ pc = "closable" /\ pc' = "user"
      /\ flags[fd_local] = 1 /\ file_position[fd_local] = 0
      /\ \A e \in UserFds : e < fd_local => flags[e] = 1
      /\ UNCHANGED << flags, file_position, fd_local >>
  BY TableSizes DEF IInv, TypeOK, OpenInstall, Calls
<1>1. k \in Kinds /\ ops'[fd_local].read = k
  BY <1>0, NameKnown, LookupTyped DEF IInv, TypeOK, Calls, file_to_open
<1>2. Seen[fd_local] = Files!Closed
  BY <1>0, SeenClosed DEF Held, InCall
<1>3. Seen'[fd_local] = [kind |-> k, pos |-> 0]
  BY <1>0, <1>1 DEF Seen, SeenAt, Held, InCall
<1>4. ASSUME NEW e \in UserFds \ {fd_local} PROVE SeenAt(e)' = SeenAt(e)
  <2>1. Kept(e)
    BY <1>0, <1>4, TableSizes DEF IInv, TypeOK, Kept
  <2> QED  BY <1>0, <1>4, <2>1, SeenKept DEF Held, InCall
<1>5. Seen' = [Seen EXCEPT ![fd_local] = [kind |-> k, pos |-> 0]]
  BY <1>0, <1>3, <1>4, SeenOne
<1>6. ASSUME NEW e \in UserFds, e < fd_local PROVE Seen[e] # Files!Closed
  <2>1. e # fd_local
    BY <1>0, <1>6, TableSizes, SMT
  <2>2. flags[e] # 0 /\ ~Held(e)
    BY <1>0, <1>6, <2>1 DEF Held
  <2> QED  BY <2>2, SeenOpen
<1>7. Seen'[fd_local].kind = k
  BY <1>3
<1> QED  BY <1>0, <1>1, <1>2, <1>5, <1>6, <1>7 DEF Files!Open, InProgram

LEMMA ClosesRefine ==
    ASSUME IInv, NEW fd \in UserFds, CloseStart(fd)
    PROVE  Files!Close(fd)
<1>0. /\ fd \in Fds /\ flags[fd] = 1 /\ fd_local' = fd
      /\ ops' = [ops EXCEPT ![fd].close = Null]
      /\ pc = "user" /\ pc' = "uncloseable"
      /\ UNCHANGED << flags, inode, file_position >>
  BY TableSizes DEF CloseStart, Admits
<1>1. Seen[fd] # Files!Closed
  <2>1. flags[fd] # 0 /\ ~Held(fd)
    BY <1>0 DEF Held, InCall
  <2> QED  BY <2>1, SeenOpen
<1>2. Seen'[fd] = Files!Closed
  BY <1>0 DEF Seen, SeenAt, Held, InCall, Files!Closed
<1>3. ASSUME NEW e \in UserFds \ {fd} PROVE SeenAt(e)' = SeenAt(e)
  <2>1. Kept(e)
    BY <1>0, <1>3, TableSizes DEF IInv, TypeOK, Kept
  <2> QED  BY <1>0, <1>3, <2>1, SeenKept DEF Held, InCall
<1>4. Seen' = [Seen EXCEPT ![fd] = Files!Closed]
  BY <1>2, <1>3, SeenOne
<1> QED  BY <1>0, <1>1, <1>4 DEF Files!Close, InProgram

LEMMA ReadsRefine ==
    ASSUME IInv, IInv', NEW fd \in Fds, NEW n \in ReadSizes, Read(fd, n)
    PROVE  (fd \in UserFds /\ Files!Read(fd)) \/ (Seen' = Seen /\ InProgram' = InProgram)
<1>0. /\ pc = "user" /\ flags[fd] = 1 /\ fd # 1
      /\ file_position' = [file_position EXCEPT ![fd] = file_position'[fd]]
      /\ UNCHANGED << flags, ops, inode, pc, fd_local >>
  BY DEF IInv, TypeOK, Read, Admits
<1>1. InProgram /\ InProgram'
  BY <1>0 DEF InProgram
<1>2. ASSUME NEW e \in UserFds, e # fd PROVE SeenAt(e)' = SeenAt(e)
  <2>1. Kept(e)
    BY <1>0, <1>2, TableSizes DEF IInv, TypeOK, Kept
  <2> QED  BY <1>0, <2>1, SeenKept DEF Held, InCall
<1>3. CASE fd \in UserFds
  <2>1. /\ Seen[fd] = [kind |-> ops[fd].read, pos |-> file_position[fd]]
        /\ Seen[fd] # Files!Closed
    BY <1>0, <1>3, SeenOpen DEF Held, InCall
  <2>2. Seen'[fd] = [kind |-> ops[fd].read, pos |-> file_position'[fd]]
    BY <1>0, <1>3 DEF Seen, SeenAt, Held, InCall
  <2>3. Seen' = [Seen EXCEPT ![fd] = Seen'[fd]]
    BY <1>2, <1>3, SeenOne
  <2>4. Seen'[fd] = [Seen[fd] EXCEPT !.pos = Seen'[fd].pos]
    BY <2>1, <2>2
  <2>5. Seen' = [Seen EXCEPT ![fd].pos = Seen'[fd].pos]
    BY <1>3, <2>3, <2>4 DEF Seen
  <2>6. Seen'[fd].pos \in Ints
    BY <2>2 DEF IInv, TypeOK
  <2> QED  BY <1>1, <1>3, <2>1, <2>5, <2>6 DEF Files!Read
<1>4. CASE fd \notin UserFds
  BY <1>1, <1>2, <1>4, SeenSame
<1> QED  BY <1>3, <1>4

LEMMA ExitsRefine ==
    ASSUME IInv, IInv', Halt \/ HaltFaults
    PROVE  Files!Exit
<1>1. InProgram /\ ~InProgram' /\ pc' \in {"free", "faulting"}
  BY DEF Halt, HaltFaults, InProgram
<1>2. ASSUME NEW fd \in UserFds PROVE SeenAt(fd)' = Files!Closed
  BY <1>1 DEF IInv, SlotClean, ShutEntry, SeenAt, Held, Files!Closed
<1>3. Seen' = Files!Nothing
  BY <1>2 DEF Seen, Files!Nothing
<1> QED  BY <1>1, <1>3 DEF Files!Exit

(* The other steps inside a call, and execute, change no entry a program   *)
(* can see.                                                                *)
LEMMA QuietRefine ==
    ASSUME IInv, IInv',
           \/ Execute \/ OpenNoSuchName \/ OpenFound \/ CloseFinish
           \/ \E fd \in UserFds, name \in Filenames : OpenMark(fd, name)
    PROVE  Seen' = Seen
<1>1. CASE Execute
  <2>1. ASSUME NEW fd \in UserFds PROVE flags[fd] = 0 /\ flags'[fd] = 0
    BY <1>1, TableSizes DEF IInv, TypeOK, SlotClean, ShutEntry, Execute
  <2> QED  BY <2>1, SeenSame DEF SeenAt
<1>2. CASE OpenNoSuchName \/ CloseFinish
  <2>1. /\ fd_local \in UserFds /\ fd_local \in Fds /\ fd_local' = fd_local
        /\ InCall /\ pc' = "user" /\ flags' = [flags EXCEPT ![fd_local] = 0]
    BY <1>2, TableSizes DEF IInv, TypeOK, OpenNoSuchName, CloseFinish, DropClaim,
                            ClearFlags, InCall
  <2>2. ASSUME NEW e \in UserFds, e = fd_local PROVE SeenAt(e)' = SeenAt(e)
    BY <2>1, <2>2 DEF IInv, TypeOK, SeenAt, Held
  <2>3. ASSUME NEW e \in UserFds, e # fd_local PROVE SeenAt(e)' = SeenAt(e)
    <3>1. Kept(e)
      BY <1>2, <2>1, <2>3, TableSizes DEF IInv, TypeOK, Kept, OpenNoSuchName, CloseFinish
    <3> QED  BY <2>1, <2>3, <3>1, SeenKept DEF Held, InCall
  <2>4. \A e \in UserFds : SeenAt(e)' = SeenAt(e)
    BY <2>2, <2>3
  <2> QED  BY <2>4, SeenSame
<1>3. CASE OpenFound
  <2>1. /\ fd_local \in UserFds /\ fd_local \in Fds /\ fd_local' = fd_local
        /\ pc = "marked" /\ pc' = "closable"
    BY <1>3, TableSizes DEF IInv, TypeOK, OpenFound
  <2>2. ASSUME NEW e \in UserFds, e = fd_local PROVE SeenAt(e)' = SeenAt(e)
    BY <2>1, <2>2 DEF SeenAt, Held, InCall
  <2>3. ASSUME NEW e \in UserFds, e # fd_local PROVE SeenAt(e)' = SeenAt(e)
    <3>1. Kept(e)
      BY <1>3, <2>1, <2>3, TableSizes DEF IInv, TypeOK, Kept, OpenFound
    <3> QED  BY <2>1, <2>3, <3>1, SeenKept DEF Held, InCall
  <2>4. \A e \in UserFds : SeenAt(e)' = SeenAt(e)
    BY <2>2, <2>3
  <2> QED  BY <2>4, SeenSame
<1>4. ASSUME NEW fd \in UserFds, NEW name \in Filenames, OpenMark(fd, name)
      PROVE  Seen' = Seen
  <2>1. fd \in Fds /\ fd_local' = fd /\ pc = "user" /\ pc' = "marked" /\ flags[fd] = 0
    BY <1>4, TableSizes DEF OpenMark, FirstFree
  <2>2. SeenAt(fd)' = SeenAt(fd)
    BY <2>1 DEF SeenAt, Held, InCall
  <2>3. ASSUME NEW e \in UserFds, e # fd PROVE SeenAt(e)' = SeenAt(e)
    <3>1. Kept(e)
      BY <1>4, <2>1, <2>3, TableSizes DEF IInv, TypeOK, Kept, OpenMark
    <3> QED  BY <2>1, <2>3, <3>1, SeenKept DEF Held, InCall
  <2>4. \A e \in UserFds : SeenAt(e)' = SeenAt(e)
    BY <2>2, <2>3
  <2> QED  BY <2>4, SeenSame
<1> QED  BY <1>1, <1>2, <1>3, <1>4

(* The table implements OpenFiles: to a program, open, close, read and the *)
(* end of a program are single steps, though Ctrl+C may fall inside a call *)
(* (syscalls.c:82), for every table and every directory.                   *)
THEOREM Refinement == Spec => ImplementsOpenFiles
<1>1. ASSUME IInv, IInv', [Next]_vars PROVE [Files!Next]_(Files!vars)
  <2>1. CASE Execute
    BY <1>1, <2>1, QuietRefine DEF Execute, Files!Next, Files!Start, InProgram
  <2>2. CASE OpenNoSuchName \/ OpenFound \/ CloseFinish
             \/ \E fd \in UserFds, name \in Filenames : OpenMark(fd, name)
    <3>1. Seen' = Seen
      BY <1>1, <2>2, QuietRefine
    <3>2. InProgram' = InProgram
      BY <2>2 DEF InProgram, OpenNoSuchName, OpenFound, CloseFinish, OpenMark
    <3> QED  BY <3>1, <3>2 DEF Files!vars
  <2>3. CASE OpenInstall
    BY <1>1, <2>3, OpensRefine DEF Files!Next, OpenInstall, IInv, TypeOK
  <2>4. ASSUME NEW fd \in UserFds, CloseStart(fd) PROVE Files!Next
    BY <1>1, <2>4, ClosesRefine DEF Files!Next
  <2>5. ASSUME NEW fd \in Fds, NEW n \in ReadSizes, Read(fd, n)
        PROVE  [Files!Next]_(Files!vars)
    BY <1>1, <2>5, ReadsRefine DEF Files!Next, Files!vars
  <2>6. CASE Halt \/ HaltFaults
    BY <1>1, <2>6, ExitsRefine DEF Files!Next
  <2>7. CASE Refused \/ FaultAgain \/ (\E fd \in Fds : Write(fd)) \/ UNCHANGED vars
    <3>1. UNCHANGED vars
      BY <2>7 DEF Refused, FaultAgain, Write
    <3> QED  BY <3>1 DEF vars, entries, Files!vars, Seen, SeenAt, Held, InCall, InProgram
  <2> QED  BY <1>1, <2>1, <2>2, <2>3, <2>4, <2>5, <2>6, <2>7 DEF Next
<1> QED  BY <1>1, InitRefines, Invariance, PTL DEF Spec, ImplementsOpenFiles, Files!Spec

=============================================================================
