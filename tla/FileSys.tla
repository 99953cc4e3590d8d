------------------------------ MODULE FileSys ------------------------------
(***************************************************************************)
(* The read-only file system (file_sys_driver.c): an image in memory, that *)
(* is a boot block with a directory, inodes and data blocks, and the       *)
(* functions that look names up and read from it.  They keep no state.     *)
(*                                                                         *)
(* Inodes, blocks and bytes are numbered from 0 as in the code; a name is  *)
(* the sequence of its characters before the first '\0'.                   *)
(*                                                                         *)
(* PrefixMatches, OneBlock and WholeBlocks are not the code: each is the   *)
(* next definition with a plausible mistake in it.                         *)
(***************************************************************************)
EXTENDS Integers, SequencesExt

CONSTANTS
    NAME,           \* characters of a name: 32 in the code
    DIR,            \* entries of the directory: 63 in the code
    INODES,         \* the largest inode number file_read takes: 64 in the code
    BLOCK,          \* bytes of a block: 4096 in the code
    UINT_MAX,       \* the largest unsigned: 2^32 - 1 in the code
    dir_entries,    \* the entries that are used, in order
    inode_table,    \* inode_table[n]: length_in_bytes and data_blocks of inode n
    data            \* data[b]: the bytes of block b

FAILURE == -1
Kinds   == {"rtc", "directory", "file"}
Nul     == "nul"
Names   == Seq(STRING \ {Nul})
Entries == [file_name : Names, file_type : Kinds, inode_number : Nat]
Uints   == 0 .. UINT_MAX
Ints    == 0 .. UINT_MAX \div 2          \* those that are not negative

(* A file is shorter than 2 GB and has a number for each of its blocks,    *)
(* which need not be that of a block there is.                             *)
ASSUME FileSysAssumption ==
    /\ NAME \in Nat \ {0}
    /\ BLOCK \in Nat \ {0}
    /\ UINT_MAX \in Nat
    /\ INODES \in Nat
    /\ dir_entries \in Seq(Entries)
    /\ Len(dir_entries) <= DIR /\ DIR \in Ints
    /\ \A n \in 0 .. INODES :
          /\ inode_table[n].length_in_bytes \in Ints
          /\ DOMAIN inode_table[n].data_blocks =
                0 .. (inode_table[n].length_in_bytes + BLOCK - 1) \div BLOCK - 1
    /\ \A k \in 1 .. Len(dir_entries) :
          /\ Len(dir_entries[k].file_name) \in 1 .. NAME
          /\ dir_entries[k].inode_number \in 0 .. INODES

Unused  == [file_name |-> << >>, file_type |-> "rtc", inode_number |-> 0]
Slot(k) == IF k < Len(dir_entries) THEN dir_entries[k + 1] ELSE Unused

-----------------------------------------------------------------------------
(* read_dentry_by_name goes through all entries and compares until both    *)
(* names end or NAME characters are equal.                                 *)
Char(s, k) == IF k < Len(s) THEN s[k + 1] ELSE Nul

PrefixMatches(fname, name) ==
    \A k \in 0 .. Len(fname) - 1 : Char(fname, k) = Char(name, k)
Matches(fname, name) ==
    \E j \in 0 .. NAME - 1 :
        /\ Char(fname, j) = Nul \/ j = NAME - 1
        /\ \A k \in 0 .. j : Char(fname, k) = Char(name, k)

NoEntry == [file_name |-> << >>, file_type |-> "none", inode_number |-> 0]

read_dentry_by_name(fname) ==
    LET found == {k \in 0 .. DIR - 1 : Matches(fname, Slot(k).file_name)}
    IN  IF Len(fname) \in 1 .. NAME /\ found # {}
        THEN Slot(CHOOSE k \in found : \A m \in found : k <= m)
        ELSE NoEntry

(* file_open and directory_open look the name up again and want their own  *)
(* type; rtc_open wants nothing.                                           *)
Opens(fname, k) == k = "rtc" \/ read_dentry_by_name(fname).file_type = k

(* directory_read copies the name up to its '\0'.  A name of NAME          *)
(* characters has none: after it comes the first byte of the type, which   *)
(* is 0 for the RTC and is followed by a 0 otherwise.                      *)
NameAt(k) ==
    LET e == Slot(k)
    IN  IF Len(e.file_name) < NAME \/ e.file_type = "rtc"
        THEN e.file_name
        ELSE Append(e.file_name, e.file_type)

UpTo(n, length) == IF n < length THEN n ELSE length

directory_read(position, nbytes) ==
    IF position >= DIR
    THEN [retval |-> FAILURE, buf |-> << >>]
    ELSE LET n == UpTo(nbytes, Len(NameAt(position)))
         IN  [retval |-> n, buf |-> SubSeq(NameAt(position), 1, n)]

-----------------------------------------------------------------------------
(* read_data adds offset and length in 32 bits.                            *)
WholeBlocks(inode, offset, length) ==
    LET actual == (inode_table[inode].length_in_bytes \div BLOCK) * BLOCK
        end    == (offset + length) % (UINT_MAX + 1)
    IN  IF end > actual THEN actual ELSE end
UpperBound(inode, offset, length) ==
    LET actual == inode_table[inode].length_in_bytes
        end    == (offset + length) % (UINT_MAX + 1)
    IN  IF end > actual THEN actual ELSE end

OneBlock(inode, k) == inode_table[inode].data_blocks[0]
BlockOf(inode, k)  == inode_table[inode].data_blocks[k \div BLOCK]

(* A block there is not makes the call fail, whatever was copied before.   *)
read_data(inode, offset, length) ==
    LET upperbound == UpperBound(inode, offset, length)
        cells      == offset .. upperbound - 1
    IN  IF length = 0 \/ \E k \in cells : BlockOf(inode, k) \notin DOMAIN data
        THEN [retval |-> FAILURE, buf |-> << >>]
        ELSE [retval |-> upperbound - offset,
              buf |-> [k \in 1 .. upperbound - offset |->
                          data[BlockOf(inode, offset + k - 1)][(offset + k - 1) % BLOCK]]]

file_read(inode, position, nbytes) ==
    IF inode \notin 0 .. INODES \/ nbytes = 0
    THEN [retval |-> FAILURE, buf |-> << >>]
    ELSE read_data(inode, position, nbytes)

=============================================================================
