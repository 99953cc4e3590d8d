----------------------------- MODULE MCFdTable -----------------------------
(***************************************************************************)
(* An image for FdTable: a directory, the RTC, a file of a block and a     *)
(* half, and one whose name goes on after the other's and whose second     *)
(* block is not there.  Names of two characters fill the entry.            *)
(***************************************************************************)
EXTENDS FdTable

MCEntries ==
    << [file_name |-> << "." >>,      file_type |-> "directory", inode_number |-> 0],
       [file_name |-> << "a", "b" >>, file_type |-> "file",      inode_number |-> 1],
       [file_name |-> << "a" >>,      file_type |-> "file",      inode_number |-> 2],
       [file_name |-> << "r" >>,      file_type |-> "rtc",       inode_number |-> 0] >>

MCInodes ==
    0 :> [length_in_bytes |-> 0, data_blocks |-> << >>] @@
    1 :> [length_in_bytes |-> 3, data_blocks |-> 0 :> 2 @@ 1 :> 3] @@
    2 :> [length_in_bytes |-> 3, data_blocks |-> 0 :> 1 @@ 1 :> 0]

MCData ==
    0 :> (0 :> "u" @@ 1 :> "v") @@
    1 :> (0 :> "w" @@ 1 :> "x") @@
    2 :> (0 :> "y" @@ 1 :> "z")

MCFilenames == {<< "." >>, << "a" >>, << "a", "b" >>, << "r" >>, << "a", "a" >>}

=============================================================================
