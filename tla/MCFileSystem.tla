---------------------------- MODULE MCFileSystem ----------------------------
(* Small instances of FileSystem for TLC. *)
EXTENDS FileSystem

\* A read of a file, the directory listing, a deletion and a logged error: one
\* call of each shape.
MCCalls == {"exists", "READ_DIRECTORY", "DELETE", "log_dir"}
=============================================================================
