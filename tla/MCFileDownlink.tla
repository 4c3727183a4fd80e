--------------------------- MODULE MCFileDownlink ---------------------------
(* Small instances of FileDownlink for TLC. *)
EXTENDS FileDownlink, TLC

\* Of the packet sizes 2 and 3, each ends one of the files with a full packet and
\* the other with a short one; of size 1, the longer takes more than a window.
MCLength == "two" :> 2 @@ "three" :> 3
=============================================================================
