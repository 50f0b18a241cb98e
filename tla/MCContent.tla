------------------------------ MODULE MCContent ------------------------------
(***************************************************************************)
(* Content on files of a few bytes, in every division into slices.          *)
(***************************************************************************)
EXTENDS Content

CONSTANT MaxFileSize      \* bytes of the file

MCNext == ContentNext /\ TotalSize(slices') <= MaxFileSize
MCSpec == ContentInit /\ [][MCNext]_content_vars

=============================================================================
