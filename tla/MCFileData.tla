----------------------------- MODULE MCFileData -----------------------------
(* FileData for TLC: parts of a page, whole pages, and ranges that cross.    *)
EXTENDS FileData

MCRanges == {<<0, 1>>, <<1, 4>>, <<2, 4>>}
=============================================================================
