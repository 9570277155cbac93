----------------------------- MODULE MCLoadData -----------------------------
(* Values for the constants of LoadData that a cfg cannot express.          *)
EXTENDS LoadData

\* An empty range, the start, the middle and the end of a file.
MCRanges == {<<3, 3>>, <<0, 2>>, <<1, 4>>, <<3, FileLen>>}
============================================================================
