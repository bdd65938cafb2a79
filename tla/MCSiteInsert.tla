----------------------------- MODULE MCSiteInsert -----------------------------
(***************************************************************************)
(* Small instances of SiteInsert: the index page and one or two files.     *)
(***************************************************************************)
EXTENDS SiteInsert, TLC

\* A file of the site is separate from its second version on, and any file is
\* when the second version of the index page takes its place in the manifest.
GrowingSplit(d, i) == 
  {f \in Files \ {Index} : d[f] > 1 \/ (d[f] = 1 /\ i > 1)}

\* A file whose first version is large, and the second one small until the
\* index grows.
ShrinkingSplit(d, i) == 
  {f \in Files \ {Index} : d[f] = 1 \/ (d[f] = 2 /\ i > 1)}

\* One separate file is never too many.
NoneBack(d, i) == {}
================================================================================
