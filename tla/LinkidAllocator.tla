--------------------------- MODULE LinkidAllocator ---------------------------
(***************************************************************************)
(* LinkidAllocator (src/src/linkidallocator.cpp): one counter for the      *)
(* links of a process, kept by the module that allocates.                  *)
(***************************************************************************)
EXTENDS Naturals

First == 1

\* The identifier of a new link is the counter, which becomes:
next(last) == last + 1
=============================================================================
