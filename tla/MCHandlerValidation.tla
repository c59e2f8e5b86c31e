------------------------ MODULE MCHandlerValidation -------------------------
(***************************************************************************)
(* Small instances of HandlerValidation: 4-bit words, every sorted table   *)
(* over four RVAs, every handler address, and two image bases.             *)
(***************************************************************************)
EXTENDS HandlerValidation, SequencesExt

MCWidth == 4

MCEntries == {1, 4, 6, 9}

\* Every non-empty strictly ascending table over MCEntries, indexed from 0
\* as FunctionTable is.
MCTables ==
  { LET s == SetToSortSeq(S, <) IN [i \in 0 .. Len(s) - 1 |-> s[i + 1]] :
      S \in SUBSET MCEntries \ {{}} }

MCHandlers == 0 .. 15

MCBases == {0, 3}

\* Images with no table, with a table pointer of length 0, with the
\* no-handler sentinel, and with a table.
MCLookups == {"none", "empty", "sentinel", "table"}

\* Only images with a table.
MCTableLookups == {"table"}
=============================================================================
