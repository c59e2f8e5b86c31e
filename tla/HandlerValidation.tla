------------------------- MODULE HandlerValidation -------------------------
(***************************************************************************)
(* RtlIsValidHandler (exdsptch.c lines 77-124): the handler of a           *)
(* registration record is looked up in the SafeSEH table of the image that *)
(* contains it, by binary search over the sorted table of handler RVAs.    *)
(*                                                                         *)
(* RtlLookupFunctionTable is the environment: it finds no table (NULL), a  *)
(* table pointer with no entries, the all-ones sentinel of an image that   *)
(* may hold no handlers, or a table.  One step is the lookup and its       *)
(* early returns, then one step per iteration of the while loop of line    *)
(* 104.  The loop starts with High = FunctionTableLength, so it can read   *)
(* FunctionTable[FunctionTableLength], one entry past the table: that read *)
(* returns whatever word follows the table in memory.                      *)
(***************************************************************************)
EXTENDS Integers, FiniteSets

CONSTANTS
  Width,      \* bits of a ULONG
  Lookups,    \* what RtlLookupFunctionTable finds for the handler's image
  Tables,     \* the registered tables: functions 0..n-1 -> Word, sorted
  Handlers,   \* candidate Handler addresses
  Bases       \* candidate image bases

Word == 0 .. 2^Width - 1

\* FunctionTableLength of a table.
TableLength(t) == Cardinality(DOMAIN t)

LookupKind == {"none", "empty", "sentinel", "table"}

ASSUME ValidationAssumption ==
  /\ Width \in Nat \ {0}
  /\ 2^Width \in Nat \ {0}
  /\ Lookups \subseteq LookupKind
  /\ \A t \in Tables :
       /\ TableLength(t) \in Nat \ {0}
       /\ t \in [0 .. TableLength(t) - 1 -> Word]
       \* the image's table of handler RVAs is sorted (the binary search
       \* of lines 104-114 relies on it)
       /\ \A i, j \in DOMAIN t : i < j => t[i] < t[j]
  /\ Handlers \subseteq Word
  /\ Bases \subseteq Word


VARIABLES
  lookup,    \* what RtlLookupFunctionTable returned
  table,     \* FunctionTable (a registered table, read only if "table")
  handler,   \* Handler, biased by the image base once the search starts
  base,      \* Base
  low,       \* Low
  high,      \* High
  result,    \* "lookup", "searching", or the BOOLEAN returned
  pastEnd    \* history: FunctionTable[FunctionTableLength] has been read

vars == <<lookup, table, handler, base, low, high, result, pastEnd>>

TypeOK ==
  /\ lookup \in Lookups
  /\ table \in Tables
  /\ handler \in Word
  /\ base \in Word
  /\ low \in Int
  /\ high \in Int
  /\ result \in {"lookup", "searching", "TRUE", "FALSE"}
  /\ pastEnd \in BOOLEAN

Init ==
  /\ lookup \in Lookups
  /\ table \in Tables
  /\ handler \in Handlers
  /\ base \in Bases
  /\ low = 0
  /\ high = 0
  /\ result = "lookup"
  /\ pastEnd = FALSE

\* Lines 86-103 and 122-123: no table, or one of length 0, cannot verify
\* and accepts; the sentinel rejects; a table starts the search with the
\* handler biased down by the image base (ULONG subtraction).
Lookup ==
  /\ result = "lookup"
  /\ CASE lookup \in {"none", "empty"} ->
            result' = "TRUE" /\ UNCHANGED <<handler, high>>
       [] lookup = "sentinel" ->
            result' = "FALSE" /\ UNCHANGED <<handler, high>>
       [] lookup = "table" ->
            /\ result' = "searching"
            /\ handler' = (handler - base) % 2^Width
            /\ high' = TableLength(table)
  /\ UNCHANGED <<lookup, table, base, low, pastEnd>>

\* Bug variant: Handler and FunctionEntry compared as signed LONGs.
SignedWord(x) == IF x >= 2^(Width - 1) THEN x - 2^Width ELSE x

ProbeSigned ==
  /\ result = "searching"
  /\ high >= low
  /\ LET middle == (low + high) \div 2 IN
     \E entry \in IF middle < TableLength(table) THEN {table[middle]} ELSE Word :
       /\ pastEnd' = (pastEnd \/ middle >= TableLength(table))
       /\ CASE SignedWord(handler) < SignedWord(entry) ->
                 high' = middle - 1 /\ UNCHANGED <<low, result>>
            [] SignedWord(handler) > SignedWord(entry) ->
                 low' = middle + 1 /\ UNCHANGED <<high, result>>
            [] OTHER ->
                 result' = "TRUE" /\ UNCHANGED <<low, high>>
  /\ UNCHANGED <<lookup, table, handler, base>>

\* Bug variant: Low = Middle instead of Middle + 1 (line 110).
ProbeNoProgress ==
  /\ result = "searching"
  /\ high >= low
  /\ LET middle == (low + high) \div 2 IN
     \E entry \in IF middle < TableLength(table) THEN {table[middle]} ELSE Word :
       /\ pastEnd' = (pastEnd \/ middle >= TableLength(table))
       /\ CASE handler < entry ->
                 high' = middle - 1 /\ UNCHANGED <<low, result>>
            [] handler > entry ->
                 low' = middle /\ UNCHANGED <<high, result>>
            [] OTHER ->
                 result' = "TRUE" /\ UNCHANGED <<low, high>>
  /\ UNCHANGED <<lookup, table, handler, base>>

\* Lines 104-114: one probe at Middle = (Low + High) >> 1.  Inside the
\* table it reads FunctionTable[Middle]; at FunctionTableLength it reads
\* the word after the table.
Probe ==
  /\ result = "searching"
  /\ high >= low
  /\ LET middle == (low + high) \div 2 IN
     \E entry \in IF middle < TableLength(table) THEN {table[middle]} ELSE Word :
       /\ pastEnd' = (pastEnd \/ middle >= TableLength(table))
       /\ CASE handler < entry ->
                 high' = middle - 1 /\ UNCHANGED <<low, result>>
            [] handler > entry ->
                 low' = middle + 1 /\ UNCHANGED <<high, result>>
            [] OTHER ->
                 result' = "TRUE" /\ UNCHANGED <<low, high>>
  /\ UNCHANGED <<lookup, table, handler, base>>

\* Lines 104 and 116-119: the search range is empty; reject.
NotFound ==
  /\ result = "searching"
  /\ high < low
  /\ result' = "FALSE"
  /\ UNCHANGED <<lookup, table, handler, base, low, high, pastEnd>>

Done ==
  /\ result \in {"TRUE", "FALSE"}
  /\ UNCHANGED vars

Next == Lookup \/ Probe \/ NotFound \/ Done

Spec == Init /\ [][Next]_vars /\ WF_vars(Next)

-----------------------------------------------------------------------------
(***************************************************************************)
(* Properties, against the reference definition: a handler is listed when *)
(* its RVA is an entry of the image's table.                               *)
(***************************************************************************)

\* The RVA of the handler, as the caller passed it.
Rva == IF result = "lookup" THEN (handler - base) % 2^Width ELSE handler

Listed == \E i \in DOMAIN table : table[i] = Rva

\* A handler whose RVA is in its image's sorted table is always accepted.
ListedIsValid ==
  (lookup = "table" /\ Listed) => result # "FALSE"

\* A handler of an image with a handler table is accepted only if its RVA
\* is listed (spec sections 3 and 8: absence of an entry fails validation;
\* an address outside [min, max] of the table is reported invalid).
UnlistedIsInvalid ==
  (lookup # "none" /\ result = "TRUE") => (lookup = "table" /\ Listed)

\* Every validation returns.
ValidationTerminates == <>(result \in {"TRUE", "FALSE"})
=============================================================================
