----------------------- MODULE HandlerValidation_proofs ---------------------
(***************************************************************************)
(* Proof that the binary search of RtlIsValidHandler never rejects a       *)
(* handler whose RVA is in its image's sorted table, for every word width, *)
(* every sorted table and every handler and image base.  This holds even   *)
(* though the first probe may read the word after the table: a listed RVA  *)
(* always lies in [Low, min(High, FunctionTableLength - 1)], and a probe   *)
(* at FunctionTableLength needs Low = FunctionTableLength.                 *)
(***************************************************************************)
EXTENDS HandlerValidation, TLAPS

\* While the loop of line 104 runs, the range [Low, High] never reaches
\* past FunctionTable[FunctionTableLength], and it still holds the entry
\* of a listed handler.
SearchInv ==
  result = "searching" =>
    /\ lookup = "table"
    /\ 0 <= low
    /\ high <= TableLength(table)
    /\ Listed => \E i \in DOMAIN table : table[i] = handler /\ low <= i /\ i <= high

\* Low starts at 0 (line 102) and is not written before the search.
IInv ==
  /\ TypeOK
  /\ result = "lookup" => low = 0
  /\ SearchInv
  /\ ListedIsValid

\* What ValidationAssumption says of one registered table.
LEMMA TableFacts ==
  ASSUME NEW t \in Tables
  PROVE  /\ TableLength(t) \in Nat \ {0}
         /\ DOMAIN t = 0 .. TableLength(t) - 1
         /\ \A i \in DOMAIN t : t[i] \in Word
         /\ \A i, j \in DOMAIN t : i < j => t[i] < t[j]
BY ValidationAssumption

\* What ValidationAssumption says of the inputs.
LEMMA InputFacts ==
  /\ Lookups \subseteq LookupKind
  /\ Handlers \subseteq Word
  /\ Bases \subseteq Word
BY ValidationAssumption

LEMMA InitIInv == Init => IInv
<1> SUFFICES ASSUME Init PROVE IInv
  OBVIOUS
<1>1. TypeOK
  <2>1. handler \in Word /\ base \in Word
    BY InputFacts DEF Init
  <2>2. low \in Int /\ high \in Int
    BY DEF Init
  <2>3. QED
    BY <2>1, <2>2 DEF Init, TypeOK
<1>2. QED
  BY <1>1 DEF Init, IInv, SearchInv, ListedIsValid

\* The lookup of lines 86-103 starts the search with the whole table as
\* range and the handler biased to its RVA.
LEMMA LookupIInv == IInv /\ Lookup => IInv'
<1> SUFFICES ASSUME IInv, Lookup PROVE IInv'
  OBVIOUS
<1>1. CASE lookup \in {"none", "empty"}
  BY <1>1 DEF Lookup, IInv, TypeOK, SearchInv, ListedIsValid
<1>2. CASE lookup = "sentinel"
  BY <1>2 DEF Lookup, IInv, TypeOK, SearchInv, ListedIsValid
<1>3. CASE lookup = "table"
  <2>1. /\ result' = "searching"
        /\ handler' = (handler - base) % 2^Width
        /\ high' = TableLength(table)
        /\ UNCHANGED <<lookup, table, base, low, pastEnd>>
    BY <1>3 DEF Lookup
  <2>2. handler' \in Word
    BY <2>1, ValidationAssumption DEF IInv, TypeOK, Word
  <2>3. TypeOK'
    BY <2>1, <2>2, TableFacts DEF IInv, TypeOK
  <2>4. Listed' => Listed
    BY <1>3, <2>1 DEF Listed, Rva, Lookup
  <2>5. Listed => \E i \in DOMAIN table : table[i] = handler' /\ low' <= i /\ i <= high'
    BY <1>3, <2>1, TableFacts DEF Listed, Rva, IInv, TypeOK, Lookup
  <2>6. SearchInv'
    <3>1. high' <= TableLength(table')
      BY <2>1, TableFacts DEF IInv, TypeOK
    <3>2. QED
      BY <1>3, <2>1, <2>4, <2>5, <3>1 DEF SearchInv, IInv, Lookup
  <2>7. ListedIsValid'
    BY <2>1 DEF ListedIsValid
  <2>8. QED
    BY <2>1, <2>3, <2>6, <2>7 DEF IInv
<1>4. QED
  BY <1>1, <1>2, <1>3, InputFacts DEF IInv, TypeOK, LookupKind

\* One probe of lines 104-114.  Below or above FunctionTable[Middle], the
\* sorted table puts a listed entry on the same side; the word past the
\* table is read only when Low = FunctionTableLength, where no listed
\* entry can be in range.
LEMMA ProbeIInv == IInv /\ Probe => IInv'
<1> SUFFICES ASSUME IInv, Probe PROVE IInv'
  OBVIOUS
<1> DEFINE n == TableLength(table)
           middle == (low + high) \div 2
<1>1. /\ result = "searching"
      /\ high >= low
      /\ lookup = "table"
      /\ high <= n
      /\ n \in Nat \ {0}
      /\ DOMAIN table = 0 .. n - 1
      /\ \A i \in DOMAIN table : table[i] \in Word
      /\ \A i, j \in DOMAIN table : i < j => table[i] < table[j]
      /\ low \in Int /\ high \in Int /\ handler \in Word /\ 0 <= low
      /\ middle \in Int /\ low <= middle /\ middle <= high
  BY TableFacts DEF IInv, TypeOK, SearchInv, Probe
<1>2. PICK entry \in IF middle < n THEN {table[middle]} ELSE Word :
        /\ pastEnd' = (pastEnd \/ middle >= n)
        /\ CASE handler < entry -> high' = middle - 1 /\ UNCHANGED <<low, result>>
             [] handler > entry -> low' = middle + 1 /\ UNCHANGED <<high, result>>
             [] OTHER -> result' = "TRUE" /\ UNCHANGED <<low, high>>
  BY DEF Probe
<1>3. UNCHANGED <<lookup, table, handler, base>> /\ pastEnd' \in BOOLEAN
  BY <1>2 DEF Probe
<1>4. entry \in Word
  <2>1. CASE middle < n
    BY <1>1, <1>2, <2>1
  <2>2. CASE ~(middle < n)
    BY <1>2, <2>2
  <2>3. QED
    BY <2>1, <2>2
\* A listed entry within [Low, High], when the handler is listed.
<1>5. Listed => \E i \in DOMAIN table : table[i] = handler /\ low <= i /\ i <= high
  BY <1>1 DEF IInv, SearchInv
<1>6. CASE handler < entry
  <2>1. high' = middle - 1 /\ low' = low /\ result' = result
    BY <1>1, <1>2, <1>4, <1>6 DEF Word
  <2>2. ASSUME NEW i \in DOMAIN table, table[i] = handler PROVE i <= middle - 1
    <3>1. CASE middle < n
      <4>1. entry = table[middle] /\ middle \in DOMAIN table
        BY <1>1, <1>2, <3>1
      <4>2. i \in Int /\ table[middle] \in Int /\ handler \in Int
        BY <1>1, <4>1 DEF Word
      <4>3. ~(middle < i)
        BY <1>1, <1>6, <2>2, <4>1, <4>2
      <4>4. QED
        BY <1>1, <1>6, <2>2, <4>1, <4>2, <4>3
    <3>2. CASE ~(middle < n)
      BY <1>1, <3>2
    <3>3. QED
      BY <3>1, <3>2
  <2>3. TypeOK' /\ SearchInv'
    BY <1>1, <1>3, <1>5, <2>1, <2>2 DEF TypeOK, SearchInv, Listed, Rva, IInv
  <2>4. QED
    BY <1>1, <2>1, <2>3 DEF IInv, ListedIsValid
<1>7. CASE ~(handler < entry) /\ handler > entry
  <2>1. low' = middle + 1 /\ high' = high /\ result' = result
    BY <1>1, <1>2, <1>4, <1>7 DEF Word
  <2>2. ASSUME NEW i \in DOMAIN table, table[i] = handler, low <= i, i <= high
        PROVE  middle + 1 <= i
    <3>1. CASE middle < n
      <4>1. entry = table[middle] /\ middle \in DOMAIN table
        BY <1>1, <1>2, <3>1
      <4>2. i \in Int /\ table[middle] \in Int /\ handler \in Int
        BY <1>1, <4>1 DEF Word
      <4>3. ~(i < middle)
        BY <1>1, <1>7, <2>2, <4>1, <4>2
      <4>4. QED
        BY <1>1, <1>7, <2>2, <4>1, <4>2, <4>3
    <3>2. CASE ~(middle < n)
      \* middle = n = High, so Low = n: no entry of the table is in range.
      BY <1>1, <2>2, <3>2
    <3>3. QED
      BY <3>1, <3>2
  <2>3. TypeOK' /\ SearchInv'
    BY <1>1, <1>3, <1>5, <2>1, <2>2 DEF TypeOK, SearchInv, Listed, Rva, IInv
  <2>4. QED
    BY <1>1, <2>1, <2>3 DEF IInv, ListedIsValid
<1>8. CASE ~(handler < entry) /\ ~(handler > entry)
  <2>1. result' = "TRUE" /\ low' = low /\ high' = high
    BY <1>1, <1>2, <1>4, <1>8 DEF Word
  <2>2. QED
    BY <1>1, <1>3, <2>1 DEF IInv, TypeOK, SearchInv, ListedIsValid
<1>9. QED
  BY <1>6, <1>7, <1>8

\* Lines 116-119: the range is empty, so the handler is not listed.
LEMMA NotFoundIInv == IInv /\ NotFound => IInv'
<1> SUFFICES ASSUME IInv, NotFound PROVE IInv'
  OBVIOUS
<1>1. ~Listed
  <2>1. low \in Int /\ high \in Int /\ high < low
    BY DEF IInv, TypeOK, NotFound
  <2>2. \A i \in DOMAIN table : i \in Int
    BY TableFacts DEF IInv, TypeOK
  <2>3. QED
    BY <2>1, <2>2 DEF IInv, SearchInv, NotFound
<1>2. Listed' = Listed
  BY DEF NotFound, Listed, Rva
<1>3. QED
  BY <1>1, <1>2 DEF IInv, NotFound, TypeOK, SearchInv, ListedIsValid

LEMMA NextIInv == IInv /\ [Next]_vars => IInv'
<1> SUFFICES ASSUME IInv, [Next]_vars PROVE IInv'
  OBVIOUS
<1>1. CASE Lookup
  BY <1>1, LookupIInv
<1>2. CASE Probe
  BY <1>2, ProbeIInv
<1>3. CASE NotFound
  BY <1>3, NotFoundIInv
<1>4. CASE Done \/ UNCHANGED vars
  BY <1>4 DEF Done, vars, IInv, TypeOK, SearchInv, ListedIsValid, Listed, Rva
<1>5. QED
  BY <1>1, <1>2, <1>3, <1>4 DEF Next

\* RtlIsValidHandler never rejects a handler whose RVA is an entry of its
\* image's sorted SafeSEH table, even though its search may read the word
\* after the table.
THEOREM ListedIsValidInvariant == Spec => []ListedIsValid
<1>1. Init => IInv
  BY InitIInv
<1>2. IInv /\ [Next]_vars => IInv'
  BY NextIInv
<1>3. IInv => ListedIsValid
  BY DEF IInv
<1>4. QED
  BY <1>1, <1>2, <1>3, PTL DEF Spec

=============================================================================
