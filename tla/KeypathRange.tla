---------------------------- MODULE KeypathRange ----------------------------
(***************************************************************************)
(* The "hdderive" command of bitcointool (src/src/tools/bitcointool.c,     *)
(* lines 408-487): a left-to-right scan of the keypath for one bracketed   *)
(* range "[from-to]" or "(from-to)", then one call of hd_derive per index  *)
(* of the range, or one call on the literal keypath.                       *)
(*                                                                         *)
(* Each iteration of the scan loop is one step, each iteration of the      *)
(* derivation loop is one step.  hd_derive is the external library: its    *)
(* success is a nondeterministic choice.  The keypath is a sequence of     *)
(* one-character strings drawn from Alphabet.                              *)
(***************************************************************************)
EXTENDS Integers, Sequences, SequencesExt, FiniteSets

CONSTANTS
  Alphabet,    \* characters the enumerated keypaths are made of
  MaxPathLen,  \* longest keypath enumerated
  MaxLen,      \* maxlen: the scan stops once i > maxlen (1024 in the code)
  NumBuf,      \* size of buf[] and index[]: a numeral of NumBuf or more
               \* digits is refused (9 in the code)
  U64Bits,     \* width of uint64_t (64 in the code)
  Garbage,     \* model value: a byte of uninitialised stack memory
  Uninit       \* model value: an uninitialised local (from, to)

DigitChars == <<"0", "1", "2", "3", "4", "5", "6", "7", "8", "9">>
Digits == Range(DigitChars)
Open  == {"[", "("}
Close == {"]", ")"}
U64Max == 2^U64Bits - 1

\* Bound of the model on the calls of hd_derive: one per value of the
\* uint64_t index.  A range loop that terminates never reaches it; one that
\* wraps around stops there, so that its non-termination shows as a state
\* with no further step.
MaxCalls == U64Max + 1

ASSUME /\ Alphabet \subseteq Digits \cup Open \cup Close \cup {"-", "/", "'", "m"}
       /\ MaxPathLen \in Nat /\ MaxLen \in Nat
       /\ NumBuf \in Nat \ {0}
       \* as in the code (10^8 - 1 < 2^64): every accepted numeral fits
       /\ 10^(NumBuf - 1) - 1 < U64Max

DigitVal(c) == CHOOSE d \in 0..9 : DigitChars[d + 1] = c

\* Value of a string of decimal digits.
RECURSIVE DecValue(_)
DecValue(s) == IF s = <<>> THEN 0 ELSE 10 * DecValue(Front(s)) + DigitVal(Last(s))

\* strtoull(buf, NULL, 10) on a digit string: saturates at ULLONG_MAX,
\* and the empty string gives 0.
StrToULL(s) == IF DecValue(s) > U64Max THEN U64Max ELSE DecValue(s)

\* sprintf(index, "%lld", i): the minimal decimal rendering.
RECURSIVE Decimal(_)
Decimal(n) == IF n < 10 THEN <<DigitChars[n + 1]>>
              ELSE Decimal(n \div 10) \o <<DigitChars[(n % 10) + 1]>>

VARIABLES
  keypath,   \* the -m argument
  pc,        \* "scan", "split", "range", "done" (exit 0), "failed" (showError)
  i,         \* scan index, then the uint64_t index of the derivation loop
  posanum,   \* 0-based start of the from numeral, -1 while none
  posbnum,   \* 0-based start of the to numeral, -1 while none
  end,       \* 0-based index after the closing bracket, -1 while none
  from, to,  \* the parsed bounds (Uninit until assigned)
  calls,     \* history: the paths handed to hd_derive, with its results
  lastArg    \* the string hd_derive read in its latest call

vars == <<keypath, pc, i, posanum, posbnum, end, from, to, calls, lastArg>>

Paths == BoundedSeq(Alphabet, MaxPathLen)

TypeOK ==
  /\ keypath \in Paths
  /\ pc \in {"scan", "split", "range", "done", "failed"}
  /\ i \in 0..U64Max
  /\ posanum \in -1..MaxPathLen /\ posbnum \in -1..MaxPathLen
  /\ end \in -1..MaxPathLen
  /\ from \in 0..U64Max \cup {Uninit} /\ to \in 0..U64Max \cup {Uninit}
  /\ calls \in Seq([path : Seq(Alphabet \cup Digits), ok : BOOLEAN])
  /\ lastArg \in Seq(Alphabet \cup Digits \cup {Garbage})

Init ==
  /\ keypath \in Paths
  /\ pc = "scan"
  /\ i = 0
  /\ posanum = -1 /\ posbnum = -1 /\ end = -1
  /\ from = Uninit /\ to = Uninit
  /\ calls = <<>>
  /\ lastArg = <<>>

-----------------------------------------------------------------------------
(* The scan loop, lines 425-464.  c is keypath[i].                          *)

c == keypath[i + 1]

\* for-condition and the body's first test
ScanEnd == pc = "scan" /\ i >= Len(keypath) /\ pc' = "split"
           /\ UNCHANGED <<keypath, i, posanum, posbnum, end, from, to, calls, lastArg>>

ScanMaxLen == pc = "scan" /\ i < Len(keypath) /\ i > MaxLen /\ pc' = "split"
              /\ UNCHANGED <<keypath, i, posanum, posbnum, end, from, to, calls, lastArg>>

InBody == pc = "scan" /\ i < Len(keypath) /\ i <= MaxLen

\* outside a marker: only the trailing bracket test applies
ScanOutside ==
  /\ InBody /\ posanum = -1
  /\ posanum' = IF c \in Open THEN i + 1 ELSE posanum
  /\ i' = i + 1
  /\ UNCHANGED <<keypath, pc, posbnum, end, from, to, calls, lastArg>>

\* inside from: a digit, or (still inside to) a digit: keep scanning
ScanDigit ==
  /\ InBody /\ posanum > -1 /\ c \in Digits
  /\ i' = i + 1
  /\ UNCHANGED <<keypath, pc, posanum, posbnum, end, from, to, calls, lastArg>>

\* '-' ends from: too long a numeral breaks, otherwise strtoull of buf
ScanFromDash ==
  /\ InBody /\ posanum > -1 /\ posbnum = -1 /\ c = "-"
  /\ IF i - posanum >= NumBuf
       THEN /\ pc' = "split" /\ UNCHANGED <<i, posbnum, from>>
       ELSE /\ posbnum' = i + 1
            /\ from' = StrToULL(SubSeq(keypath, posanum + 1, i))
            /\ i' = i + 1 /\ UNCHANGED pc
  /\ UNCHANGED <<keypath, posanum, end, to, calls, lastArg>>

ScanFromOther ==
  /\ InBody /\ posanum > -1 /\ posbnum = -1 /\ c \notin Digits \cup {"-"}
  /\ posanum' = -1 /\ pc' = "split"
  /\ UNCHANGED <<keypath, i, posbnum, end, from, to, calls, lastArg>>

\* Variant for validating the properties: no length test on to.
ScanToCloseUnchecked ==
  /\ InBody /\ posanum > -1 /\ posbnum > -1 /\ c \in Close
  /\ to' = StrToULL(SubSeq(keypath, posbnum + 1, i))
  /\ end' = i + 1
  /\ pc' = "split"
  /\ UNCHANGED <<keypath, i, posanum, posbnum, from, calls, lastArg>>

\* a closing bracket ends to and the scan
ScanToClose ==
  /\ InBody /\ posanum > -1 /\ posbnum > -1 /\ c \in Close
  /\ IF i - posbnum >= NumBuf
       THEN UNCHANGED <<to, end>>
       ELSE /\ to' = StrToULL(SubSeq(keypath, posbnum + 1, i))
            /\ end' = i + 1
  /\ pc' = "split"
  /\ UNCHANGED <<keypath, i, posanum, posbnum, from, calls, lastArg>>

ScanToOther ==
  /\ InBody /\ posanum > -1 /\ posbnum > -1 /\ c \notin Digits \cup Close
  /\ posanum' = -1 /\ posbnum' = -1 /\ pc' = "split"
  /\ UNCHANGED <<keypath, i, end, from, to, calls, lastArg>>

-----------------------------------------------------------------------------
(* Lines 466-487: derive every index of the range, or the literal keypath. *)

IsRange == end > -1 /\ from <= to

\* Variant for validating the properties: the loop starts one early.
RangeStartEarly ==
  /\ pc = "split" /\ IsRange
  /\ pc' = "range" /\ i' = from - 1
  /\ UNCHANGED <<keypath, posanum, posbnum, end, from, to, calls, lastArg>>

RangeStart ==
  /\ pc = "split" /\ IsRange
  /\ pc' = "range" /\ i' = from
  /\ UNCHANGED <<keypath, posanum, posbnum, end, from, to, calls, lastArg>>

\* keypathnew: prefix, index, suffix; the buffer is never NUL-terminated,
\* so hd_derive reads on into uninitialised stack bytes (undefined
\* behaviour: either a terminator happens to follow, or garbage does).
KeypathNew(n) == SubSeq(keypath, 1, posanum - 1) \o Decimal(n)
                   \o SubSeq(keypath, end + 1, Len(keypath))

\* Variant for validating the properties: a failed derivation does not
\* end the loop.
RangeDeriveNoReturn ==
  /\ pc = "range" /\ i <= to /\ Len(calls) < MaxCalls
  /\ \E junk \in {<<>>, <<Garbage>>} : lastArg' = KeypathNew(i) \o junk
  /\ \E ok \in BOOLEAN :
       /\ calls' = Append(calls, [path |-> KeypathNew(i), ok |-> ok])
       /\ i' = (i + 1) % (U64Max + 1) /\ UNCHANGED pc
  /\ UNCHANGED <<keypath, posanum, posbnum, end, from, to>>

RangeDerive ==
  /\ pc = "range" /\ i <= to /\ Len(calls) < MaxCalls
  /\ \E junk \in {<<>>, <<Garbage>>} : lastArg' = KeypathNew(i) \o junk
  /\ \E ok \in BOOLEAN :
       /\ calls' = Append(calls, [path |-> KeypathNew(i), ok |-> ok])
       /\ IF ok THEN i' = (i + 1) % (U64Max + 1) /\ UNCHANGED pc
                ELSE pc' = "failed" /\ UNCHANGED i
  /\ UNCHANGED <<keypath, posanum, posbnum, end, from, to>>

RangeDone == pc = "range" /\ i > to /\ pc' = "done"
             /\ UNCHANGED <<keypath, i, posanum, posbnum, end, from, to, calls, lastArg>>

SingleDerive ==
  /\ pc = "split" /\ ~IsRange
  /\ lastArg' = keypath
  /\ \E ok \in BOOLEAN :
       /\ calls' = <<[path |-> keypath, ok |-> ok]>>
       /\ pc' = IF ok THEN "done" ELSE "failed"
  /\ UNCHANGED <<keypath, i, posanum, posbnum, end, from, to>>

\* the paths handed to hd_derive
derived == {call.path : call \in Range(calls)}

\* the process has exited
Exited == pc \in {"done", "failed"}
Terminated == Exited /\ UNCHANGED vars

Next ==
  \/ ScanEnd \/ ScanMaxLen \/ ScanOutside \/ ScanDigit
  \/ ScanFromDash \/ ScanFromOther \/ ScanToClose \/ ScanToOther
  \/ RangeStart \/ RangeDerive \/ RangeDone \/ SingleDerive
  \/ Terminated

\* One single-threaded process: it keeps running while it has a step.
Spec == Init /\ [][Next]_vars /\ WF_vars(Next)

-----------------------------------------------------------------------------
(* Reference: the range contract of the spec (section 4.1), stated         *)
(* declaratively.  A marker is an opening bracket that is the first one of *)
(* the keypath, a numeral, '-', a numeral and a closing bracket, closing   *)
(* within the first maxlen+1 characters; each numeral has fewer than       *)
(* NumBuf digits and at least minDigits.                                   *)

IsNumeral(s, minDigits) ==
  Len(s) >= minDigits /\ Len(s) < NumBuf /\ \A j \in 1..Len(s) : s[j] \in Digits

Markers(s, minDigits) ==
  { m \in (1..Len(s)) \X (1..Len(s)) \X (1..Len(s)) :
      LET x == m[1]  y == m[2]  z == m[3] IN
      /\ x < y /\ y < z /\ z - 1 <= MaxLen
      /\ s[x] \in Open /\ s[y] = "-" /\ s[z] \in Close
      /\ \A j \in 1..(x - 1) : s[j] \notin Open
      /\ IsNumeral(SubSeq(s, x + 1, y - 1), minDigits)
      /\ IsNumeral(SubSeq(s, y + 1, z - 1), minDigits) }

\* The ordered paths the spec says are derived from s.
Expansion(s, minDigits) ==
  LET ms == { m \in Markers(s, minDigits) :
                DecValue(SubSeq(s, m[1] + 1, m[2] - 1))
                  <= DecValue(SubSeq(s, m[2] + 1, m[3] - 1)) }
  IN IF ms = {} THEN <<s>>
     ELSE LET m == CHOOSE mm \in ms : TRUE
              lo == DecValue(SubSeq(s, m[1] + 1, m[2] - 1))
              hi == DecValue(SubSeq(s, m[2] + 1, m[3] - 1))
          IN [k \in 1..(hi - lo + 1) |->
                SubSeq(s, 1, m[1] - 1) \o Decimal(lo + k - 1)
                  \o SubSeq(s, m[3] + 1, Len(s))]

-----------------------------------------------------------------------------
(* Properties                                                              *)

\* The spec: the paths derived are those of the range contract, where a
\* range needs two decimal numerals, so "[-5]" is a literal path.
ExpansionMatchesSpec ==
  Exited => /\ derived \subseteq Range(Expansion(keypath, 1))
            /\ pc = "done" => derived = Range(Expansion(keypath, 1))

\* Every string hd_derive reads is a path the code built: the keypathnew
\* buffer of the range loop ends where its content ends.
DerivedPathTerminated == derived # {} => lastArg \in derived

\* The range contract with an empty numeral read as 0, as strtoull does.
Contract(s) == Expansion(s, 0)

\* the command as KeypathRangeSpec sees it
Status == IF pc \in {"done", "failed"} THEN pc ELSE "run"

RangeContract == INSTANCE KeypathRangeSpec WITH status <- Status

\* hdderive implements the safety part of KeypathRangeSpec: the scan and
\* derivation loops hand hd_derive exactly the paths of the range contract,
\* one per call, in ascending order; the first failed call ends the command
\* (showError); and the command reports success only once every path was
\* derived.  Its fairness part follows from Termination, as the command's
\* status is no longer "run" once it has exited.
ImplementsRangeContract ==
  RangeContract!Init /\ [][RangeContract!Next]_RangeContract!vars

\* hdderive always exits: the scan ends and the range loop, whose bound
\* `to` has fewer than NumBuf digits, cannot wrap around.
Termination == <>Exited

=============================================================================
