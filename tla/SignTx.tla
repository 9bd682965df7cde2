------------------------------- MODULE SignTx -------------------------------
(***************************************************************************)
(* The "sign" command of bitcointool (src/src/tools/bitcointool.c, lines   *)
(* 488-580), from the checks of its arguments to the exit of main (lines   *)
(* 613-615), with the parsing of -i and -a (lines 135, 141) and            *)
(* showError (lines 79-84).  main has started the ECC context (line 156).  *)
(*                                                                         *)
(* The library calls are black boxes: btc_tx_deserialize,                  *)
(* btc_privkey_decode_wif and btc_tx_sign_input may succeed or fail.  What *)
(* is printed is abstracted to one tag per group of lines; a hash or a     *)
(* signature is abstracted to the arguments it was computed from.  Widths  *)
(* of int and of long/size_t/uint64_t are constants, so that the casts of  *)
(* the code wrap as they do at 32 and 64 bits.                             *)
(***************************************************************************)
EXTENDS Integers, Sequences, SequencesExt, FiniteSets

CONSTANTS
  IntBits,     \* width of int (32)
  LongBits,    \* width of long, long long, size_t, uint64_t (64)
  TxHexMax,    \* longest accepted tx hex: 1024*100 characters
  TxHexLens,   \* strlen(txhex) values of the -x argument
  IndexArgs,   \* values strtol gives for the -i argument
  AmountArgs,  \* values strtoll gives for the -a argument
  NInputs,     \* input counts of the transactions that deserialize
  PKeyLens,    \* strlen of the -p argument (main refuses fewer than 50)
  NULL,        \* model value: an option that was not given
  None         \* model value: nothing computed yet

LongMin == -(2^(LongBits - 1))
LongMax == 2^(LongBits - 1) - 1

ASSUME /\ IntBits \in Nat \ {0} /\ LongBits > IntBits
       /\ \A l \in TxHexLens : l = NULL \/ l \in Nat
       /\ IndexArgs \cup AmountArgs \subseteq LongMin..LongMax
       /\ NInputs \subseteq Nat \ {0}
       /\ \A l \in PKeyLens : l = NULL \/ (l \in Nat /\ l >= 50)

\* (int)v for a long v: keep the low IntBits bits, two's complement.
ToInt(v) == LET m == v % 2^IntBits
            IN IF m >= 2^(IntBits - 1) THEN m - 2^IntBits ELSE m

\* the status a shell reports for a process killed by SIGSEGV
Segv == 128 + 11

\* conversion of a signed value to size_t / uint64_t
ToUnsigned(v) == v % 2^LongBits

IntValues == -(2^(IntBits - 1))..(2^(IntBits - 1) - 1)
U64Values == 0..(2^LongBits - 1)

Outputs == {"diag", "nosign", "signerr", "sig", "signedtx", "error"}

VARIABLES
  req,       \* the command line: txhex length, script given, -i, -a, -p
  pc,        \* the next block of the command to run, "exit" once exited
  out,       \* what was printed, one tag per group of lines
  tx,        \* the btc_tx: "none", "alloc", "freed"
  script,    \* the cstring of the script: "none", "alloc", "freed"
  key,       \* the btc_key on the stack: "init", "decoded"
  nIn,       \* tx->vin->len of the deserialized tx
  hashArgs,  \* arguments of btc_tx_sighash, None before the call
  signArgs,  \* arguments of btc_tx_sign_input, None before the call
  eccStops,  \* calls of btc_ecc_stop
  exitCode   \* None while running, 0, 1, or Segv (killed by SIGSEGV)

vars == <<req, pc, out, tx, script, key, nIn, hashArgs, signArgs, eccStops, exitCode>>

Requests == [txhex : TxHexLens, scripthex : BOOLEAN, index : IndexArgs,
             amount : AmountArgs, pkey : PKeyLens]

\* main's parsing of -i and -a: (int)strtol, (int)strtoll into a uint64_t
inputindex == ToInt(req.index)
amount == ToUnsigned(ToInt(req.amount))

TypeOK ==
  /\ req \in Requests
  /\ pc \in {"check", "deserialize", "index", "hash", "key", "sign", "free", "exit"}
  /\ out \in Seq(Outputs)
  /\ tx \in {"none", "alloc", "freed"} /\ script \in {"none", "alloc", "freed"}
  /\ key \in {"init", "decoded"}
  /\ nIn \in NInputs \cup {0}
  /\ hashArgs \in [index : IntValues, amount : U64Values] \cup {None}
  /\ signArgs \in [index : IntValues, amount : U64Values] \cup {None}
  /\ eccStops \in 0..2
  /\ exitCode \in {None, 0, 1, Segv}

Init ==
  /\ req \in Requests
  /\ pc = "check"
  /\ out = <<>>
  /\ tx = "none" /\ script = "none" /\ key = "init"
  /\ nIn = 0
  /\ hashArgs = None /\ signArgs = None
  /\ eccStops = 0
  /\ exitCode = None

\* showError: print the error, stop the ECC context, main returns 1
ShowError ==
  /\ out' = Append(out, "error")
  /\ eccStops' = eccStops + 1
  /\ exitCode' = 1
  /\ pc' = "exit"

-----------------------------------------------------------------------------

RejectMissing ==
  /\ pc = "check" /\ (req.txhex = NULL \/ ~req.scripthex)
  /\ ShowError
  /\ UNCHANGED <<req, tx, script, key, nIn, hashArgs, signArgs>>

RejectTooLarge ==
  /\ pc = "check" /\ req.txhex # NULL /\ req.scripthex /\ req.txhex > TxHexMax
  /\ ShowError
  /\ UNCHANGED <<req, tx, script, key, nIn, hashArgs, signArgs>>

AcceptArgs ==
  /\ pc = "check" /\ req.txhex # NULL /\ req.scripthex /\ req.txhex <= TxHexMax
  /\ pc' = "deserialize"
  /\ UNCHANGED <<req, out, tx, script, key, nIn, hashArgs, signArgs, eccStops, exitCode>>

\* btc_tx_new, hex to binary, btc_tx_deserialize; data_bin is freed on
\* both paths
DeserializeOk ==
  /\ pc = "deserialize"
  /\ tx' = "alloc"
  /\ nIn' \in NInputs
  /\ pc' = "index"
  /\ UNCHANGED <<req, out, script, key, hashArgs, signArgs, eccStops, exitCode>>

DeserializeFail ==
  /\ pc = "deserialize"
  /\ tx' = "freed"
  /\ ShowError
  /\ UNCHANGED <<req, script, key, nIn, hashArgs, signArgs>>

\* Variant for validating the properties: the tx is not freed.
IndexOutOfRangeLeak ==
  /\ pc = "index" /\ ToUnsigned(inputindex) >= nIn
  /\ ShowError
  /\ UNCHANGED <<req, tx, script, key, nIn, hashArgs, signArgs>>

\* (size_t)inputindex >= tx->vin->len
IndexOutOfRange ==
  /\ pc = "index" /\ ToUnsigned(inputindex) >= nIn
  /\ tx' = "freed"
  /\ ShowError
  /\ UNCHANGED <<req, script, key, nIn, hashArgs, signArgs>>

\* Variant for validating the properties: a signed comparison.
IndexInRangeSigned ==
  /\ pc = "index" /\ inputindex < nIn
  /\ pc' = "hash"
  /\ UNCHANGED <<req, out, tx, script, key, nIn, hashArgs, signArgs, eccStops, exitCode>>

IndexInRange ==
  /\ pc = "index" /\ ToUnsigned(inputindex) < nIn
  /\ pc' = "hash"
  /\ UNCHANGED <<req, out, tx, script, key, nIn, hashArgs, signArgs, eccStops, exitCode>>

\* script from hex, btc_tx_sighash(tx, script, inputindex, sighashtype, 0,
\* SIGVERSION_BASE, sighash), then the five diagnostic lines
ComputeHash ==
  /\ pc = "hash"
  /\ script' = "alloc"
  /\ hashArgs' = [index |-> inputindex, amount |-> 0]
  /\ out' = Append(out, "diag")
  /\ pc' = "key"
  /\ UNCHANGED <<req, tx, key, nIn, signArgs, eccStops, exitCode>>

\* btc_privkey_decode_wif(pkey, ...) and strlen(pkey) on a NULL pkey:
\* undefined behaviour, a segmentation fault on every build
KeyNull ==
  /\ pc = "key" /\ req.pkey = NULL
  /\ exitCode' = Segv /\ pc' = "exit"
  /\ UNCHANGED <<req, out, tx, script, key, nIn, hashArgs, signArgs, eccStops>>

KeyDecoded ==
  /\ pc = "key" /\ req.pkey # NULL
  /\ key' = "decoded" /\ pc' = "sign"
  /\ UNCHANGED <<req, out, tx, script, nIn, hashArgs, signArgs, eccStops, exitCode>>

\* decoding failed and strlen(pkey) > 50
KeyInvalid ==
  /\ pc = "key" /\ req.pkey # NULL /\ req.pkey > 50
  /\ tx' = "freed" /\ script' = "freed"
  /\ ShowError
  /\ UNCHANGED <<req, key, nIn, hashArgs, signArgs>>

\* decoding failed on a key of 50 characters
KeyAbsent ==
  /\ pc = "key" /\ req.pkey # NULL /\ req.pkey <= 50
  /\ out' = Append(out, "nosign")
  /\ pc' = "free"
  /\ UNCHANGED <<req, tx, script, key, nIn, hashArgs, signArgs, eccStops, exitCode>>

\* Variants for validating the properties: the amount kept as an int;
\* a failed signing treated as fatal.
SignInputIntAmount ==
  /\ pc = "sign"
  /\ signArgs' = [index |-> inputindex, amount |-> ToInt(req.amount)]
  /\ script' = "freed"
  /\ \E res \in {"ok", "error"} :
       out' = out \o (IF res = "error" THEN <<"signerr">> ELSE <<>>)
                  \o <<"sig", "signedtx">>
  /\ pc' = "free"
  /\ UNCHANGED <<req, tx, key, nIn, hashArgs, eccStops, exitCode>>

SignInputFatal ==
  /\ pc = "sign"
  /\ signArgs' = [index |-> inputindex, amount |-> amount]
  /\ script' = "freed"
  /\ \E res \in {"ok", "error"} :
       IF res = "error"
         THEN /\ out' = out \o <<"signerr", "error">>
              /\ eccStops' = eccStops + 1 /\ exitCode' = 1 /\ pc' = "exit"
         ELSE /\ out' = out \o <<"sig", "signedtx">>
              /\ pc' = "free" /\ UNCHANGED <<eccStops, exitCode>>
  /\ UNCHANGED <<req, tx, key, nIn, hashArgs>>

\* btc_tx_sign_input, cstr_free(script), the signatures and the
\* re-serialized tx printed whatever the result
SignInput ==
  /\ pc = "sign"
  /\ signArgs' = [index |-> inputindex, amount |-> amount]
  /\ script' = "freed"
  /\ \E res \in {"ok", "error"} :
       out' = out \o (IF res = "error" THEN <<"signerr">> ELSE <<>>)
                  \o <<"sig", "signedtx">>
  /\ pc' = "free"
  /\ UNCHANGED <<req, tx, key, nIn, hashArgs, eccStops, exitCode>>

\* btc_tx_free(tx), then main's btc_ecc_stop and return 0
Finish ==
  /\ pc = "free"
  /\ tx' = "freed"
  /\ eccStops' = eccStops + 1
  /\ exitCode' = 0 /\ pc' = "exit"
  /\ UNCHANGED <<req, out, script, key, nIn, hashArgs, signArgs>>

Terminated == pc = "exit" /\ UNCHANGED vars

Next ==
  \/ RejectMissing \/ RejectTooLarge \/ AcceptArgs
  \/ DeserializeOk \/ DeserializeFail
  \/ IndexOutOfRange \/ IndexInRange
  \/ ComputeHash
  \/ KeyNull \/ KeyDecoded \/ KeyInvalid \/ KeyAbsent
  \/ SignInput \/ Finish
  \/ Terminated

Spec == Init /\ [][Next]_vars /\ WF_vars(Next)

-----------------------------------------------------------------------------
(* Properties                                                              *)

\* The outputs the spec allows (sections 4.2, 6, 7): a failed precondition
\* prints only the error; otherwise the hash diagnostics come first, then
\* the no-signing notice, the key error, or the signatures and the signed
\* tx, preceded by the reason when the signing primitive failed.
Outcomes == { <<"error">>, <<"diag", "nosign">>, <<"diag", "error">>,
              <<"diag", "sig", "signedtx">>,
              <<"diag", "signerr", "sig", "signedtx">> }

\* What the sign command prints is always on the way to one of the allowed
\* outputs, and when main returns, the output is complete and the exit code
\* is 1 exactly when an error was printed (a failed signing is not fatal).
OutputContract ==
  /\ \E o \in Outcomes : IsPrefix(out, o)
  /\ exitCode \in {0, 1} =>
       /\ out \in Outcomes
       /\ (exitCode = 1 <=> Contains(out, "error"))

\* The sighash is only computed, and the input only signed, for an input
\* of the deserialized tx: the (size_t) comparison also refuses a negative
\* inputindex.
HashOnlyValidIndex ==
  /\ hashArgs # None => hashArgs.index \in 0..(nIn - 1)
  /\ signArgs # None => signArgs.index \in 0..(nIn - 1)

\* Every way main returns from the sign command releases the tx and stops
\* the ECC context exactly once.
CleanExit ==
  exitCode \in {0, 1} => tx # "alloc" /\ eccStops = 1

\* The spec: with no private key the command prints the hash diagnostics and
\* the no-signing notice and exits successfully (outcome HashOnly).
HashOnlyWithoutKey ==
  (pc = "exit" /\ req.pkey = NULL /\ Contains(out, "diag"))
    => exitCode = 0 /\ Last(out) = "nosign"

\* The spec: the printed hash is the sighash for the given input, sighash
\* type and amount.
PrintedHashUsesAmount ==
  hashArgs # None => hashArgs.amount = amount

\* The spec: an -i value outside [0, number of inputs) is refused with
\* "Inputindex out of range" before any hash is computed.
IndexOutOfRangeRejected ==
  hashArgs # None => req.index \in 0..(nIn - 1)

\* The spec: the amount is an unsigned 64-bit integer; the input is signed
\* for the amount given with -a.
SignedAmountIsGiven ==
  signArgs # None => signArgs.amount = req.amount

\* The spec (resource discipline): the script and the other buffers are
\* released, and sensitive buffers, the decoded private key among them,
\* zeroed on every exit path, the HashOnly outcome included: whenever sign
\* returns (status 0 or 1), the script cstring is not still allocated and
\* the key is not left decoded.
ResourcesReleasedAtExit ==
  exitCode \in {0, 1} => script # "alloc" /\ key # "decoded"

=============================================================================
