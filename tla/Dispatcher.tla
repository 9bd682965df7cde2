------------------------------ MODULE Dispatcher ------------------------------
(***************************************************************************)
(* main of bitcointool (src/src/tools/bitcointool.c): the getopt loop      *)
(* (lines 101-146), the command check and btc_ecc_start (149-156), the     *)
(* dispatch on the command with the key commands (160-218, 395-412,        *)
(* 581-611) and main's end (613-615).  The commands hdderive and sign are  *)
(* the components KeypathRange and SignTx, instantiated on this module's   *)
(* variables, so that they run inside main's ECC context and share its     *)
(* output and exit code.                                                   *)
(*                                                                         *)
(* The command line is read one option per step: getopt_long_only returns *)
(* the options in order, and each sets one option variable.  Long forms of *)
(* the options declared no_argument (txhex, scripthex, inputindex,         *)
(* sighashtype, amount) reach the switch with optarg = NULL.  The library  *)
(* calls are black boxes whose success is a nondeterministic choice; what  *)
(* is printed is one tag per group of lines.                              *)
(***************************************************************************)
EXTENDS Integers, Sequences, SequencesExt, FiniteSets

CONSTANTS
  MaxArgs,        \* options on the command line
  PKeyArgs,       \* strlen of the -p arguments
  CmdArgs,        \* the -c arguments
  KeypathArgs,    \* the -m arguments, sequences of one-character strings
  TxHexArgs,      \* strlen of the -x arguments
  ScriptHexArgs,  \* strlen of the -s arguments
  IndexArgs,      \* strtol values of the -i arguments
  SighashArgs,    \* strtol values of the -h arguments
  AmountArgs,     \* strtoll values of the -a arguments
  MaxCrackRounds, \* rounds of the while(true) loop of crack
  IntBits, LongBits, TxHexMax, NInputs,                \* for SignTx
  Alphabet, MaxLen, NumBuf, U64Bits, Garbage, Uninit,  \* for KeypathRange
  NULL, None

\* the commands main compares cmd with
Commands == {"pubfrompriv", "addrfrompub", "p2pkhaddrfrompub", "genkey",
             "crack", "hdgenmaster", "hdprintkey", "hdderive", "sign",
             "comp2der", "bip32maintotest"}

ASSUME /\ MaxArgs \in Nat
       /\ PKeyArgs \subseteq Nat /\ TxHexArgs \subseteq Nat
       /\ ScriptHexArgs \subseteq Nat /\ MaxCrackRounds \in Nat

MaxPathLen == Max({Len(k) : k \in KeypathArgs} \cup {0})

VARIABLES
  args,         \* options getopt has returned so far
  pc,           \* "getopt", "dispatch", "crack", "hdderive", "sign", "return",
                \* "exit"
  pkey, cmd, keypath, pubkey, chain, txhex, scripthex,  \* main's options
  inputindex, sighashtype, amount,
  out,          \* what was printed, one tag per group of lines
  eccStarts,    \* calls of btc_ecc_start
  eccStops,     \* calls of btc_ecc_stop
  exitCode,     \* None while running, else the process status
  \* the locals of hdderive (KeypathRange)
  hddPc, i, posanum, posbnum, end, from, to, calls, lastArg,
  \* the locals of sign (SignTx), and the options it reads
  req, signPc, tx, script, key, nIn, hashArgs, signArgs

optVars == <<pkey, cmd, keypath, pubkey, chain, txhex, scripthex,
             inputindex, sighashtype, amount>>
hddVars == <<hddPc, i, posanum, posbnum, end, from, to, calls, lastArg>>
signVars == <<req, signPc, tx, script, key, nIn, hashArgs, signArgs>>
vars == <<args, pc, optVars, out, eccStarts, eccStops, exitCode,
          hddVars, signVars>>

Hdd == INSTANCE KeypathRange WITH pc <- hddPc

\* the request the sign command reads from main's options
SignReq == [txhex |-> txhex, scripthex |-> scripthex # NULL,
            index |-> inputindex, amount |-> amount, pkey |-> pkey]

Sign == INSTANCE SignTx
          WITH pc <- signPc,
               TxHexLens <- TxHexArgs \cup {NULL},
               PKeyLens <- {NULL} \cup {l \in PKeyArgs : l >= 50}

\* the exit status of a process killed by SIGSEGV
Segv == Sign!Segv

Init ==
  /\ args = 0 /\ pc = "getopt"
  /\ pkey = NULL /\ cmd = NULL /\ keypath = NULL /\ pubkey = NULL
  /\ chain = "main" /\ txhex = NULL /\ scripthex = NULL
  /\ inputindex = 0 /\ sighashtype = 1 /\ amount = 0
  /\ out = <<>> /\ eccStarts = 0 /\ eccStops = 0 /\ exitCode = None
  /\ hddPc = "scan" /\ i = 0 /\ posanum = -1 /\ posbnum = -1 /\ end = -1
  /\ from = Uninit /\ to = Uninit /\ calls = <<>> /\ lastArg = <<>>
  /\ req = None /\ signPc = "check" /\ tx = "none" /\ script = "none" /\ key = "init"
  /\ nIn = 0 /\ hashArgs = None /\ signArgs = None

TypeOK ==
  /\ args \in 0..MaxArgs
  /\ pc \in {"getopt", "dispatch", "crack", "hdderive", "sign", "return", "exit"}
  /\ pkey \in PKeyArgs \cup {NULL} /\ cmd \in CmdArgs \cup {NULL}
  /\ keypath \in KeypathArgs \cup {NULL} /\ pubkey \in {"hex", NULL}
  /\ chain \in {"main", "test", "regtest"}
  /\ txhex \in TxHexArgs \cup {NULL} /\ scripthex \in ScriptHexArgs \cup {NULL}
  /\ inputindex \in Sign!IntValues /\ sighashtype \in Sign!IntValues
  /\ amount \in Sign!U64Values
  /\ eccStarts \in 0..1 /\ eccStops \in 0..2
  /\ exitCode \in {None, 0, 1, Segv}

-----------------------------------------------------------------------------
(* The getopt loop, lines 101-146: one option per step.                    *)

\* long_options (46-61): the options whose long form is declared
\* no_argument; t, r and v take none, but x, s, i, h and a do in their
\* short form
NoArgument == {"t", "r", "v", "x", "s", "i", "h", "a"}

\* the optargs option o reaches the switch with: those of its short form,
\* and NULL from its long form when that is declared no_argument
OptArgs(o, S) == IF o \in NoArgument THEN S \cup {NULL} ELSE S

\* getopt_long_only returns one more option
ReadOpt == pc = "getopt" /\ args < MaxArgs /\ args' = args + 1

\* showError: print, btc_ecc_stop, main returns 1
ShowError ==
  /\ out' = Append(out, "error")
  /\ eccStops' = eccStops + 1
  /\ exitCode' = 1 /\ pc' = "exit"

\* print_usage(); exit(EXIT_FAILURE)
Usage == out' = Append(out, "usage") /\ exitCode' = 1 /\ pc' = "exit"

\* case 'p': a key shorter than 50 characters is refused at once
OptP(l) ==
  /\ ReadOpt /\ pkey' = l
  /\ IF l < 50 THEN ShowError ELSE UNCHANGED <<pc, out, eccStops, exitCode>>
  /\ UNCHANGED <<cmd, keypath, pubkey, chain, txhex, scripthex, inputindex,
                 sighashtype, amount, eccStarts, hddVars, signVars>>

\* cases 'c', 'm', 'k', 't', 'r', 'x', 's': optarg or a chain is stored
SetOpt(v, val) ==
  /\ ReadOpt /\ v' = val
  /\ UNCHANGED <<pc, out, eccStarts, eccStops, exitCode, hddVars, signVars>>

OptC(n) == SetOpt(cmd, n) /\ UNCHANGED <<pkey, keypath, pubkey, chain, txhex,
                                        scripthex, inputindex, sighashtype, amount>>
OptM(k) == SetOpt(keypath, k) /\ UNCHANGED <<pkey, cmd, pubkey, chain, txhex,
                                            scripthex, inputindex, sighashtype, amount>>
OptK == SetOpt(pubkey, "hex") /\ UNCHANGED <<pkey, cmd, keypath, chain, txhex,
                                             scripthex, inputindex, sighashtype, amount>>
OptChain(net) == SetOpt(chain, net) /\ UNCHANGED <<pkey, cmd, keypath, pubkey, txhex,
                                                 scripthex, inputindex, sighashtype, amount>>
\* a NULL optarg is the long form --txhex / --scripthex
OptX(a) == SetOpt(txhex, a) /\ UNCHANGED <<pkey, cmd, keypath, pubkey, chain,
                                           scripthex, inputindex, sighashtype, amount>>
OptS(a) == SetOpt(scripthex, a) /\ UNCHANGED <<pkey, cmd, keypath, pubkey, chain,
                                               txhex, inputindex, sighashtype, amount>>

\* case 'v': print_version(); exit(EXIT_SUCCESS)
OptV ==
  /\ ReadOpt /\ out' = Append(out, "version") /\ exitCode' = 0 /\ pc' = "exit"
  /\ UNCHANGED <<optVars, eccStarts, eccStops, hddVars, signVars>>

\* cases 'i', 'h', 'a': (int)strtol(optarg) / (int)strtoll(optarg); on the
\* long forms optarg is NULL and strtol dereferences it: SIGSEGV
OptNumeric(v, a, val) ==
  /\ ReadOpt
  /\ IF a = NULL
       THEN exitCode' = Segv /\ pc' = "exit" /\ UNCHANGED v
       ELSE v' = val /\ UNCHANGED <<pc, exitCode>>
  /\ UNCHANGED <<out, eccStarts, eccStops, hddVars, signVars>>

OptI(a) == OptNumeric(inputindex, a, Sign!ToInt(a))
             /\ UNCHANGED <<pkey, cmd, keypath, pubkey, chain, txhex, scripthex,
                            sighashtype, amount>>
OptH(a) == OptNumeric(sighashtype, a, Sign!ToInt(a))
             /\ UNCHANGED <<pkey, cmd, keypath, pubkey, chain, txhex, scripthex,
                            inputindex, amount>>
\* Variant for validating the properties: amount kept as an int.
OptAInt(a) == OptNumeric(amount, a, Sign!ToInt(a))
                /\ UNCHANGED <<pkey, cmd, keypath, pubkey, chain, txhex, scripthex,
                               inputindex, sighashtype>>

OptA(a) == OptNumeric(amount, a, Sign!ToUnsigned(Sign!ToInt(a)))
             /\ UNCHANGED <<pkey, cmd, keypath, pubkey, chain, txhex, scripthex,
                            inputindex, sighashtype>>

\* default: an unknown option, or an option missing its argument
OptUnknown ==
  /\ ReadOpt /\ Usage
  /\ UNCHANGED <<optVars, eccStarts, eccStops, hddVars, signVars>>

\* getopt returns -1 and no command was given: usage, exit(EXIT_FAILURE)
NoCommand ==
  /\ pc = "getopt" /\ cmd = NULL /\ Usage
  /\ UNCHANGED <<args, optVars, eccStarts, eccStops, hddVars, signVars>>

\* getopt returns -1: btc_ecc_start, then the dispatch on cmd
StartEcc ==
  /\ pc = "getopt" /\ cmd # NULL
  /\ eccStarts' = eccStarts + 1 /\ pc' = "dispatch"
  /\ UNCHANGED <<args, optVars, out, eccStops, exitCode, hddVars, signVars>>

-----------------------------------------------------------------------------
(* The dispatch, lines 158-611.  A command that completes falls through to *)
(* main's end ("return").                                                  *)

\* the locals of a command that returns through showError
Fail == ShowError /\ UNCHANGED <<args, optVars, eccStarts, hddVars, signVars>>

\* a command printed its result (tag t) and falls through to main's end
Complete(t) ==
  /\ out' = Append(out, t) /\ pc' = "return"
  /\ UNCHANGED <<args, optVars, eccStarts, eccStops, exitCode, hddVars, signVars>>

Dispatch(name) == pc = "dispatch" /\ cmd = name

\* pubfrompriv (160-187): pubkey_from_privatekey may fail; on success the
\* pubkey and its addresses are printed
PubFromPriv ==
  /\ Dispatch("pubfrompriv")
  /\ \/ pkey = NULL /\ Fail
     \/ pkey # NULL /\ (Fail \/ Complete("pubkey"))

\* addrfrompub (188-205): addresses_from_pubkey may refuse the pubkey
AddrFromPub ==
  /\ Dispatch("addrfrompub") \/ Dispatch("p2pkhaddrfrompub")
  /\ \/ pubkey = NULL /\ Fail
     \/ pubkey # NULL /\ (Fail \/ Complete("addresses"))

\* genkey (206-218) and hdgenmaster (395-402): generate and print
GenKey == Dispatch("genkey") /\ Complete("privkey")
HdGenMaster == Dispatch("hdgenmaster") /\ Complete("masterkey")

\* hdprintkey (403-407): hd_print_node may refuse the key
HdPrintKey ==
  /\ Dispatch("hdprintkey")
  /\ \/ pkey = NULL /\ Fail
     \/ pkey # NULL /\ (Fail \/ Complete("node"))

\* The loop over the 116 candidates of crack (251-384) never finds one:
\* strcmp(address_p2pkh, test) is given the array of pointers, not
\* test[j], and reads its bytes as a string.  On a 64-bit build each
\* pointer holds a zero byte within its first 8 bytes, so that string is
\* never a 26- to 34-character address, and the branch that writes the
\* key to a file and returns 0 is never taken.
CandidateFound == FALSE

\* crack (219-249, 385-390): while(true), each round generates a key,
\* derives its pubkey (pubkey_from_privatekey may fail: showError; the test
\* !newprivkey_wif is of an array and never true), prints the p2pkh
\* address and compares it with the candidates.  MaxCrackRounds bounds the
\* rounds of the model; a round's address is one more "address" line.
Crack ==
  /\ Dispatch("crack") \/ pc = "crack"
  /\ \/ Fail
     \/ /\ ~CandidateFound
        /\ Len(SelectSeq(out, LAMBDA t : t = "address")) < MaxCrackRounds
        /\ out' = Append(out, "address") /\ pc' = "crack"
        /\ UNCHANGED <<args, optVars, eccStarts, eccStops, exitCode,
                       hddVars, signVars>>

\* hdderive (408-412): both options are required, then the scan begins
HdDerive ==
  /\ Dispatch("hdderive")
  /\ \/ (pkey = NULL \/ keypath = NULL) /\ Fail
     \/ /\ pkey # NULL /\ keypath # NULL /\ pc' = "hdderive"
        /\ UNCHANGED <<args, optVars, out, eccStarts, eccStops, exitCode,
                       hddVars, signVars>>

\* one step of the scan or of the derivation loop (413-487)
HdDeriveStep ==
  /\ pc = "hdderive" /\ ~Hdd!Exited /\ Hdd!Next
  /\ UNCHANGED <<args, pc, optVars, out, eccStarts, eccStops, exitCode, signVars>>

\* Variant for validating the properties: the showError of a failed
\* derivation falls through to main's end.
HdDeriveFailedNoReturn ==
  /\ pc = "hdderive" /\ hddPc = "failed"
  /\ out' = Append(out, "error") /\ eccStops' = eccStops + 1 /\ pc' = "return"
  /\ UNCHANGED <<args, optVars, eccStarts, exitCode, hddVars, signVars>>

\* hd_derive failed (477, 484): showError; or every derivation succeeded
HdDeriveFailed == pc = "hdderive" /\ hddPc = "failed" /\ Fail
HdDeriveDone == pc = "hdderive" /\ hddPc = "done" /\ Complete("nodes")

\* sign (488-580), ending with main's btc_ecc_stop and return 0 or with
\* showError
SignStart ==
  /\ Dispatch("sign") /\ pc' = "sign" /\ req' = SignReq
  /\ UNCHANGED <<args, optVars, out, eccStarts, eccStops, exitCode,
                 hddVars, signPc, tx, script, key, nIn, hashArgs, signArgs>>

SignStep ==
  /\ pc = "sign" /\ signPc # "exit" /\ Sign!Next
  /\ UNCHANGED <<args, pc, optVars, eccStarts, hddVars>>

\* Variant for validating the properties: the error path falls through.
Comp2DerNoReturn ==
  /\ Dispatch("comp2der")
  /\ \/ /\ scripthex = NULL \/ scripthex # 128
        /\ out' = Append(out, "error") /\ eccStops' = eccStops + 1
        /\ pc' = "return"
        /\ UNCHANGED <<args, optVars, eccStarts, exitCode, hddVars, signVars>>
     \/ scripthex = 128 /\ Complete("der")

\* comp2der (581-598): a 128-character signature is converted to DER
Comp2Der ==
  /\ Dispatch("comp2der")
  /\ \/ (scripthex = NULL \/ scripthex # 128) /\ Fail
     \/ scripthex = 128 /\ Complete("der")

\* bip32maintotest (599-611): btc_hdnode_deserialize(pkey) may fail, and
\* then main returns false (0) with neither a message nor btc_ecc_stop.  On
\* a NULL pkey the library reads through the null pointer (undefined
\* behaviour: a crash, or a failed decode).
Bip32MainToTest ==
  /\ Dispatch("bip32maintotest")
  /\ \/ Complete("xkeys") /\ pkey # NULL
     \/ /\ exitCode' \in IF pkey = NULL THEN {0, Segv} ELSE {0}
        /\ pc' = "exit"
        /\ UNCHANGED <<args, optVars, out, eccStarts, eccStops, hddVars, signVars>>

\* no branch matches: fall through to main's end
OtherCommand ==
  /\ pc = "dispatch" /\ cmd \notin Commands /\ pc' = "return"
  /\ UNCHANGED <<args, optVars, out, eccStarts, eccStops, exitCode,
                 hddVars, signVars>>

\* main's end (613-615): btc_ecc_stop, return 0
MainReturn ==
  /\ pc = "return"
  /\ eccStops' = eccStops + 1 /\ exitCode' = 0 /\ pc' = "exit"
  /\ UNCHANGED <<args, optVars, out, eccStarts, hddVars, signVars>>

\* the process has exited
Exited == exitCode # None
Terminated == Exited /\ UNCHANGED vars

Next ==
  \/ \E l \in OptArgs("p", PKeyArgs) : OptP(l)
  \/ \E n \in OptArgs("c", CmdArgs) : OptC(n)
  \/ \E k \in OptArgs("m", KeypathArgs) : OptM(k)
  \/ OptK \/ OptChain("test") \/ OptChain("regtest") \/ OptV
  \/ \E a \in OptArgs("x", TxHexArgs) : OptX(a)
  \/ \E a \in OptArgs("s", ScriptHexArgs) : OptS(a)
  \/ \E a \in OptArgs("i", IndexArgs) : OptI(a)
  \/ \E a \in OptArgs("h", SighashArgs) : OptH(a)
  \/ \E a \in OptArgs("a", AmountArgs) : OptA(a)
  \/ OptUnknown \/ NoCommand \/ StartEcc
  \/ PubFromPriv \/ AddrFromPub \/ GenKey \/ Crack \/ HdGenMaster \/ HdPrintKey
  \/ HdDerive \/ HdDeriveStep \/ HdDeriveFailed \/ HdDeriveDone
  \/ SignStart \/ SignStep \/ Comp2Der \/ Bip32MainToTest \/ OtherCommand
  \/ MainReturn
  \/ Terminated

\* One single-threaded process: it keeps running while it has a step.
Spec == Init /\ [][Next]_vars /\ WF_vars(Next)

-----------------------------------------------------------------------------
(* Properties                                                              *)

\* Every command runs inside the ECC context, and the context is stopped at
\* most once: from the dispatch on, through the derivations of hdderive and
\* every step of sign, btc_ecc_start has been called and btc_ecc_stop not
\* yet; each showError of a command ends the process, so that main's final
\* btc_ecc_stop never follows it.
CommandsInsideEccContext ==
  /\ eccStops <= 1
  /\ pc \in {"dispatch", "hdderive", "sign", "return"} /\ ~Exited
       => eccStarts = 1 /\ eccStops = 0

\* The exit status tells failure (spec section 6): a process that returns
\* from main or calls exit has status 1 exactly when it printed an error or
\* the usage, whichever command ran; a failed signing is not fatal.
ExitStatus ==
  Exited /\ exitCode # Segv =>
    (exitCode = 1 <=> Contains(out, "error") \/ Contains(out, "usage"))

\* The spec (section 5): the ECC context is a scoped resource, stopped once
\* on every exit path on which it was started, and only then.
EccReleasedOnExit ==
  Exited /\ exitCode # Segv => eccStops = eccStarts

\* The spec (section 6): every exit reports its outcome, with status 0
\* after the command printed its result, or status 1 after an Error line
\* (or the usage); an unrecognised command is a failure.  Whatever options
\* main accepts, and whichever command it runs, the process neither dies of
\* a signal nor ends silently.
ExitReported ==
  Exited =>
    \/ exitCode = 0 /\ out # <<>> /\ ~Contains(out, "error")
    \/ exitCode = 1 /\ (Contains(out, "error") \/ Contains(out, "usage"))

====
