# TLA+ models of bitcointool

This directory models `src/src/tools/bitcointool.c`, the command-line tool of
libbtc. It is one process running one command per invocation, with no threads.
What is hard in this code is not concurrency. It is the long chains of branches
and early returns, the scanning loop over the keypath, the C integer casts, and
undefined behaviour. A model checker can enumerate all of these exhaustively
over small inputs.

## 1. Inventory

### Components

| Component | Code | State it keeps | Operations |
|---|---|---|---|
| CommandDispatcher | `main` 86-160, `showError` 79-84, end of `main` 613-615 | option variables (`pkey`, `keypath`, `txhex`, `scripthex`, `inputindex`, `sighashtype`, `amount`, `chain`), the process-wide ECC context | getopt loop, `-p` length check, `btc_ecc_start`, dispatch on `cmd`, `btc_ecc_stop`, exit code |
| PathRangeExpander (`hdderive`) | 408-487 | `posanum`, `posbnum`, `end`, `from`, `to`, loop index `i`, the `keypathnew` buffer | scan for one `[a-b]`/`(a-b)` marker, then `hd_derive` per index or on the literal path |
| SigningOrchestrator (`sign`) | 488-580 | `tx`, `data_bin`, `script`, `key`, `sigcompact`, `sigder_plus_hashtype`, `signed_tx` | checks, deserialize, index check, sighash and diagnostics, WIF decode, sign, serialize |
| Key commands | 160-218, 395-407, 581-610 | fixed stack buffers | `pubfrompriv`, `addrfrompub`, `genkey`, `hdgenmaster`, `hdprintkey`, `comp2der`, `bip32maintotest` |
| `crack` | 219-394 | key buffers, a candidate list | an endless generate-and-compare loop (out of scope per the spec, modelled for the dispatch properties) |
| libbtc | not in this repository | keys, transactions | black boxes |

How the components interact: `main` parses the options and starts the ECC
context. It then runs exactly one command. Each error path calls `showError`,
which prints, stops the ECC context and makes `main` return 1. The normal path
falls through to the final `btc_ecc_stop` and `return 0`. The commands call into
libbtc synchronously. There are no callbacks, no messages and no shared state,
apart from the ECC context and the option variables that `main` sets before
dispatching.

### Hard behaviour

- **Integer casts.** `inputindex` and `amount` go through `(int)`, so they wrap
  at 2^31 (lines 135 and 141). The `(size_t)` comparison at line 509 is what
  refuses negative indices. `from` and `to` are `uint64_t`, and the loop
  `i <= to` would never end at `UINT64_MAX`.
- **Undefined behaviour.** `keypathnew` is never NUL-terminated (line 468).
  `strlen(NULL)` is reached when `sign` is run without `-p` (line 542).
- **Early returns.** `sign` has four error returns, one non-fatal error, and a
  fixed print order. Each return must free what was allocated and stop the ECC
  context exactly once.
- **Partial failure.** `hd_derive` can fail in the middle of a range.
- **Boundaries.** Numerals are refused at 9 digits or more. The scan stops at
  `maxlen`. The tx hex limit is 102400 characters.

### What makes each component correct

- PathRangeExpander: it derives exactly the paths of the spec's range
  contract, in ascending order, and it terminates.
- SigningOrchestrator: it prints the outputs of §4.2 in order, with the right
  exit code. It hashes and signs only inputs that exist, for the amount given.
  It releases its resources and zeroes keys on every exit.
- CommandDispatcher: it starts and stops ECC exactly once on every path. Errors
  exit non-zero. Every option it accepts is parsed without a crash.

## 2. Plan

The order follows importance. The two pieces of logic the spec names as the
core come first.

1. **KeypathRange** (done). The scan and derivation loops of `hdderive`,
   compared with a declarative reference of the range contract.
2. **SignTx** (done). The `sign` command, from the checks to `main`'s return.
3. **Dispatcher** (done). The getopt loop, including the `-p` check that
   runs before `btc_ecc_start` and the long options declared `no_argument`,
   and the dispatch to every command, `crack` included. It INSTANCEs KeypathRange
   and SignTx for the two core commands, on its own variables.
4. **Abstract specifications.** `KeypathRangeSpec` (done) is the range
   contract, one `hd_derive` call per step, stopping at the first failure.
   KeypathRange is checked to implement it. A `SignSpec` for the §4.2 state
   machine is not written (see §5).

## 3. Modules

### KeypathRange.tla

| Code | Model |
|---|---|
| `keypath`, `posanum`, `posbnum`, `end`, `from`, `to`, loop `i` | variables of the same names (0-based indices as in C); `from`/`to` start as the model value `Uninit`, and TLC would stop on any comparison that read them |
| for-condition / `i > maxlen` break | `ScanEnd`, `ScanMaxLen` |
| the from branch (429-443) | `ScanDigit`, `ScanFromDash` (length test and `strtoull`), `ScanFromOther` |
| the to branch (444-460) | `ScanDigit`, `ScanToClose` (length test, `strtoull`, `end`), `ScanToOther` |
| trailing bracket test (461-463) | `ScanOutside` |
| `if (end > -1 && from <= to)` | `RangeStart` / `SingleDerive` |
| range loop body (468-479) | `RangeDerive`: builds `KeypathNew(i)`; the string `hd_derive` reads is that content followed by nothing or by a `Garbage` byte (undefined behaviour); `hd_derive` may fail, and then `showError` ends the run (`pc = "failed"`); `i` increments modulo 2^U64Bits |
| `strtoull`, `sprintf("%lld")` | `StrToULL` (saturating), `Decimal` (RECURSIVE) |

`calls` is a history variable: the sequence of `hd_derive` calls, each the
path handed over and whether it succeeded. `Expansion(s, minDigits)` is the
reference: the spec's range contract written declaratively, as a decomposition
of the keypath into a prefix without a bracket, a bracket, numerals, `-`, a
closing bracket and a suffix. `MaxCalls` (2^U64Bits) bounds the loop, so that a
looping variant deadlocks and is not an unbounded state space.

### KeypathRangeSpec.tla (abstract)

What `hdderive` promises: with `paths == Contract(keypath)`, `Call` appends
the next path of the contract to `calls` with a nondeterministic result, and
the status becomes `failed` on a failure and may become `done` after the last
path. `Finish` ends with `done` once every path was called. KeypathRange
instantiates it as `RangeContract` with `Contract(s) == Expansion(s, 0)` and
the refinement mapping `status <- Status` (`done`/`failed`, or `run` while
scanning or deriving). `calls` and `keypath` map to themselves. The scan
steps are stuttering steps of the abstract spec.

### SignTx.tla

| Code | Model |
|---|---|
| command line | `req`: txhex length or `NULL`, script given, `strtol`/`strtoll` results of `-i`/`-a`, length of `-p` or `NULL` |
| `(int)strtol`, `(int)strtoll` into `uint64_t`, `(size_t)` | `ToInt`, `ToUnsigned` with widths `IntBits`, `LongBits` |
| 489-495 | `RejectMissing`, `RejectTooLarge`, `AcceptArgs` |
| 497-507 | `DeserializeOk` (chooses the input count), `DeserializeFail` |
| 509-514 | `IndexOutOfRange`, `IndexInRange` |
| 514-532 | `ComputeHash`: the arguments of `btc_tx_sighash` and the diagnostics tag |
| 535-548 | `KeyNull` (segfault), `KeyDecoded`, `KeyInvalid`, `KeyAbsent` |
| 549-578 | `SignInput` (sign result is a choice; `signerr` printed, not fatal) |
| 579, 613-615 | `Finish`, `Terminated` |
| `showError` | `ShowError`: prints, counts a `btc_ecc_stop`, exit 1 |

Allocation state is tracked for `tx` and `script`. `data_bin` and `signed_tx`
are freed in the same block that allocates them.

### Dispatcher.tla

| Code | Model |
|---|---|
| `long_options` (46-61) | `NoArgument`, `OptArgs(o, S)`: the long forms of `x`, `s`, `i`, `h`, `a` are `no_argument` and add a `NULL` optarg |
| `getopt_long_only` loop (103) | `ReadOpt` reads one token of `args` per step, up to `MaxArgs`; the token is an option of a small set per variable |
| cases `p`, `c`, `m`, `k`, `t`, `r`, `v`, `x`, `s` (104-133) | `OptP` (length < 50: `ShowError` before ECC start), `SetOpt` via `OptC`, `OptM`, `OptK`, `OptChain`, `OptV`, `OptX`, `OptS` |
| cases `i`, `h`, `a` (134-142) | `OptNumeric` via `OptI`, `OptH`, `OptA`: `(int)strtol` wraps to `IntBits`; the long form gives a `NULL` optarg and `strtol(NULL)` is `Segv` (exit 139) |
| `default`, missing command (143-153) | `OptUnknown` (`Usage`, exit 1), `NoCommand` |
| `btc_ecc_start` (156) | `StartEcc` (`eccStarts`) |
| each command (160-218, 395-412, 581-611) | `Dispatch(name)` then `PubFromPriv`, `AddrFromPub`, `GenKey`, `HdGenMaster`, `HdPrintKey`, `HdDerive`, `Comp2Der`, `Bip32MainToTest`, with `Fail` (showError) and `Complete` (print and fall through) |
| `hdderive` (413-487) | `Hdd == INSTANCE KeypathRange WITH pc <- hddPc`; `HdDeriveStep`, `HdDeriveFailed`, `HdDeriveDone` |
| `sign` (488-580) | `Sign == INSTANCE SignTx WITH pc <- signPc`; `SignStart` builds `req` from the options, `SignStep` runs it to exit |
| `crack` (219-390) | `Crack`: one round per step, a failed `pubkey_from_privatekey` is `Fail`, otherwise an `address` line; `CandidateFound` is the comparison with the candidate list, never true (see §5) |
| no command matched, end of `main` (612-615) | `OtherCommand`, `MainReturn` (`btc_ecc_stop`, exit 0) |

Library results (key valid, derivation succeeds, deserialization succeeds) are
nondeterministic choices. `out` holds one tag per printed line: a result,
`error` or `usage`.

## 4. Runs

| Run | Expect | What it shows |
|---|---|---|
| `keypath` | pass | `ImplementsRangeContract`: every step of `hdderive` is a step of the abstract range contract (or a stuttering step), so the calls to `hd_derive` are exactly the contract's paths in ascending order, stopping at the first failure. This holds for every keypath of up to 6 characters over `[ ( ] ) - 0 9`. `Termination`: `hdderive` always exits. About 1.04M states, 2 minutes. |
| `keypath_empty_numeral` | violation | `[-]` derives `0`, and `[-5]` would derive 0..5. The spec wants two numerals. |
| `keypath_unterminated` | violation | `hd_derive` reads past the built path (missing NUL). |
| `sign` | pass | `OutputContract`: the print order and exit code of §4.2/§6/§7. `HashOnlyValidIndex`: the hash and signature are only for an existing input, including for `-i -1`. `CleanExit`: the tx is freed and ECC is stopped once on every return. |
| `sign_null_key` | violation | `sign` without `-p` segfaults after the diagnostics. |
| `sign_hash_amount` | violation | the printed hash is computed with amount 0. |
| `sign_index_wrap` | violation | `-i 2^32` (16 with 4-bit int) is accepted as input 0. |
| `sign_amount_wrap` | violation | `-a 2^31` (8 with 4-bit int) is signed as a different amount. |
| `sign_resource_release` | violation | `ResourcesReleasedAtExit` (spec: release and zero on every exit path): on the no-key path `sign` returns 0 with the `script` cstring still allocated (line 547; TLC's shortest counterexample), and after signing the decoded key is never cleansed (line 553; found with the script conjunct removed). |
| `dispatch` | pass | `CommandsInsideEccContext`: while a command (hdderive and sign included) runs, ECC was started once and not yet stopped, and it is never stopped twice. `ExitStatus`: a process that exits normally exits 1 exactly when an error or the usage was printed.  About 94k states. |
| `dispatch_ecc_scope` | violation | `EccReleasedOnExit`: `-p` shorter than 50 characters stops ECC before it was started (line 107). With that case removed, `bip32maintotest` still returns without `btc_ecc_stop` (line 602). |
| `dispatch_exit_report` | violation | `ExitReported`: `-inputindex 1` reaches `strtol(NULL)` because the long option is `no_argument` (line 58). The same property also fails for an unknown command, which exits 0 with no output (line 613), and for the silent failure of `bip32maintotest`. |

Each property of a passing run has a mutant in `PROJECT.json`: a variant of one
action with a plausible bug, which TLC must catch. Examples are a missing
length test on `to` (the range loop then wraps forever), a range loop that
goes on after a failed derivation, a signed index comparison, a missing
`btc_tx_free`, a fatal signing error, an `hdderive` failure that falls through
to `main`'s end, and a `comp2der` without its `return`.

### Bounds and why they are enough

- KeypathRange scales the code's constants together. `NumBuf = 2` (the code:
  9) accepts one-digit numerals and refuses two. `U64Bits = 4` keeps the
  code's guarantee that every accepted numeral is far below `UINT64_MAX`
  (9 < 15, as 10^8 - 1 < 2^64); an ASSUME checks this. `maxlen = 4` with
  keypaths of up to 6 characters reaches the cap. The shortest keypath that
  shows each branch is at most 6 characters long: `[00-0]`, `[0-00]`, `[-99]`,
  `x[0-9]`, `[9-0]`. All of them are enumerated.
- SignTx uses 4-bit `int` and 6-bit `long`/`size_t`. The index arguments are
  {-1, 0, 1, 2, 16}, the amounts {0, 5, 8}, the input counts {1, 2}, the tx
  lengths {NULL, 4, 5} with limit 4, and the keys {NULL, 50, 52}. Together
  these cover every branch, both sides of every boundary, and both wraps.
- Dispatcher reads up to 5 option tokens: enough for `-c` plus the four
  options `sign` needs, or an option repeated. `-p` has lengths {49, 50, 52}
  (both sides of the check at 107 and of the one at 542). The command set has
  every command, plus one unknown name; crack runs at most two rounds
  (`MaxCrackRounds`), enough for a round that prints and loops and one
  that fails. The instantiated
  components use one keypath with a range and one without, and the `sign`
  inputs of the SignTx run cut down to one or two values each, since that run
  already checks them in full.

### Fairness

Every module assumes `WF_vars(Next)`. The program is a single thread that
always has a next statement to run until it exits. Exit is modelled as a
`Terminated` stuttering step, so deadlock checking stays on and reports any
state where the model is stuck. The keypath run checks the refinement as a safety
property (`Init /\ [][Next]_vars` of the abstract spec) and checks liveness
separately as `Termination`. Checking the abstract spec with its fairness
would add nothing that `Termination` does not already say about the
implementation, and it was far slower.

## 5. Not modelled

- libbtc itself: key, address, BIP32, sighash and signature computations.
  They are black boxes with nondeterministic results.
- `crack`'s found branch (fopen, write the key, return 0). The comparison
  `strcmp(address_p2pkh, test)` is given the array of pointers, not
  `test[j]`. On a 64-bit build the bytes it reads contain a zero within 8
  characters and never equal an address, so the branch is dead code
  (`CandidateFound`). Because of the round bound, the model's crack always
  ends in a failure; no property relies on that. Buffer sizes (`sizeout`,
  which `pubkey_from_privatekey` rewrites between rounds) are not tracked.
- Printing and formatting: abstracted to one tag per group of lines.
- The gap between the two key checks (hazard at line 541): main refuses a
  `-p` under 50 characters and sign refuses an undecodable key over 50, so
  an undecodable key of exactly 50 characters is taken for a missing one
  (the no-signing notice, exit 0). The spec ties that notice to a missing
  key. The property saying so would be violated and needs a violation run,
  and the run list is full, so it is recorded but not checked.
- The number of derivations a range may ask for (up to 10^8, hazard at
  line 467). The model bounds it by the numeral limit it scales down, and
  the contract already fixes which paths are derived. Whether 10^8 is too
  many is a question of time and output size, which the model does not
  track.
- The `memset`s that clear stack buffers in the key commands. No property
  reads them. Key zeroing is checked in `sign` (`ResourcesReleasedAtExit`).
- A `SignSpec` refinement. The `sign` path that segfaults at `strlen(NULL)`
  has no step in the §4.2 state machine. The phase order is already
  `OutputContract` over the printed tags.
- The run list is at its size limit of twelve. Further questions about the
  dispatcher are folded into the properties of the three `dispatch` runs.
- What is left of `bitcointool.c` and has no map entry is the licence
  header, the includes, `print_version`'s body and closing braces. Every
  statement of `main` and of the commands is an action or a helper of a
  module. What remains unchecked lies inside libbtc (its buffer sizes),
  and this repository does not contain it.
