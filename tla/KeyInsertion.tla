---------------------------- MODULE KeyInsertion ----------------------------
(***************************************************************************)
(* scripts/generate-key-insertion-script.py and the bash script it writes, *)
(* insert-all-beta-keys.sh.  The generator reads the "beta" list of a      *)
(* validator JSON file, keeps validators[:8] and writes one insert_key     *)
(* call per key type per validator, validator idx on RPC port 9943 + idx,  *)
(* then a footer that prints "Key insertion complete!".  The script runs   *)
(* under set -e, so the first insert_key that returns 1 ends it.           *)
(* Seeds, public keys, names and the echo lines are abstracted: a          *)
(* validator is a model value, and one JSON entry either has all twelve    *)
(* key fields or lacks one (validator['babe_seed'] raises KeyError).       *)
(***************************************************************************)
EXTENDS Naturals, Sequences

CONSTANTS
  Validator,   \* validator entries of the JSON file
  Complete,    \* the entries that carry every key and seed field
  BetaLists,   \* possible values of data.get('beta', [])
  MaxUse,      \* validators[:8]
  BasePort     \* rpc_port = 9943 + idx

ASSUME KeyAssumption ==
  /\ Complete \subseteq Validator
  /\ BetaLists \subseteq Seq(Validator)
  /\ MaxUse \in Nat \ {0}
  /\ BasePort \in Nat

VARIABLES
  gPc, beta, gExit,   \* the generator: its pc, the list it read, its exit
  file,               \* insert-all-beta-keys.sh: [calls, footer]
  sPc, sLine,         \* the generated script: its pc and next call
  inserted,           \* <<port, key type, validator>> accepted by a node
  complete            \* "Key insertion complete!" was printed

vars == <<gPc, beta, gExit, file, sPc, sLine, inserted, complete>>

\* The six insert_key lines written per validator, in their order.
KeyOrder == <<"babe", "gran", "para", "asgn", "audi", "beef">>
KeyTypes == {KeyOrder[j] : j \in 1..Len(KeyOrder)}

\* validators_to_use = validators[:8]
Used == SubSeq(beta, 1, IF Len(beta) < MaxUse THEN Len(beta) ELSE MaxUse)

\* Mutant: the insert_key line writes the validator's index where its
\* entry's fields belong.
MutantCallsIndexForEntry ==
  LET nk == Len(KeyOrder)
      At(n) == LET i == (n - 1) \div nk + 1
                   j == ((n - 1) % nk) + 1
               IN  [port |-> BasePort + i, key |-> KeyOrder[j], val |-> i]
  IN  [n \in 1..Len(Used) * nk |-> At(n)]

\* The insert_key calls of the script body, validator by validator.
Calls ==
  LET nk == Len(KeyOrder)
      At(n) == LET i == (n - 1) \div nk + 1
                   j == ((n - 1) % nk) + 1
               IN  [port |-> BasePort + i, key |-> KeyOrder[j], val |-> Used[i]]
  IN  [n \in 1..Len(Used) * nk |-> At(n)]

Call == [port : Nat, key : KeyTypes, val : Validator]

TypeOK ==
  /\ gPc \in {"read", "generate", "write", "exited"}
  /\ beta \in Seq(Validator) /\ gExit \in {0, 1}
  /\ file \in [calls : Seq(Call), footer : BOOLEAN]
  /\ sPc \in {"idle", "confirm", "run", "exited"}
  /\ sLine \in Nat \ {0}
  /\ inserted \subseteq Nat \X KeyTypes \X Validator
  /\ complete \in BOOLEAN

\* No script has been written yet.
Init ==
  /\ gPc = "read" /\ beta = <<>> /\ gExit = 0
  /\ file = [calls |-> <<>>, footer |-> FALSE]
  /\ sPc = "idle" /\ sLine = 1 /\ inserted = {} /\ complete = FALSE

(***************************************************************************)
(* The generator, main().                                                  *)
(***************************************************************************)
\* No argument, a missing file or unreadable JSON: sys.exit(1).  Otherwise
\* the "beta" list; an empty one is "No validators found", sys.exit(1).
GenRead ==
  /\ gPc = "read"
  /\ \/ gPc' = "exited" /\ gExit' = 1 /\ UNCHANGED beta
     \/ \E b \in BetaLists :
          IF b = <<>> THEN gPc' = "exited" /\ gExit' = 1 /\ UNCHANGED beta
                      ELSE gPc' = "generate" /\ beta' = b /\ UNCHANGED gExit
  /\ UNCHANGED <<file, sPc, sLine, inserted, complete>>

\* Building script_content: a used validator without one of the key fields
\* raises KeyError, uncaught, before the file is opened.
GenGenerate ==
  /\ gPc = "generate"
  /\ IF \A i \in 1..Len(Used) : Used[i] \in Complete
       THEN gPc' = "write" /\ UNCHANGED gExit
       ELSE gPc' = "exited" /\ gExit' = 1
  /\ UNCHANGED <<beta, file, sPc, sLine, inserted, complete>>

\* open(output_file, 'w'), write, chmod: success exits 0.  An exception is
\* printed and exits 1: open failing leaves the old file, a failed write
\* leaves it truncated (at some call), a failed chmod leaves it whole.
GenWrite ==
  /\ gPc = "write"
  /\ \/ file' = [calls |-> Calls, footer |-> TRUE] /\ gExit' = 0
     \/ /\ file' \in {file, [calls |-> Calls, footer |-> TRUE]}
                     \cup {[calls |-> SubSeq(Calls, 1, k), footer |-> FALSE] :
                           k \in 0..Len(Calls)}
        /\ gExit' = 1
  /\ gPc' = "exited"
  /\ UNCHANGED <<beta, sPc, sLine, inserted, complete>>

(***************************************************************************)
(* The generated insert-all-beta-keys.sh, run once the generator is done. *)
(***************************************************************************)
RunStart ==
  /\ sPc = "idle" /\ gPc = "exited"
  /\ file.footer \/ file.calls # <<>>
  /\ sPc' = "confirm"
  /\ UNCHANGED <<gPc, beta, gExit, file, sLine, inserted, complete>>

\* read -p "Press Ctrl+C to cancel, or Enter to continue..."
RunConfirm ==
  /\ sPc = "confirm"
  /\ sPc' \in {"run", "exited"}
  /\ UNCHANGED <<gPc, beta, gExit, file, sLine, inserted, complete>>

\* Mutant: the script is written without set -e.
MutantRunInsertNoErrExit ==
  /\ sPc = "run" /\ sLine <= Len(file.calls)
  /\ LET c == file.calls[sLine] IN
       \/ inserted' = inserted \cup {<<c.port, c.key, c.val>>}
       \/ UNCHANGED inserted
  /\ sLine' = sLine + 1
  /\ UNCHANGED <<gPc, beta, gExit, file, sPc, complete>>

\* insert_key: curl author_insertKey to the node on the call's port.  A
\* '"result":null' answer returns 0; anything else (no node, an error, an
\* empty curl output) returns 1 and set -e ends the script.  The key may
\* be in the keystore even when the answer was lost.
RunInsert ==
  /\ sPc = "run" /\ sLine <= Len(file.calls)
  /\ LET c == file.calls[sLine] IN
       \/ inserted' = inserted \cup {<<c.port, c.key, c.val>>}
          /\ sLine' = sLine + 1 /\ UNCHANGED sPc
       \/ inserted' \in {inserted, inserted \cup {<<c.port, c.key, c.val>>}}
          /\ sPc' = "exited" /\ UNCHANGED sLine
  /\ UNCHANGED <<gPc, beta, gExit, file, complete>>

\* The end of the file: the footer, when it was written, prints
\* "Key insertion complete!".
RunFooter ==
  /\ sPc = "run" /\ sLine > Len(file.calls)
  /\ complete' = file.footer
  /\ sPc' = "exited"
  /\ UNCHANGED <<gPc, beta, gExit, file, sLine, inserted>>

\* Nothing is left to run.
Done ==
  /\ gPc = "exited"
  /\ \/ sPc = "exited"
     \/ sPc = "idle" /\ ~file.footer /\ file.calls = <<>>
  /\ UNCHANGED vars

Next ==
  \/ GenRead \/ GenGenerate \/ GenWrite
  \/ RunStart \/ RunConfirm \/ RunInsert \/ RunFooter \/ Done

Spec == Init /\ [][Next]_vars

\* When the script prints "Key insertion complete!", every validator the
\* generator used has all six session keys in the keystore of the node on
\* its own port: set -e stops the script at the first failed insert_key,
\* and a file cut short by a failed write has no footer.
CompleteImpliesAllKeys ==
  complete =>
    \A i \in 1..Len(Used), k \in KeyTypes : <<BasePort + i, k, Used[i]>> \in inserted
=============================================================================
