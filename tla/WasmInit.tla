------------------------------ MODULE WasmInit ------------------------------
(***************************************************************************)
(* Initialization of the TypeScript runtime: ensureInitialized and         *)
(* initialize (src/typescript/src/wasm-runtime.ts).                        *)
(*                                                                         *)
(* An attempt is one call of initialize.  Its promise `guarded' is shared  *)
(* by the callers while the variable initialization names it; when it      *)
(* fails, a catch handler clears the variable before any caller learns of  *)
(* the failure.  Every action below is one turn of the event loop.         *)
(***************************************************************************)
EXTENDS Integers

CONSTANT MaxAttempts   \* bound on the attempts

ASSUME AttemptsAssumption == MaxAttempts \in Nat \ {0}

Attempts == 1 .. MaxAttempts

VARIABLES
  initialization,  \* the attempt whose promise is shared, 0 if undefined
  attempt,         \* where each attempt stands
  runtime,         \* the attempt whose instance is in use, 0 if undefined
  waiting,         \* how many callers await the promise of an attempt
  reported         \* attempts some caller knows to have failed (specification
                   \* only)

initVars == <<initialization, attempt, runtime, waiting, reported>>

\* The steps of initialize and of the catch handler; "rejecting" is between
\* the rejection of `pending' and the run of its catch handler.
AttemptStates ==
  {"none", "load", "instantiate", "rejecting", "rejected", "fulfilled"}

InitTypeOK ==
  /\ initialization \in {0} \union Attempts
  /\ attempt \in [Attempts -> AttemptStates]
  /\ runtime \in {0} \union Attempts
  /\ waiting \in [Attempts -> Nat]
  /\ reported \subseteq Attempts

InitWasm ==
  /\ initialization = 0
  /\ attempt = [a \in Attempts |-> "none"]
  /\ runtime = 0
  /\ waiting = [a \in Attempts |-> 0]
  /\ reported = {}

Unused == {a \in Attempts : attempt[a] = "none"}

\* init(options) joins the shared promise ...
JoinInit ==
  /\ initialization # 0
  /\ waiting' = [waiting EXCEPT ![initialization] = @ + 1]
  /\ UNCHANGED <<initialization, attempt, runtime, reported>>

\* ... or starts an attempt.  The part of loadModule before its first await
\* only decides how the load ends.
StartInit ==
  /\ initialization = 0
  /\ \E a \in Unused :
       /\ \A b \in Unused : a <= b
       /\ initialization' = a
       /\ attempt' = [attempt EXCEPT ![a] = "load"]
       /\ waiting' = [waiting EXCEPT ![a] = 1]
  /\ UNCHANGED <<runtime, reported>>

CallInit == JoinInit \/ StartInit

\* loadModule: contradicting options, a failed fetch or a failed compilation
\* reject the promise of the attempt.
LoadModule(a) ==
  /\ attempt[a] = "load"
  /\ attempt' \in {[attempt EXCEPT ![a] = "instantiate"],
                   [attempt EXCEPT ![a] = "rejecting"]}
  /\ UNCHANGED <<initialization, runtime, waiting, reported>>

\* The rest of initialize after WebAssembly.instantiate: a missing export
\* (checkedExports) or another ABI version throws before the runtime is set.
Instantiate(a) ==
  /\ attempt[a] = "instantiate"
  /\ \/ /\ attempt' = [attempt EXCEPT ![a] = "rejecting"]
        /\ runtime' = runtime
     \/ /\ attempt' = [attempt EXCEPT ![a] = "fulfilled"]
        /\ runtime' = a
  /\ UNCHANGED <<initialization, waiting, reported>>

\* Mutant: the handler passes the error on and forgets to clear the variable.
CatchHandlerKeeps(a) ==
  /\ attempt[a] = "rejecting"
  /\ attempt' = [attempt EXCEPT ![a] = "rejected"]
  /\ UNCHANGED <<initialization, runtime, waiting, reported>>

\* The catch handler: if (initialization === guarded) initialization =
\* undefined; throw error.
CatchHandler(a) ==
  /\ attempt[a] = "rejecting"
  /\ attempt' = [attempt EXCEPT ![a] = "rejected"]
  /\ initialization' = IF initialization = a THEN 0 ELSE initialization
  /\ UNCHANGED <<runtime, waiting, reported>>

\* Mutant: the variable is cleared whenever an attempt is over, as with
\* finally instead of catch.
SettleClears(a) ==
  /\ waiting[a] > 0 /\ attempt[a] \in {"rejected", "fulfilled"}
  /\ waiting' = [waiting EXCEPT ![a] = @ - 1]
  /\ reported' = IF attempt[a] = "rejected" THEN reported \union {a} ELSE reported
  /\ initialization' = IF initialization = a THEN 0 ELSE initialization
  /\ UNCHANGED <<attempt, runtime>>

\* Mutant: the promise the callers get is resolved and never rejected.
SettleOnSuccess(a) ==
  /\ waiting[a] > 0 /\ attempt[a] = "fulfilled"
  /\ waiting' = [waiting EXCEPT ![a] = @ - 1]
  /\ UNCHANGED <<initialization, attempt, runtime, reported>>

\* The await of a caller ends, with a value or with the error.
Settle(a) ==
  /\ waiting[a] > 0 /\ attempt[a] \in {"rejected", "fulfilled"}
  /\ waiting' = [waiting EXCEPT ![a] = @ - 1]
  /\ reported' = IF attempt[a] = "rejected" THEN reported \union {a} ELSE reported
  /\ UNCHANGED <<initialization, attempt, runtime>>

\* A turn of the event loop.
Turn ==
  \E a \in Attempts :
    LoadModule(a) \/ Instantiate(a) \/ CatchHandler(a) \/ Settle(a)

-----------------------------------------------------------------------------
(* Properties.                                                             *)

\* "A failed initialization can be retried": once any caller was told that an
\* attempt has failed, a call of init never joins that attempt.
RetryStartsAfresh == initialization \notin reported

\* Calls of init that overlap share one attempt, and an instance that is in
\* use is never replaced: the schema handles and the arena cached for it stay
\* valid.
RuntimeNeverReplaced == [][runtime # 0 => runtime' = runtime]_runtime

\* Every call of init is answered, whether its attempt succeeds or fails.
InitAnswered == \A a \in Attempts : waiting[a] > 0 ~> waiting[a] = 0
=============================================================================
