# A verification project for MoveSmith

MoveSmith (`src/`) is a fuzzer for the Move compilers and the Move VM.  It
turns a byte buffer into a random Move program, runs the program under several
compiler configurations, compares what they print, and clusters the
differences.  This directory holds TLA+ modules that model its parts, TLC
configurations that check them on small instances, and proofs that TLAPS
checks for every instance.

## 1. Inventory

| Component | State | Operations | Talks to |
|---|---|---|---|
| Generator (`move_smith.rs`) | the modules under construction, the list of runs | `generate`: skeletons, filling, post-processing, runners; one `generate_*` per syntactic form | `Env` through a `RefCell`; an `Unstructured` byte buffer for every choice |
| Environment (`env.rs`) | two `DepthRing`s, the `LiveVarPool`, counters, the timeout | depth limits, look-up of identifiers by type, kind and scope | `IdentifierPool`, `TypePool` |
| Names (`names.rs`) | counters per kind, all identifiers, the scope of each | `next_identifier`, scope tests | everyone |
| Types (`types.rs`) | the type of each identifier, all types, a stack of concrete types per type parameter | `insert_mapping`, `register_concrete_type`, `unregister_concrete_type` | generator |
| Selection (`selection.rs`), weighted choice (`utils.rs`) | a cached value per `RandomNumber` | `select`, `select_once`, `choose_idx_weighted` | `arbitrary` |
| Syntax tree and code generation (`ast.rs`, `codegen/`) | none | print the tree | |
| Execution manager (`execution/mod.rs`) | pool, input map, trace map, each under a mutex; the panic hook | `execute*`, `add_result`, `generate_report` | executor, all worker threads |
| Transactional executor (`execution/transactional/`) | the result builder | `execute_one`, `build`, `similar` | the Move compilers and VM (external) |
| Generate command (`cli/generate.rs`) | Move files, buffer files and the list of failed files; per session the codes and a manager | generate with a buffer that doubles, write, execute, list | generator, manager, rayon |
| Check command (`cli/check.rs`) | Move, output and error files; per session what is loaded and what is to run | convert, load, execute, report | generator, manager, rayon |
| Other commands (`cli/`) | none | `raw2move`, `run`, `compile`, `fuzz` | manager, generator |
| Fuzz targets (`fuzz/`), scripts (`scripts/`) | a manager under a mutex; corpus directories | one input per call | manager, libFuzzer |

All state of the generator belongs to one thread and one program; it is hard
because of its *order*: names become visible before what they name exists, limits
are set and undone around calls that may fail or return early, type arguments are
pushed while arguments are generated, fields are added one at a time to structs
that already use each other.  The execution manager is shared by rayon workers and
has three mutexes and a process-wide panic hook.  The generate and check commands
keep their state in files that many workers write, and are killed or rerun at any
time.  The transactional result is a pure algorithm over text with no
specification but its comments.

What makes each component correct:

- *Execution manager*: no similar results in the pool, no bug lost, each new bug
  announced, a panic attributed to the input that caused it, no deadlock.
- *Transactional result*: the verdict is Success exactly when the runs agree; the
  diff of a comparison run is taken apart into what each compiler printed; similar
  bugs form clusters.
- *Generator*: no variable in its own definition, limits and depth undone on every
  path, no internal assertion or unwrap fails, every position gets its type.
- *Structs and signatures*: type arguments are always found, declarations are legal
  Move, a struct is packed as it was declared, no type is cyclic.
- *Names*: an identifier is new and its name unique; it is known in its scope and
  within it, nowhere else.
- *Acquires lists*: sufficient and least.
- *Generate command*: what a file holds depends on `--seed` and its number only;
  the list names programs that show bugs and stands for all of them; sessions end
  where the seeds allow it.
- *Check command*: the report is what the files say; what reruns, crashes and failed
  conversions do.

## 2. Plan

Done, in the order of the modules of section 3: the manager with its abstract
specification and refinement; the transactional executor; names, structs,
signatures and bodies; acquires lists; the two commands that keep files.  What
is left:

1. *Generic structs in bodies*: `Skeletons` and `ExpressionGenerator` share names
   and types, but the latter's constants are structs without type parameters.
2. *Inline functions and constants*: the limit on inline functions depends on the
   order in which signatures are drawn; `Signatures` leaves it to a flag.
3. *The selection of numbers* over bounded integers, with saturating and wrapping
   subtraction.
4. *Check command with growing corpora*: a fuzzer that adds raw inputs between
   sessions.

## 3. Modules

| Module | Models | Extends |
|---|---|---|
| `HashMaps` | std's HashMap: insertion, removal | |
| `BugClustering` | abstract: what the manager promises its callers | |
| `ExecutionManager` | `execution/mod.rs`, threads and mutexes | `HashMaps`, instance of `BugClustering` |
| `TransactionalResult` | `result.rs`: diffs, chunks, verdict, similarity | |
| `TransactionalExecutor` | `executor.rs`, `input.rs`: runs of an input | `TransactionalResult` |
| `Names` | `names.rs`: the pool of identifiers, scopes | |
| `Signatures` | abilities of type parameters, function signatures | |
| `Skeletons` | structs: skeletons, fields, concretisation, phantoms, packing | `Names`, `Signatures`, instance of `StructGraph` |
| `DepthRing` | `DepthRing` of `env.rs` | |
| `ExpressionGenerator` | `move_smith.rs`: function bodies, runners | `DepthRing` |
| `StructGraph` | abstract: `fill_struct` and `check_struct_reachable` | |
| `Acquires` | `post_process_module`, `post_process_function` | |
| `ModuleFilling` | the order of the two in `generate` | `StructGraph`, `Acquires` |
| `GenerateCommand` | `cli/generate.rs` | `HashMaps`, instance of `BugClustering` |
| `CheckCommand` | `cli/check.rs`, disk methods of the manager | |
| `MC*` | values for TLC | the module they are named after |
| `*_proofs` | theorems | the module they are named after |

`TransactionalExecutor_proofs` also holds the theorems about results,
`ModuleFilling_proofs` those about acquires lists, and `Names_proofs` those about
signatures.

**ExecutionManager.**  `pool`, `input_map`, `trace_map` are the fields of the same
names; `pc`, `todo`, `verdict` are where each thread is, the inputs nobody took and
the answers.  A thread takes an input, executes it (outside every mutex; an
execution returns, panics, or catches a panic inside, and in both of the last cases
the hook has run), picks up a panic, looks for a similar result, adds its own.
Each mutex is taken and released in an action of its own where another thread
can notice.  `R` is a constant, with `IsBug` and `Similar`; `MCExecutionManager`
gives them `TransactionalResult`'s.  `BugClustering` has no threads: an input is
answered in one step, as new or not.  Its strict form answers new exactly for a
bug no similar result preceded.

**TransactionalResult, TransactionalExecutor.**  A log is a sequence of lines; of a
line its diff sign, its kind, whether it is one to ignore, a token for its text and
one for what follows its first colon (`NoValue` if it has none).  Blank lines are
lines of a log like others; `split_diff_log` drops them, so a line may get another
detail after the split than in its own log, and a hash may then be read, or panic,
differently.  `build` panics on what either `unwrap` of a message with a detail cannot
find.  The canonical text of a chunk is taken from one line, where the code looks for
some of its patterns in the whole chunk (`result.rs:317`).  `execute_one` is one action
per run and one for `build`; `past` remembers results of earlier inputs, for
comparison with `similar`.  The Move compilers and the VM print any log of a set; the
harness prints any line diff of two logs, which is given by its signs (`Scripts`).  What a log has at some
positions, in its order, is written with the ranks of these (`Rank`, `Nth`,
`Picked`): the filters and the parser of the code are such selections.

**Names, Signatures.**  Both are operators without state of their own.  An
identifier is its kind and number; the pool is a record of the counters and of the
scope of each identifier, and `NextIdentifier` answers the identifier, the scope it
owns and the pool after it.  `FunctionSignatures` is the set of all signatures
`generate_function_signature` may draw.

**Skeletons.**  A type is a tree, given as the set of its branches, so that nothing
about types needs recursion.  `structs` are the definitions in the order they are
made, `bounds` the abilities of type parameters, `types` the `TypePool` mapping of
fields.  One action makes a struct with its type parameters, one goes on to the next
struct to fill, one adds a field.  `ConcreteStructs` and `ConcreteTypes` are the sets
of everything `concretize_type` may answer; its recursion, which ends at the depth
limit, is a function of how many structs may still be nested.  A loop that draws until
a condition holds is the set of draws that meet it, and `Stuck` if there are none.
`generate_struct_pack` is an operator, evaluated in every final state.  With `used` as
the structs each field's type mentions the module implements
`StructGraph` (`ImplementsStructGraph`).  A struct without type parameters is never
the type of a field, as in the code, where only a `StructConcrete` is accepted
(`move_smith.rs:620`).

**ExpressionGenerator.**  The call stack of the recursive `generate_*` functions is
an `agenda`; an action takes the first item and puts in its place what that
function does next, with the items that undo something (`decrease_depth`,
`reset_max_depth`, `unregister`) after the calls they enclose.  `vars` has the type
of every variable, its scope and whether it is alive; `concrete` the stacks of type
arguments; `depth` the ring.  Every random choice is a choice.  A failure (`?`)
may happen at any point and ends the program: the whole generation returns.
Numbers and `bool` are one type.  References are types of their own, and those of
variables only, as the signatures have none.  Whether a function may call itself and
those before it (`allow_recursive_calls`) is the constant `AllowRecursiveCalls`; a
call of itself registers its own type parameters for themselves.

**StructGraph, Acquires, ModuleFilling.**  Of a field only the structs its type
mentions matter: `used` maps a struct to them.  Reachability is stated through
closed sets, so that it can be used in proofs.  Post-processing is modelled call by
call; a pass may visit the calls in any order, of which the code's, by name, is one.

**GenerateCommand.**  `moves`, `raws` and `failed` are the output directory; the
other variables are one session's memory.  A buffer is a seed and how often its
size was doubled, and stands for the program generated from it; which buffers
suffice is a constant, and of some seeds none may.  Sizes past `MaxSize` count as
`MaxSize`: no buffer of that size or above suffices unless the one of `MaxSize` does.  A generation may take too long at any attempt and then
leaves an empty program, which is executed all the same.  `fs::write` is two steps,
so that a kill in between leaves a torn file.  The manager is `BugClustering`,
which `ExecutionManager` implements.

**CheckCommand.**  `moves`, `outputs` and `errors` are the corpus directory; the
other variables are one session's memory.  A phase works on all its files at once,
as rayon may; `fs::write` is two steps here too, and two workers on one file may
mix theirs.  An input converts only if its pair with the configuration is in
`Converts`, and may fail even then, as generation has a limit of wall clock time
(`move_smith.rs:1916`); `failed` are the inputs `num_parse_err` counts.  A result is
saved in two steps and clustered in a third.  Flags and configuration are new for each
session.  The scan excludes nothing, as in the code: the `continue` at `check.rs:48` continues the inner loop.

## 4. Runs

| Run | Bounds | What it shows |
|---|---|---|
| `em_generate` | 2 threads, 3 inputs, 5 results, fair | first sights announced, panics attributed correctly, `BugClustering` implemented, every input answered |
| `em_check` | 3 threads, 3 inputs, bugs only | pool free of similar results, no bug lost, clusters = pool, each bug in one cluster |
| `em_duplicate_report` | 2 threads, 2 inputs | **violation**: one bug announced twice |
| `em_hidden_panic` | 1 thread, 2 inputs | **violation**: a first panic not announced |
| `tx_verdicts` | logs of up to 3 lines, all diffs of them; 1, 2 or 4 runs | diffs taken apart, panics of `build`, what verdicts follow from; differing errors told from successes |
| `tx_hidden_failure` | 2 inputs, 7 logs, 1 or 2 runs | **violation**: a failure is similar to a success |
| `gen_bodies` | 2 generic functions, 2 structs, 2 statements, 1 additional, vectors of 1, limits 2 and 1, any function may call any | the generator's invariants |
| `gen_dereference` | 2 functions, no recursive calls | **violation**: `generate_dereference` never finds a variable |
| `skeletons` | 3 generic structs and the one with all abilities, 2 fields each, type depths 2 and 5 | names, type arguments, legal declarations, packing; implements `StructGraph` |
| `skeleton` | 4 structs, 3 functions, 6 call graphs | no cyclic type; least acquires lists; the passes end |
| `generate_command` | 2 files, 3 `--seed`s over 4 seeds, 2 sessions, 1 kill | what files hold, what the list says; sessions end or keep extending a hopeless buffer |
| `check_sessions` | 3 raw inputs on 2 stems, 3 sessions, 2 kills, 2 configurations | reports, recovery, what stops a session |

*Why these bounds are enough.*  Two threads make every race of the manager (each
holds one mutex or none); the third, in `em_check`, shows what a bystander sees.  Five results
cover every combination of bug or not, equal or only similar, panic or not.
Three lines are a message, its detail and a neighbour, the most the chunk parser
looks at together; one remembered result (`MaxPast`) makes pairs of results.  Two
action constraints keep inputs with four runs (`FourRunsAreShort`) and pairs of inputs
(`PairsAreShort`) to few logs, among them one of each kind a verdict turns on.  The calls
of a run without `allow_recursive_calls` are among those of a run with it, so
`gen_bodies` has it on.  The generator has no cap: the depth limit makes it finite,
limit 2 nests a call in an argument of a call and limit 1 is the one that forbids
variables' initial values to nest.  To keep the run small the variables of a
finished function are dropped, and a block that left no variable gives its number
back: no look-up can tell.  Of the three generic structs one may have a type
parameter with `key` and the others only what all have, which is the difference
that makes a choice illegal; two fields are one that uses another struct and one
after it; depth 2 is the limit at once, 5 nests arguments as far as three structs
without cycles go; `PackDepth` 4 is the number of structs, past which packing meets no new
field.  Four structs are the three of the longest new kind of cycle
(the new field closes a path through one other) and the all-abilities struct,
which can only be an argument; the call graphs are a chain, a ring, a diamond with
a self call, a pair with a call out of the module, the complete graph and none.
Of the four seeds of `generate_command` one has enough bytes at once, one after
one doubling, one after two and one never; two streams share one seed at different
places, and in the third the hopeless seed stands beside one that suffices at once;
two sessions are one that is killed and one after it.  Three sessions of the check
command are one that is killed, one that lives with what it left, and
one that recovers.  `MaxSessions`, `MaxCrashes`, `MaxNum` and `MaxSize` bound
nothing else.

*Fairness.*  `em_generate`: weak fairness for each step of each thread, as the
operating system schedules them, and that an execution ends or panics (the VM has
a gas limit).  Nothing is assumed about who gets a mutex.  `skeleton`: the
sequential code goes on, so post-processing does; how many fields a struct gets is
drawn, so nothing is assumed about filling.  `generate_command`, `check_sessions`:
weak fairness for the workers' steps together; none for starting a session, for
kills, or for a generation to exceed its time.  The code doubles the buffer without a
limit, and a generation that fails for another reason than its bytes is tried for
ever; `SessionsEnd` of `GenerateCommand` therefore says that a session ends, is
killed, or stays at a file whose seed gives no sufficing buffer, and promises nothing
of the other files of such a session.  The other runs check safety only.

## 5. What is proved

By TLAPS, for every value of the constants under their assumptions.

*Execution manager* (`ManagerAssumption`, and `SimilarAssumption`: `similar` is
reflexive and symmetric, as `TransactionalExecutor_proofs` proves).  `TypeCorrect`,
`PoolIsDissimilar`, `KeysAreThePool`, `BugsAreRepresented`, `FirstSightIsReported`,
`PanicsArePickedUp`, `FiledOnce`, and that every step of the manager is a step of
`BugClustering` or a stutter (`Refinement`).  `SerialisedRefinement` adds that
serialised calls, as under the fuzz targets' mutex, implement the strict form.
`ReportIsComplete` needs that inputs are saved, as the check command has it, and
that similarity is transitive between bugs, which `SimilarTransitiveOnBugs` proves
of the results in use.  The invariants needed beyond the properties: a working
thread has an input (`LocalsInv`); the mutexes are held by who is at the lines
between lock and unlock (`LockInv`); an input is taken once (`OnceInv`); a thread
that found nothing similar will announce (`AnnounceInv`); a caught panic lies in
`trace_map` under its thread (`PanicInv`); an input is filed under one result, and
only if it was added (`FiledInv`).

*Transactional executor.*  Similarity is reflexive, symmetric, and between bugs
transitive, so clusters of bugs do not depend on their representative; the verdict
is Success exactly when the runs agree (`SuccessIsAgreement`); a failure is not similar
to the constant `success()` (`FailureIsNoSuccess`), and one whose runs report different
errors to no success, built or constant, nor any failure to a panic
(`DifferencesAreSeen`).  Failures without a difference in errors may be similar to a
success that was built: the fourth finding below.
That what `execute_one` returns is well formed, which those need, is
`OutputsAreWellFormed`.

About the executor, from `ExecutorAssumption` (an input is built with at most one
common configuration, as in every call of `TransactionalInputBuilder`),
`LogsAssumption` (what a compiler prints carries no diff sign, and a blank line
announces nothing) and `TextsAssumption` (no other chunk has the canonical text of an
error: those begin with "error" or "bug" or are the code of a VM error): `ChunksRecovered`, `PanicsExplained`,
`VerdictsFollow`.  The inductive invariant (`ExecutorInv`, `RunsAreLogged`): the runs
are one comparison or plain runs only, the outcomes belong run by run to the logs
printed, and the output is what `build` makes of all.  Then:

- a side of a diff has the lines of its log but the blank ones, whatever the signs
  chosen for it: the k-th position of a side has rank k in it, and that is how
  `DiffOf` reads the log (`SidesOfDiff`); dropping blank lines from a log in which
  none stands between a line and its detail leaves its chunks (`BlanksLeaveNoTrace`);
- chunks, and whether a log parses, do not depend on signs (`AlikeChunks`), and of
  the lines only on what is `Said` (`SaidChunks`): the announcing lines keep their
  order among the lines heard, and a detail stays next to its line (`RankOfRanks`,
  `NextRank`);
- flattening lists of one element, or one list, is the identity (`FlattenUnits`,
  `FlattenOne`).  `FlattenSeq` is a recursive function; a position where it went wrong
  would have a first one (`Smallest`), which replaces an induction;
- runs that agree have equal texts at equal places, so by `TextsAssumption` an error
  of one is an error of all; equal `Said` make equal chunks, which agree.

*Names and signatures.*  `IssuedIdentifiers`: from a pool whose counters are past
all it issued and whose scopes are complete, `next_identifier` makes such a pool
again, with a new identifier and a new name, and moves no earlier one.  `NewPoolOK`
is the base.  `ScopesHide`: what is declared in a scope is known in every scope
within it, and in no sibling or anything within that.  `SignaturesCanBeMet`: a
signature that returns an own type parameter has a parameter of that type.

*Expression generator* (`GeneratorAssumption`: parameters, return types and fields
are types of the module, and names of different kinds differ; `ScopingAssumption`: a
signature mentions no type parameter but its own and can be met, and no two functions
share one; `FieldsAssumption`: no struct contains itself.  `Names`, `Signatures`,
`Skeletons` and `StructGraph` have it so).  `TypeCorrect`, `LimitsNeverNest`,
`UndoneAtEnd`, `NoPanics`, `PositionsTyped`, `ParametersAvailable`, `DeclaredFirst`:
every invariant of the module.  None of these is inductive: whether a step may set a
limit, register a type argument or use a variable depends on what the rest of the
agenda does with the present ones.  The invariant is a *plan*: a sequence of states of
the environment (depth, limits set by hand, stacks of type arguments, variables with
their scopes and types, and which of them are *pending*, their `let` not complete), one
before each item of the agenda and one after the last, of which the first is the state
there is and the last has all undone.  Each item says which states it may stand between
(`Moves`) and what it asserts of the first (`Needs`).  A step replaces the first item by
items with a plan between the same two states; plans compose (`PlanConcat`), so there
is one lemma for each kind of item, and the properties are what the plan says of its
first item and of an empty agenda.  What carries the three that came last:

- *types*: an item's `want` is what its type means under the stacks of its state
  (`MeaningIn`), and a call's registrations are undone by an item of the same plan, so
  nested calls of one function each find their own on top.  In a scope, the stacks of
  its own parameters hold nothing but the parameters themselves, put there by calls of
  the function within its own body, and those of others hold types there are values
  of there (`Fit`);
- *values*: a type mentions a type parameter only where a variable of it is in scope
  (`HasValues`), which every later state keeps, since variables are only ever added
  and keep their types (`ValuesGrow`);
- *declarations*: a pending variable that has its type already (`Hot`) can be found by
  a look-up.  Two things keep that from happening: a limit set by hand that lets
  nothing but literals of another shape nest (`Sheltered`, vectors), or that the value
  asked for is a part of the struct, which no struct is of itself (`Apart`; the parts
  are the set that `FieldsAssumption` gives).

*Struct graph.*  `NoCyclicStructs`.  `NoStructContainsItself` is inductive by
itself.  If no path leads from the new field's structs to the struct *a* that gets
it, a closed set *C* holds those and not *a*; another struct *s* had a closed set
*D* with its successors and without itself; one of *D*, the union and the
intersection of *C* and *D* is such a set in the new graph (`EdgesMakeNoCycle`).

*Skeletons* (`SkeletonsAssumption`: types only).  `FillsTheGraph`: giving structs
fields with types, scopes and type arguments implements `StructGraph`, whatever the
structs, their bounds and the depths are, so no struct contains itself.  The invariant
(`Shape`): the n-th definition has the name numbered n and owns its type parameters and
fields, each in its scope; a field belongs to one struct, and only to one that
`fill_struct` was called for.  `FieldUses` says that what a field adds to the graph is
the structs its type mentions, `DrawnForField` that a drawn type is a usable generic
struct with its arguments, and `FewNames` that it mentions no more structs than there
are.

`TypesWellFormed`, `StructsAreLegal` and `AlwaysConcretized` rest on a second
invariant (`FieldsInv`): a field's type is `Sound`, that is well formed, with the
abilities its struct needs of it in every branch and with type arguments within their
bounds; and the last struct, the one with all abilities, has fields of numbers only,
because no other struct has all abilities and it has no type parameters.  So it
reaches nothing, and is the answer that is always left when a type is drawn
(`FallbackChosen`, `FallbackThere`).  A draw is a recursion over the nesting that is
still allowed; what holds of all its answers is shown at the smallest nesting that
would break it (`Smallest`, `Recursion`, `AlwaysAnAnswer`, `AnswersUsable`).  Abilities
are legal because the code goes by what a declaration says and asks the same of every
argument, which is more than Move asks; phantom parameters appear in no type
(`PhantomInv`).

`PackedRight` says that packing meets the declared types, to any depth.  A type is
looked at as a tree (`TreeSet`: a leaf, or a struct with a tree for each of its
parameters), which makes substitution an algebra: it goes through a struct to its
arguments (`StructReplaced`), two substitutions are one (`ReplacedTwice`), a tree stays
a tree with the same head (`TreeReplaced`).  Where no parameter is nested, replacing
only direct arguments is substituting (`PackedAs`).  So of every value packed the
declared type is the one it is generated for, with the registered arguments put in
(`Agrees`): it holds where packing starts, and a field of a value keeps it
(`FieldValuesAgree`, `ValuesReached`).

*Acquires lists.*  `ListsSuffice` and `ListsNeeded`: at the end the lists are the
least sufficient ones.  The invariant (`PassInv`): a pass that has copied nothing
so far leaves the calls it has looked at settled.  `Composition` says that
`ModuleFilling` implements both parts, and `ModulesHaveNoCyclicStructs` and
`ModulesAcquireWhatTheyNeed` carry the theorems over.

*Generate command* (`GenerateAssumption`: types, and that a result is similar to
itself; nothing about which buffers suffice).  `TypeCorrect`, `Reproducible`,
`ListShowsTheBugs`.  The invariants say at which stage a file of the session is
torn, written or complete, and that the sizes tried so far did not suffice; and of
the manager what `BugClustering` promises: a bug without the answer "new" has a
similar result in the pool, and each result in the pool came from some file.

*Check command.*  `TypeCorrect`, `ReportIsDisk`, `RerunIsPresent`,
`FreshSessionsRecover`, `PanicsNeedACrash`, and of every step
`SavedResultsAreKept`.  The invariant of a session (`SessionInv`) says which files
are settled in which phase, and that what is filed is exactly the bugs among them;
`RegenerateInv` that under `--regenerate` a Move file holds, once a worker has created
it, what workers of the session wrote there, and is torn only while one of them is
still to write: each writes after it truncates, so the last step on a file is a write,
however many share it; `TornInv` that a torn output is being written or has survived a kill;
`KeptInv` that without `--rerun` only what has no output is executed.
`CheckAssumption` only gives the constants their types.

*Only model-checked*: every liveness property (`AllAnswered`, `PassesEnd`, both
`SessionsEnd`), out of the prover's reach.  Every other property of a passing run
is stated by a theorem.

## 6. Findings

- `execute_check_new_bug` checks and adds under two separate locks, so two workers
  may both answer that the same bug is new (`em_duplicate_report`), against its
  doc comment.  Proved beside it: at least one of them does, and with serialised
  calls, as in the fuzz targets, no second one.
- `seen_similar_result` compares with results that are no bugs, and a panic has the
  same (empty) error sets as a success: after one success the first panic is not
  new (`em_hidden_panic`).
- `generate_dereference` filters live variables of type `T` by type `&T` and never
  finds one (`gen_dereference`), against its comment.
- `similar` compares the sets of errors and not the status, so a failure without error
  chunks, as two hashes that differ, is similar to a success with as many runs that
  differ in warnings only: after such a success it is not reported
  (`tx_hidden_failure`).

Seen while modelling, without a run:

- the ignore patterns of the check command exclude nothing (`check.rs:46-50`), and
  its help says an existing `.error` file keeps a Move file from running without
  `--rerun` (`cli/mod.rs:153`), where the code looks at `.output` only
  (`check.rs:134`);
- `generate_function_signature` asks `is_type_parameter` of references themselves,
  so that it removes all of them from the choices (`move_smith.rs:2915`);
- the loop that may add `store` and `key` to a struct runs 0..=0 times, so every
  struct but the last has exactly `copy` and `drop`;
- a field's type arguments that nest a type parameter of the packed struct are not
  replaced (the "known issue" of `move_smith.rs:2592`; `PackedAsDeclared` says
  exactly when it cannot bite);
- a type parameter is taken for used if its name is part of another's, as `T1` of
  `T10`, which only makes fewer parameters phantom;
- `choose_idx_weighted` may return an index of weight 0 (`utils.rs:61`);
- `RandomNumber` selects up to `target * 2`, past its `max`, for numbers like those
  of its own test, min 5, target 100, max 111 (`selection.rs:174`); no number of the
  default configuration is like that.

## 7. What is not modelled

The random distributions and weighted choices (floating-point; here any choice);
the bytes of a buffer; the regular expressions that canonicalise messages; the
printer and the syntax tree; generic structs as types within bodies; the kinds of
number types; the commands that only call a library; scripts; the configuration
file; the Move compilers, VM and harness, rayon, and the fuzzing engines, which are
external.
