----------------------------- MODULE TestSession ------------------------------
(***************************************************************************)
(* One run of the test suite: Mocha goes through the spec files, each a    *)
(* tree of suites whose hooks set the contracts up, and the helpers of     *)
(* utils/test/testingUtils.ts put the node back between two tests.  The    *)
(* fixtures' fields are JavaScript: no snapshot restores them.             *)
(*                                                                         *)
(* A request to the node is a step.  Between two awaited ones the node may *)
(* mine a transaction that nobody awaits, and a hook may throw at any      *)
(* request: Mocha then leaves the rest of its suite out.                   *)
(***************************************************************************)
EXTENDS Blockchain, Fixtures, FiniteSets

CONSTANTS
  Suite,      \* the suites of the spec files
  suites,     \* their hooks, tests and nested suites
  Sessions,   \* the sequences of spec files to run
  MaxThrows,  \* bound: the hooks that throw in a session
  ThrowSteps, \* bound: the requests of a hook that may fail
  MaxDelay    \* bound: the awaited requests that overtake one that is not

Hook == [kind : {"before", "cache", "sandbox", "each"}, script : Seq(Step)]

childrenOf(suite) == ToSet(suites[suite].children)
kindsIn(suite) == {hook.kind : hook \in ToSet(suites[suite].hooks)}

\* A file is a tree: no suite is in two places, and none inside itself.
ASSUME SuitesAssumption ==
  /\ \A suite \in Suite :
       /\ suites[suite].hooks \in Seq(Hook)
       /\ suites[suite].tests \in Nat
       /\ suites[suite].body \in Seq(Step)
       /\ suites[suite].children \in Seq(Suite)
       /\ IsInjective(suites[suite].children)
  /\ \A suite, other \in Suite :
       suite # other => childrenOf(suite) \cap childrenOf(other) = {}
  /\ \A some \in (SUBSET Suite) \ {{}} :
       \E suite \in some : childrenOf(suite) \cap some = {}
  /\ \A session \in Sessions :
       /\ session \in Seq(Suite)
       /\ \A suite \in Suite : childrenOf(suite) \cap ToSet(session) = {}

\* What all spec files keep to: a suite has one cacheBeforeEach and one sandbox
\* at most, and in a sandbox, in the suites nested there too, is neither.
ASSUME HelpersAssumption ==
  /\ \A suite \in Suite : \A g, h \in DOMAIN suites[suite].hooks :
       LET kind == suites[suite].hooks[g].kind IN
       g # h /\ kind \in {"cache", "sandbox"} => suites[suite].hooks[h].kind # kind
  /\ \E sandboxed \in SUBSET Suite :
       /\ {suite \in Suite : "sandbox" \in kindsIn(suite)} \subseteq sandboxed
       /\ \A suite \in sandboxed :
            /\ "cache" \notin kindsIn(suite)
            /\ \A child \in childrenOf(suite) :
                 child \in sandboxed /\ "sandbox" \notin kindsIn(child)

VARIABLES
  files,        \* the spec files that are not loaded yet
  queue,        \* the hooks and tests left of the one that runs
  step,         \* the next request of the first of them
  address,      \* the fields of the fixtures that are set
  initialized,  \* cacheBeforeEach: the hooks whose initializer ran
  SNAPSHOTS,    \* cacheBeforeEach: the stack all its hooks share
  _snapshotId,  \* addSnapshotBeforeRestoreAfterEach: the last snapshot of each
  pending,      \* the transactions sent and not mined yet
  throws,       \* the hooks that threw
  loadedAt      \* ghost: the height of the chain when the file was loaded

runnerVars == <<files, queue, step>>
helperVars == <<initialized, SNAPSHOTS, _snapshotId>>
vars == <<chainVars, runnerVars, helperVars, address, pending, throws, loadedAt>>

-----------------------------------------------------------------------------
\* Mocha's order of a file: the before hooks of a suite, for each of its tests
\* the beforeEach hooks from the file down and the afterEach hooks back up, its
\* nested suites, its after hooks.  A test is a path of suites and a number.
hookOf(item) == suites[Last(item.path)].hooks[item.hook]

when(condition, x) == IF condition THEN <<x>> ELSE << >>

itemsOf(run, path, test, kinds) ==
  LET hooks == suites[Last(path)].hooks
  IN FlattenSeq([h \in DOMAIN hooks |->
       when(hooks[h].kind \in kinds,
            [run |-> run, path |-> path, hook |-> h, test |-> test])])

upTo(path) == [d \in 1..Len(path) |-> SubSeq(path, 1, d)]

scheduleOfTest(test) ==
  LET path == test[1] IN
  FlattenSeq([d \in 1..Len(path) |->
    itemsOf("beforeEach", upTo(path)[d], test, {"cache", "sandbox", "each"})])
  \o << [run |-> "test", path |-> path, hook |-> 0, test |-> test] >>
  \o FlattenSeq([d \in 1..Len(path) |->
    itemsOf("afterEach", Reverse(upTo(path))[d], test, {"sandbox"})])

scheduleOf[path \in Seq(Suite) \ {<< >>}] ==
  LET suite == suites[Last(path)] IN
  itemsOf("before", path, <<path, 0>>, {"before"})
  \o FlattenSeq([t \in 1..suite.tests |-> scheduleOfTest(<<path, t>>)])
  \o FlattenSeq([c \in DOMAIN suite.children |->
                   scheduleOf[Append(path, suite.children[c])]])
  \o itemsOf("after", path, <<path, 0>>, {"cache"})

running == queue # << >>
item == Head(queue)
hookId == <<Last(item.path), item.hook>>
runs(run, kinds) == running /\ item.run = run /\ hookOf(item).kind \in kinds

\* A hook that throws ends its test and its suite: what still runs of them is
\* the afterEach hooks from its suite up and the after hooks of the suites
\* that are open.
survives(other, thrower) ==
  \/ ~ IsPrefix(thrower.path, other.test[1])
  \/ /\ other.run = "afterEach" /\ other.test = thrower.test
     /\ IsPrefix(other.path, thrower.path)
  \/ other.run = "after" /\ IsPrefix(other.path, thrower.test[1])

survivors(left, thrower) ==
  FlattenSeq([i \in DOMAIN left |-> when(survives(left[i], thrower), left[i])])

advance(left) == queue' = left /\ step' = 1 /\ UNCHANGED files
done == advance(Tail(queue))

-----------------------------------------------------------------------------
Init ==
  /\ ChainInit
  /\ files \in Sessions /\ queue = << >> /\ step = 1
  /\ address = << >>
  /\ initialized = {} /\ SNAPSHOTS = << >> /\ _snapshotId = << >>
  /\ pending = {} /\ throws = 0
  /\ loadedAt = 0

\* Mocha is done with a file and takes the next, whose variables are fresh.
LoadFile ==
  /\ ~ running /\ files # << >>
  /\ files' = Tail(files) /\ queue' = scheduleOf[<<Head(files)>>]
  /\ address' = << >> /\ initialized' = {} /\ _snapshotId' = << >>
  /\ loadedAt' = Len(chain)
  /\ UNCHANGED <<chainVars, step, SNAPSHOTS, pending, throws>>

\* An awaited request: transactions sent before it may come after it.
awaits ==
  /\ \A tx \in pending : tx.age < MaxDelay
  /\ pending' = {[tx EXCEPT !.age = @ + 1] : tx \in pending}

\* The fixture's script of the hook or the test that runs.
script ==
  IF item.run = "test" THEN suites[Last(item.path)].body
  ELSE CASE hookOf(item).kind = "cache" ->
              IF item.run = "beforeEach" /\ hookId \notin initialized
                THEN hookOf(item).script ELSE << >>
         [] hookOf(item).kind = "sandbox" -> << >>
         [] OTHER -> hookOf(item).script

inScript == running /\ step <= Len(script)
scriptEnded == running /\ step > Len(script)
next == script[step]

fieldsUsed == UNION ToSet(next.uses)
transaction == [step |-> next, at |-> [field \in fieldsUsed |-> address[field]]]
goOn == step' = step + 1 /\ UNCHANGED <<files, queue>>

\* Only the step's own field changes, to the address of what it created.
setField(height) == address' = assign(address, next.field, height)

Transact ==
  /\ inScript /\ next.does \in {"deploy", "call", "create", "emit"}
  /\ fieldsUsed \subseteq DOMAIN address
  /\ awaits
  /\ mine(transaction)
  /\ IF next.field = "none" THEN UNCHANGED address ELSE setField(Len(chain) + 1)
  /\ goOn
  /\ UNCHANGED <<helperVars, throws, loadedAt>>

\* A transaction without await: the script goes on at once.
Send ==
  /\ inScript /\ next.does = "send"
  /\ fieldsUsed \subseteq DOMAIN address
  /\ pending' = pending \cup {[tx |-> transaction, age |-> 0]}
  /\ goOn
  /\ UNCHANGED <<chainVars, helperVars, address, throws, loadedAt>>

Mine ==
  /\ \E sent \in pending : mine(sent.tx) /\ pending' = pending \ {sent}
  /\ UNCHANGED <<runnerVars, helperVars, address, throws, loadedAt>>

\* getLogs asks for the latest block, whichever transaction that is.
eventInLatestBlock == chain # << >> /\ Last(chain).step.does = "emit"

GetLogs ==
  /\ inScript /\ next.does = "getLogs"
  /\ eventInLatestBlock
  /\ awaits
  /\ setField(Len(chain))
  /\ goOn
  /\ UNCHANGED <<chainVars, helperVars, throws, loadedAt>>

\* A hook throws at a request that fails, where its script reads a field that
\* is not set or an event that is not there, and where cacheBeforeEach finds
\* its stack empty.
nothingToRestore ==
  /\ runs("beforeEach", {"cache"}) /\ hookId \in initialized
  /\ step = 1 /\ SNAPSHOTS = << >>

Throw ==
  /\ \/ /\ inScript /\ item.run # "test"
        /\ \/ throws < MaxThrows /\ step \in ThrowSteps
           \/ ~ fieldsUsed \subseteq DOMAIN address
           \/ next.does = "getLogs" /\ ~ eventInLatestBlock
     \/ nothingToRestore
  /\ throws' = throws + 1
  /\ advance(survivors(Tail(queue), item))
  /\ UNCHANGED <<chainVars, helperVars, address, pending, loadedAt>>

\* A test ends where it likes: it passes, or an assertion fails.
EndTest ==
  /\ running /\ item.run = "test"
  /\ done
  /\ UNCHANGED <<chainVars, helperVars, address, pending, throws, loadedAt>>

EndHook ==
  /\ scriptEnded
  /\ runs("before", {"before"}) \/ runs("beforeEach", {"each"})
  /\ done
  /\ UNCHANGED <<chainVars, helperVars, address, pending, throws, loadedAt>>

-----------------------------------------------------------------------------
\* addSnapshotBeforeRestoreAfterEach.
SandboxSave ==
  /\ runs("beforeEach", {"sandbox"})
  /\ awaits
  /\ saveSnapshotAsync
  /\ _snapshotId' = assign(_snapshotId, hookId, savedId)
  /\ done
  /\ UNCHANGED <<initialized, SNAPSHOTS, address, throws, loadedAt>>

sandboxIdOfReset == 1

\* An id that was never saved is the 0 of the constructor.
sandboxId == IF hookId \in DOMAIN _snapshotId THEN _snapshotId[hookId] ELSE 0

SandboxRestore ==
  /\ runs("afterEach", {"sandbox"})
  /\ awaits
  /\ revertByIdAsync(sandboxId)
  /\ done
  /\ UNCHANGED <<helperVars, address, throws, loadedAt>>

\* cacheBeforeEach: the first time the initializer has run, a snapshot of what
\* it did goes on the stack.  From there on the hook takes the top of the stack
\* off and reverts to it, and puts a new snapshot on, the old one being used up.
initializing == hookId \notin initialized

cachePushed == Append(SNAPSHOTS, savedId)

CacheSave ==
  /\ runs("beforeEach", {"cache"})
  /\ IF initializing THEN scriptEnded ELSE step = 2
  /\ awaits
  /\ saveSnapshotAsync
  /\ SNAPSHOTS' = cachePushed
  /\ initialized' = initialized \cup {hookId}
  /\ done
  /\ UNCHANGED <<_snapshotId, address, throws, loadedAt>>

CacheRestore ==
  /\ runs("beforeEach", {"cache"}) /\ ~ initializing /\ step = 1
  /\ SNAPSHOTS # << >>
  /\ awaits
  /\ revertByIdAsync(Last(SNAPSHOTS))
  /\ SNAPSHOTS' = Front(SNAPSHOTS)
  /\ goOn
  /\ UNCHANGED <<initialized, _snapshotId, address, throws, loadedAt>>

\* Mutant of stackAfterSuite: whether the hook initialized is not asked.
stackPoppedAlways == IF SNAPSHOTS = << >> THEN SNAPSHOTS ELSE Front(SNAPSHOTS)

\* Mutant of stackAfterSuite: there is no after hook, as the sandbox has none.
stackKept == SNAPSHOTS

stackAfterSuite ==
  IF initializing \/ SNAPSHOTS = << >> THEN SNAPSHOTS ELSE Front(SNAPSHOTS)

CacheLeave ==
  /\ runs("after", {"cache"})
  /\ SNAPSHOTS' = stackAfterSuite
  /\ done
  /\ UNCHANGED <<chainVars, initialized, _snapshotId, address, pending, throws, loadedAt>>

Run ==
  \/ LoadFile \/ Transact \/ Send \/ GetLogs \/ Throw \/ EndTest \/ EndHook
  \/ SandboxSave \/ SandboxRestore \/ CacheSave \/ CacheRestore \/ CacheLeave

Next == Run \/ Mine

\* The event loop resumes whatever it can resume, and the node mines every
\* transaction it was sent.
Spec == Init /\ [][Next]_vars /\ WF_vars(Run) /\ WF_vars(Mine)

-----------------------------------------------------------------------------
\* What the hooks of a test do to the chain, each once: those of before, then
\* those of beforeEach, without what nobody awaits.
awaited(steps) ==
  FlattenSeq([i \in DOMAIN steps |->
    when(steps[i].does \in {"deploy", "call", "create", "emit"}, steps[i])])

scriptsOf(path, kinds) ==
  FlattenSeq([d \in 1..Len(path) |->
    LET hooks == suites[path[d]].hooks
    IN FlattenSeq([h \in DOMAIN hooks |->
         IF hooks[h].kind \in kinds THEN hooks[h].script ELSE << >>])])

setUpOf(path) ==
  awaited(scriptsOf(path, {"before"}) \o scriptsOf(path, {"cache", "each"}))

stepsOf(transactions) ==
  awaited([i \in DOMAIN transactions |-> transactions[i].step])

\* The stack holds the snapshots of the cacheBeforeEach hooks of the suites
\* that are open and initialized, the innermost on top, and nothing else; the
\* node still has every one of them, in the order of the stack, and the one a
\* sandbox is about to restore.  A revert to a snapshot that was used up is an
\* answer of false, which Blockchain would drop.
restoring == runs("beforeEach", {"cache"}) /\ step = 2 /\ ~ initializing

openAndInitialized ==
  IF running THEN {id \in initialized : id[1] \in ToSet(item.test[1])} ELSE {}

StackMatchesSuites ==
  /\ \A i \in DOMAIN SNAPSHOTS :
       /\ SNAPSHOTS[i] \in DOMAIN snapshots
       /\ i > 1 => SNAPSHOTS[i - 1] < SNAPSHOTS[i]
  /\ Len(SNAPSHOTS) = Cardinality(openAndInitialized) - (IF restoring THEN 1 ELSE 0)

SnapshotsMatchSuites ==
  /\ StackMatchesSuites
  /\ runs("afterEach", {"sandbox"}) => sandboxId \in DOMAIN snapshots

\* "It snapshots and restores between each test": whatever tests ran before and
\* whichever hooks threw, a test starts on the chain its file started on with
\* the transactions of its own hooks on top, each once and in their order.
TestsStartAlike ==
  running /\ item.run = "test" /\ step = 1 =>
    stepsOf(SubSeq(chain, loadedAt + 1, Len(chain))) = setUpOf(item.path)

\* Whatever hooks threw before, no script that still runs reads an address that
\* is not set; and createSetToken misses its event in the latest block only
\* where that block is of a transaction nobody awaited, which may come between
\* the two: hooks of the same session, cached or not, cannot do that to it.
OnlyUnawaitedHideEvents ==
  inScript =>
    /\ fieldsUsed \subseteq DOMAIN address
    /\ next.does = "getLogs" /\ ~ eventInLatestBlock =>
         chain # << >> /\ Last(chain).step.does = "send"

\* A transaction reaches the contracts its script means, although snapshots
\* leave the fixtures' fields alone and addresses come back: each address it
\* was given is that of the latest contract on the chain made for the field,
\* of a kind the deploy method's parameter stands for.
CallsAreWired ==
  chain # << >> =>
    LET height == Len(chain)
        tx     == chain[height]
    IN \A p \in DOMAIN tx.step.uses : \A field \in tx.step.uses[p] :
         LET made == tx.at[field] IN
         /\ made < height
         /\ chain[made].step.field = field \/ chain[made].step.does = "emit"
         /\ \A i \in made + 1 .. height - 1 : chain[i].step.field # field
         /\ tx.step.does = "deploy" =>
              chain[made].step.contract \in parametersOf(tx.step.contract)[p]

\* The stack is the process's, and no file starts it afresh: whichever hooks
\* threw, every snapshot put on it is taken off again, so that it is empty once
\* more before the session ends, and no file leaves its snapshots to the next.
SnapshotsReleased == SNAPSHOTS # << >> ~> SNAPSHOTS = << >>
==============================================================================
