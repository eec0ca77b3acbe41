# A verification of shardingSphere-go

shardingSphere-go is a MySQL proxy: clients speak the MySQL protocol to it, it
decides from a YAML configuration which data sources and physical tables a
statement concerns, executes it there through Go's `database/sql`, and puts one
answer together. This directory holds TLA+ models of its components, the
TLC configurations that check them on small instances, and TLAPS proofs of the
properties that matter most for every value of the parameters.

`PROJECT.json` lists the components, the runs, for each property a mutation of
the code's model that breaks it, the source lines behind each definition, the
hazards of the code and the findings.

## 1. Inventory

| Component | Source | State | Operations |
|---|---|---|---|
| Backend connection pools | `sqlrouter/router.go:575-622`, `sqlrouter/transaction.go:268-300` | the map `dbPools`, the RWMutex `dbMutex`, the `sql.DB`s | `getDBConnection` (double-checked lazy creation), `GetPoolStats`, `CloseAllConnections` |
| Key generator | `sqlrouter/sharding.go:140-218` | per generator: mutex, `lastTime`, `sequence` | `Generate`, `GenerateKey` |
| Transaction manager | `sqlrouter/transaction.go:1-258` | the map `transactions` and its mutex, the contexts with `Status` and `DataSources`, the `sql.Tx` branches | `BeginTransaction`, `JoinTransaction`, `CommitTransaction`, `RollbackTransaction`, `CloseTransaction`, `GetTransaction`, `ExecuteInTransaction` |
| Fan-out and merge | `sqlrouter/router.go:465-558` | per statement: wait group, mutex, `results`, `errors` | one goroutine per data node, the merge |
| Routing decision | `sqlrouter/router.go:57-460`, `sqlrouter/parser.go`, `config/config.go:409-673` | none | hints, rules, layouts (`actual-data-nodes`), algorithm expressions |
| Query path | `sqlrouter/router.go` as a whole | what the data sources hold | route, execute on each node, answer |
| MySQL session | `protocol/handshake.go` | per connection: place in the protocol, number of the last packet, read deadline, account; global: the map `preparedStatements` | handshake, authentication, `COM_QUERY`, `COM_STMT_*`, `COM_QUIT`, `COM_PING` and the other commands, the packets of each answer |
| Server | `server/server.go`, `main.go` | the listener | accept loop, a goroutine per connection with a second `RunSession` |
| Configuration | `config/config.go` | two variables, set once at the start | load, user lookup, DSN building |
| Metadata handlers | `sqlrouter/router.go:760-871` | none | `SHOW`, `USE`, `information_schema` |

Interactions. The server starts a goroutine per connection and calls the
handshake, which runs the session; the session calls
`RouteAndExecuteSQLWithResult` for each statement. That function asks the parser
and the configuration for the nodes and calls `executeOnMultipleNodes` when
there is more than one, which starts a goroutine per node; each of these calls
`getDBConnection`, the only state that all sessions share besides the prepared
statements. The transaction manager uses the same pools. No session calls the
transaction manager or the key generator yet: they are library functions
whose callers would be goroutines of sessions.

What makes each part correct, and what is hard about it:

* pools: one pool per data source whatever the race of two first users; a map
  that is never written beside a reader; a caller is given an open pool; nobody
  blocks on `dbMutex` for ever.
* keys: the ids of a generator grow, also when a millisecond's numbers are used
  up or the clock is set back; different workers never meet.
* transactions: what nil and an error from `CommitTransaction` mean when one of
  several branches fails; no branch keeps a connection that nobody can give
  back; no call hangs but in `db.Begin` on a pool that is used up for good; a
  transaction that has ended cannot be found again. `JoinTransaction`
  reads and writes the context without the lock.
* fan-out: exactly one part in the answer per node that executed the statement,
  no answer before all goroutines are done, always an answer.
* routing: every node with a matching row is asked and, when the sharding
  columns are given, no other; a hint decides wherever the parser can read the
  table's name beside it.
* query path: the physical tables behave as one table for several sessions.
* session and server: a command is answered once, by all packets of one of the
  code's answers in their order, numbered without a gap; an id of a prepared statement names what
  was prepared under it although all connections share the map; nobody is served
  without the password of an account; a silent client does not keep its
  goroutine in the handshake, a present one does not lose its session to a
  deadline of the handshake, and a gone one leaves no goroutine behind, in
  whichever of the two session loops it was served.

## 2. Modules

```
PoolRegistry  <-- refined by --  ConnPools   -- ConnPoolsProofs   MCConnPools
                                 Snowflake   -- SnowflakeProofs   MCSnowflake
                                 TxManager   -- TxManagerProofs   MCTxManager
Gather        <-- refined by --  FanOut      -- FanOutProofs      MCFanOut
            Routing <- Sql, Rewriting, Layouts <- Router    -- RouterProofs   MCRouter (Spellings)
                       Sql, Layouts -- RoutingProofs (used by RouterProofs and QueryPathProofs)
Dialogue      <-- refined by --  Session     -- SessionProofs     MCSession
LogicalTable  <-- refined by --  QueryPath   -- QueryPathProofs   MCQueryPath (Spellings)
```

**ConnPools.** A step is one lock operation or one access to shared state. A
`sql.DB` is its index in `pools`, which remembers the name it was opened for;
`dbPools` maps names to indices and `NoPool` stands for a missing key. The
RWMutex is `wlock`, the writer that has announced itself, which keeps new
readers out, and `readers`; a writer waits in `drain` for the readers inside.
`getDBConnection` is `CallGet`, `RLock`, `PeekHit`/`PeekMiss`, `Announce`,
`Drained`, `RecheckHit`/`RecheckMiss`, then `OpenFails`, or `OpenPool` and
`Register`. `CloseAllConnections` visits the keys of the map in any order
(`CloseOne`); a pool whose `Close` fails keeps its key. A caller keeps its
handle in `holding` for as long as it likes.

**PoolRegistry** is what that code is for: a registry in which a name is looked
up, or created, in one step, and closed in one step per name. The refinement
maps `registry` to `dbPools`, and hides the pool that was opened but is not
registered yet.

**Snowflake.** The clock is outside the program: it ticks and may be set back
between any two steps. `Generate` is `Lock`; one step that reads the clock,
clamps the reading to `lastTime` and takes a sequence number (`NewMillisecond`,
`SameMillisecond`); `SpinEnds` when the numbers were used up; `Emit`, which
stores `lastTime` and unlocks. The 41, 10 and 12 bits of an id are the constants
`TimeLimit`, `WorkerSize` and `SeqSize`, and the shift of the time keeps a sign.
`PerCall` are the generators that `GenerateKey` makes, one for each call.

**TxManager.** `ctxs` are all contexts ever made, `transactions` the map from
ids to them, `branches` all `sql.Tx`. `BeginTransaction` begins the branch and
makes the context before it takes the lock (`Begin`, `NewContext`, `Publish`).
`JoinTransaction` takes the lock for the lookup only, so that `JoinStatus`,
`JoinNew`, `JoinBegin` and `JoinStore` are steps between which others run. The
three calls that end a transaction keep the lock from start to end and visit
the branches one by one. Each call has a place (`Waiting`, and `publish`) where
it waits for the lock, so that what it finds afterwards is what the map has
then: `JoinLookup`, `CommitEnters`, `RollbackEnters` and `CloseEnters`, or
`Refused`. A branch keeps one connection of its source's pool, of
`Capacity[s]`, until it is done, and `db.Begin` (`MakeBranch`) waits for one
without a limit. Any goroutine may use any transaction, as it may
know the id, and ids collide as `IdAt` says. A call is made with an id that is in
the map at that moment. `astray` is not in the code: it
remembers the branches that left the manager's hands in one of three ways the
code allows: a join beside the end of the transaction, a second join of one data
source that overwrites the first, or a second transaction with the same id that
replaces the first in the map. The safety properties are about all others, so
they say that there is no fourth way.

**FanOut.** The loop over the nodes (`Spawn`), the steps of each node's
goroutine (`Connect`, `Execute`, `Executed`, `Lock`, `AppendUnlock`, `Done`) and
`Merge` after `wg.Wait()`. An append is two steps, a read of the slice and
a store of the longer one, so that a missing mutex would show. Pools have
`Capacity` connections for the goroutines of all statements.
**Gather** is its promise: each node executes or fails, once, and then there is
one answer with one part for each node that executed the statement, in any
order, or an error if none did.

**Session.** Each connection has a goroutine, `pc` says where it is, and a client,
`net`, that is there or has gone and has sent at most one packet that is not read
yet. `Accept`, `Greet`, `Admit` or `Refuse`, and `Welcome` are
`HandleHandshake`; `Expire` is a read after the deadline, `HangUp` a read from a
connection whose client has gone, `WriteFails` a write to one (with the error
packet that `RunSession` tries after it in two of the commands, section 6). Each command is a
step that takes the packet and decides the answer (`AnswerPlain`, `Query`,
`StmtExecute`, `StmtPrepare`, `StmtClose`), followed by a step per packet, as a
client may go between any two of them. `loop` is 1 in the `RunSession` that
`HandleHandshake` calls and 2 in the one that `handleConnection` calls after it
(`ReturnToServer`). A write to `preparedStatements` is two steps, `BeginStore` and
`EndStore`, or `StmtClose` and `EndDelete`; what Go may do when another goroutine
uses the map between them, stop the process, is `MapRace`, and the executions
that go on are there as well. `history` and `disturbed` are not in the code: what
was stored, and whether a statement was closed or two PREPAREs overlapped.
`RouteAndExecuteSQLWithResult` is one step with the outcomes that
`Results` allows.
**Dialogue** is what a client relies on: on a connection that is served, a
command, then the packets of one whole answer in their order and with their
numbers, then the next command; connections may end at any time. The shapes of
the answers are the code's own, which section 5 compares with the MySQL
protocol. The refinement maps `asked` to the
command in the goroutine's locals while it is answering and `heard` to the packets
sent since.

**Routing** has the decision as operators, without state. A name like `t_order_3` is
its letters, underscores and number; a literal is a sequence of character
codes, as sharding depends on whether it is a numeral and on its hash, which
wraps at `HalfWord`. A statement's comments stand in one of five places, of which
the parser takes some for the name of the table (`TakenForTheName`) and is kept
from finding one by others (`HidesTheVerb`). `ParseActualDataNodes`, `expandDataNodes`,
`ExtractShardingValue`, `Calculated`, `routeWithHint` and `Route` follow the
functions of those names (`calculateDataSource` and `calculateTable` are
`Calculated`). What the parser reads of a statement is a record.
**Rewriting** is the text a node is given, of which a statement has the places
where a name stands (`mentions`): `RewriteTableInSQL` with its four patterns for
qualified names and `RewriteTableName`.
**Sql** is what a data source makes of a condition; it is MySQL, not this code.
**Layouts** is what an operator means by the layout and the strategies of a rule,
which nodes a row belongs on, and which spellings and statements the code reads
in that sense (`WellConfigured`, `Readable`, `RoutedByKeys`); it models no code.
**Router** decides on one statement after another, rewrites it for the nodes, and
states what a decision has to be from the meaning of the layout and the rows,
and what a text has to be from the meaning of its names. **Spellings**
has short forms for writing configurations and statements.

**QueryPath.** Several sessions send statements; each is routed by `Route`,
executed by its nodes in any order, one node a step, and answered. `contents`
is what the physical tables hold. **LogicalTable** is the abstract
specification: one table, on which a statement takes effect once on each row it is about,
between its start and its end. A source in `Faulty` may fail at any node, before
the node executed its part or after that and before the proxy heard of it. The
abstract table then has a `Gap`: the rows of that source are passed over, or
changed without being counted, and the answer is an error only if no other part
was heard of, as `executeOnMultipleNodes` drops the errors when it has a result.
The rows of other sources are never in a gap, and no part happens twice. The
refinement looks only at a key's home node.

The places in which models compose each other's abstractions are: FanOut
takes `getDBConnection` as one step that ends with a pool or an error, which
PoolRegistry justifies; QueryPath takes a node's goroutine as one step,
which Gather justifies; QueryPath uses `Route` itself and takes a node to work
on its own table, which `NodesGetTheirTable` justifies; and Session takes a
statement as one step, which the call of a function on the goroutine's own
stack justifies.

## 3. Runs

All runs are complete explorations of the state spaces given by their bounds.

| Run | Instance | Shows |
|---|---|---|
| `ConnPools` | 2 goroutines, 3 names (2 configured, one of which may fail to close), 4 pools, one `CloseAllConnections` | `OnePoolPerName`, `StableWhileRead`, `HandsOutOpenPool`, `AtomicGetOrCreate` (refinement of PoolRegistry), `CallsReturn` |
| `Snowflake` | 2 goroutines, a shared generator and one of a `GenerateKey` call, 2 sequence numbers, 1 bit of worker id, clock 0..3, one setback | `Increasing`, `WorkersDisjoint`, `GenerateReturns` |
| `Snowflake_percall` | two calls of `GenerateKey` | violation of `PrimaryKeysUnique` |
| `TxManager` | 2 goroutines, 2 sources with pools of 1 and 2 connections, 4 transactions and branches together, shared ids, ids that may collide | `RegisteredAreActive`, `NoBranchLeaks`, `NilMeansCommitted`, `ErrorMeansClosed`, `CallsReturn` |
| `TxManager_join` | shared ids | violation of `JoinsOnlyActive` |
| `FanOut` | 2 statements, 2 nodes, 1 connection | `ImplementsGather` (refinement of Gather), `NothingRunsAfterAnswer`, `EveryStatementAnswered` |
| `Router` | 5 layouts with 4 literals, one or two equality conditions, hints and other comments in five places, system queries, two names in each of the six spellings | `NoMatchSkipped`, `OnlyRightNodes`, `LayoutMeansItsNodes`, `HintsObeyed`, `NodesGetTheirTable` |
| `Router_shipped` | the rules of `config/config.yaml` | violation of `NoMatchSkipped` |
| `QueryPath` | 2 sessions, 2 keys, 2 values, 2 sources with 2 tables each, one of which may fail | `ActsAsOneTable` (refinement of LogicalTable), `RowsAtHome` |
| `QueryPath_insert` | one session, INSERT without a hint | violation of `RowsAtHome` |
| `Session` | 2 connections, 3 logins, 8 commands, 2 statements prepared, results of 2 columns and up to 1 row, packet numbers of 2 bits | `ImplementsDialogue` (refinement of Dialogue), `ServedByOwnAccount`, `IdsHoldUntilDisturbed`, `SessionsEndByClient`, `HandshakeEnds`, `GoneIsClosed` |
| `Session_execute` | 2 connections that prepare a statement and execute the id they were told | violation of `ToldIdIsKnown` |

Bounds, and why they are enough. Two goroutines are the smallest number that
race, and every race in this code is between two: the loser of the double check,
the reader beside `CloseAllConnections`, the joiner beside the committer. The
bounds `MaxPools`, `MaxCloses`, `MaxMade` and `MaxPrepares` count things made in
a behaviour: four pools allow each configured name to be opened, closed and
opened again; four transactions and branches are a transaction with two branches
that one goroutine ends while the other joins, or two transactions that meet
under one id. Two sequence numbers make the third key of a millisecond wait,
as the 4097th does. Three clock ticks allow a wait, a setback and another id.
Two prepared statements are the smallest number that overlap or follow a
close. A result of two columns and a row has more packets than two bits count,
so the numbers wrap as a byte does. Commands that are answered alike are
represented by one of them in the Session run (`initDB` for the commands of one
packet); each client has the commands in which the two differ. Capacity 1 in FanOut makes every goroutine wait for every other. In
TxManager one source's pool has a single connection, so that one branch, open in
a transaction that nobody ends or lost in a race, exhausts it within the bound,
while the other's leaves room for races between branches. The run reaches the
calls that then hang in `db.Begin`: `CallsReturn` excepts exactly those
(`Starved`), and without the exception it is violated by the same run.
One source that may fail beside a sound one gives a broadcast every mixture of
results and errors, in every order.
The half word of 32768 in the routing runs is large enough for all the
literals' hashes; that it wraps is in the model, not in the passing run.

Deadlock is checked in ConnPools, Router and QueryPath, which have no end. It is off where
a bound ends a behaviour (Snowflake, TxManager), where every statement is
answered (FanOut) and where connections end (Session).

Symmetry: only in `QueryPath`, over sessions; that run has no liveness property.

### Fairness

* A goroutine that can take a step takes one (weak fairness of `Proceed`,
  `Work`, ...): the Go scheduler runs every runnable goroutine and preempts those
  that spin.
* Strong fairness of the steps that acquire a lock: `sync.RWMutex` lets waiting
  readers in at `Unlock` and keeps new readers out when a writer waits;
  `sync.Mutex` hands itself to a waiter that has waited for a millisecond.
* Strong fairness of waiting for a connection: `sql.DB` serves every request that
  waits as connections come back, and starves none.
* In TxManager, where a call meets both, it is one condition for each goroutine:
  one that could go on again and again goes on. It does not make a pool give out
  what it does not have.
* Weak fairness of `Tick`: time goes on. Setting the clock back is never forced
  and bounded by `MaxSetbacks`.
* A connection's goroutine that can take a step takes one (weak fairness of
  `Serve`), and a deadline that is set and not lifted passes (weak fairness of
  `Expire`).
* Nothing makes a caller start a call or drop a handle, or a client send a packet
  or go.

## 4. Proofs

TLAPS checks the following for every set of goroutines, names, generators,
sessions and keys that meets the named assumptions of the modules.

**ConnPoolsProofs** (assumption `ConnPoolsAssumption`). `TypeCorrect`;
`LockProtocol`, the mutual exclusion of the RWMutex: `LockInv` says that a
goroutine owns or has announced the lock exactly when it is `wlock`, that
`readers` are those in a read section, and that a write section has no readers. From these `NoDuplicatePool` (`OnePoolPerName`) with
`MapInv`, that a registered handle was opened for its name, and `SectionInv`,
that a goroutine about to open or register a pool has found no entry and holds
the lock. The property is not inductive without them: a second goroutine could
register between check and open. `MapStableWhileRead` (`StableWhileRead`)
follows from the lock invariants alone. `OpenPoolsOnly` (`HandsOutOpenPool`)
needs `OpenInv`: what the map holds for a name whose `Close` does not fail is open, and so is a
pool about to be registered. `RegistryRefined`
(`AtomicGetOrCreate`): each step of ConnPools is a step of PoolRegistry or a
stutter, using all of the above.

**SnowflakeProofs** (assumption `SnowflakeAssumption`). `TypeCorrect`;
`MutexProtocol`. `IdsIncrease` says that the ids of one generator grow, and
`WorkersNeverCollide` that ids of workers that differ in their masked bits
differ. Both have the hypothesis that the clock stays below `TimeLimit`, that is for
69 years from 2021: after that the sign bit flips and the claim is false. The
inductive invariant adds to the property what the mutex's holder has in its
locals: `LocalInv` relates `curTime` and `sequence` to `lastTime` at each place
in the code, `IssuedInv` says that every issued id lies before all those its
generator can still issue, also the one on its way in a goroutine's locals, and
`OrderInv` that pairs of time and number grow; that the packing into one number
preserves this order is a lemma on `Id`.

**FanOutProofs** (assumption `FanOutAssumption`), for any number of statements,
nodes and connections: `AnswersComeLast` (`NothingRunsAfterAnswer`) and
`RefinesGather` (`ImplementsGather`). `Inv` has, for each statement, `CountInv`, that
the wait group is the number of goroutines that are started and not done;
`MutexInv`, that the holder of the mutex is the one between its read of a slice and
its store, and that what it read is still there; and `SliceInv`, that the slices
list exactly the nodes whose append is over, each once. When the wait group is
zero these are all nodes, and a list without repetitions is one of Gather's orders
(`ListsOrder`). The step that sets `outcome` is Gather's `Execute` or `Fail`, `Merge`
is its answer, the others stutter.

**RoutingProofs** (assumption `RoutingAssumption`) follows `Route` from the rule to
the nodes, for every rule that is `WellConfigured` and every statement that is
`RoutedByKeys`: the parts of the layout are names, or names with a range other
than `${0..0}`; the strategies of a part that is spread take a column's value
modulo the length of the range, in the one spelling that `Calculated` completes to
those names; and the statement joins its conditions by AND, says its sharding
columns with "=" and integers that are not negative, and has no hints. Section 5
lists what happens without each of these. `FirstConditionRead` is the parser's search
for the first condition (that a set of numbers has a least one is `LeastNumber`),
`TargetReached` what a strategy makes of its value, `NamesOfRange` and `PartRight`
that it is a name of the layout and the one the rows belong on, `RuleReaches` that
`Route` returns the nodes with both parts, and `RoutedRight` that these
are all nodes of the rows the statement is about, and only these when all
sharding columns are given.

**RouterProofs** (assumption `RoutingAssumption`). `HintsDecide` (`HintsObeyed`), for
every configuration and every statement in one of the six spellings, says of a
hint where the parser finds the table beside it (`Readable`) that one node gets the
statement, which one, and with what text; it follows from the order of the tests
in `Route` and from the lemma on spellings that comes next. Where the parser does
not find the table, a hint decides nothing (section 5); `NodesTablesReplaceNames` (`NodesGetTheirTable`) from the lemma
`QualifierGoes`, that one of the four patterns finds each qualified spelling. With
`KeyedAccess`, that the statements which are routed by a rule meet the conditions of
RoutingProofs, `NoMatchingRowSkipped` (`NoMatchSkipped`), `OnlyNodesOfTheRows`
(`OnlyRightNodes`) and `LayoutsAreMeant` (`LayoutMeansItsNodes`) hold for any number of
sources, tables, columns and conditions. `OnlyNodesOfTheRows` supposes besides
(`SomeRowMeant`) that no statement contradicts itself: `id = 4 AND id = 7` is sent to a
node although no row belongs there. All rest on `DecisionsAreCurrent`: the state is about
one statement at a time. The run `Router` evaluates both conditions on its
instance, so the theorems speak of what it explores; `Router_shipped` is a
configuration that does not meet them.

**QueryPathProofs** (assumptions `QueryPathAssumption`, `RoutingAssumption`).
`PlacedRowsStayHome`: if the router sends each INSERT to the home of its key
and nowhere else (`InsertsPlaced`), then `RowsAtHome` holds in every behaviour,
whichever sources fail and whatever the other sessions do. `HintedRowsStayHome` shows
from the definition of `Route` that an INSERT with hints for its home meets that
condition. The invariant `OnTheWayHome` says that the nodes left to an INSERT
are its home, and `IdleInv` that a session without a statement has none left.

`OneTable` is the refinement of LogicalTable (`ActsAsOneTable`), for any layout,
sessions and failing sources, under two conditions on the routing: `InsertsPlaced`,
and `ReachesHomes`, that a statement is sent to every home of a row it is about, and
to no table that does not exist. Without the first, `QueryPath_insert` shows
what happens. The invariant adds three parts: `UnseenInv`, that no answer has a row
yet of a node that is still to be asked, so that no row is returned twice;
`InsertInv`, that nothing is done while the one node of an INSERT is to be asked, so
that its refusal is the answer; and `WayInv`, which carries `ReachesHomes` along. With
`RowsAtHome`, a node can only touch the rows whose home it is (`TakesTurn`): `Execute`
is `Effect` on these, a refused INSERT is an `Effect` that changes nothing, any other
`Fail` is a `Gap`.

`ConfiguredTableIsOne` discharges the two conditions: for a table that is spread
by its key as its rule says (`SpreadByKey`), whose INSERTs are hinted and whose other
statements say their key with "=" or are about several rows (`UsedByKey`),
RoutingProofs gives `ReachesHomes` and the hints give `InsertsPlaced`, so that the
refinement holds without a condition on what `Route` computes. The run `QueryPath`
evaluates `SpreadByKey` and `UsedByKey` on its instance.

**TxManagerProofs** (assumption `TxManagerAssumption`): `TypeCorrect`,
`LockProtocol`, `ActiveWhileRegistered` (`RegisteredAreActive`),
`BranchesAccountedFor` (`NoBranchLeaks`), `NilCommits` (`NilMeansCommitted`) and
`ErrorCloses` (`ErrorMeansClosed`), for any number of goroutines, sources, ids
and collisions of ids. None of them is inductive. What is added: `LockInv`, that
the mutex's holder is the goroutine in a loop over branches; `PublishInv`, that a
context which is about to be published is known to its goroutine only;
`HolderInv`, that what the holder is ending is what the map has under its id;
`RegInv`, which pairs the map's keys with the contexts' ids; and `VisitInv`, that
the branches a loop has passed are committed, or done, or astray. The
twenty-odd actions are classified first (`StepKinds`) by what they do to the state: a call
that wanders between places, connects, makes a context, publishes it, enters the lock,
visits a branch, executes, ends or stores; each conjunct is then proved
for each kind.

**SessionProofs** (assumption `SessionAssumption`): `OwnAccountsOnly`
(`ServedByOwnAccount`), `IdsHold` (`IdsHoldUntilDisturbed`) and
`ClientsEndSessions` (`SessionsEndByClient`), for any connections, users,
commands and statements. `PlaceInv` says that a deadline is set in the handshake
only, so that `Expire` cannot reach a session; `AccountInv` that the name and
password are an account's own already when the welcome is being written;
`IdInv` that undisturbed ids are 1, 2, 3 and so on and that at most one PREPARE is
under way, which has the next. `AcceptedIsOwn` is the lemma on
the search of the two lists of accounts.

`AnswersInDialogue` is the refinement of Dialogue (`ImplementsDialogue`), for any
results and any statements. Dialogue speaks of whole answers, the code of one packet
at a time, so the invariant (`TalkInv`) names the answer a goroutine is giving: `Place`
says, for each place in the code, how the locals that count down (`left`, `rows`)
follow from that answer and the number of packets written; `Saying` that the packets
written are the first ones of it and that `seq` is the number of the last, until the
packets behind a prepared statement's first. The arithmetic is `NextNumber`: adding one
to a byte and reducing again is the remainder of the sum, also where it wraps. That a write
puts out the next packet of the answer (`WriteSpeaks`, one case for each write, by
`ResultSetIs` and `PreparationIs`) leaves the rest to `Speaks` for all nine alike.
`StepKinds` then sorts all actions: a step is not seen in Dialogue (`Quiet`), begins an
answer (`Ask`), says a packet of it (`Hear`), opens a session (`Enter`), or ends one or,
when the Go runtime stops the process, all of them (`Drop`). The assumption bounds the
columns and rows of results by the two constants of those names, which may be any
natural numbers. `TypeCorrect` (`TypeOK`) needs `StoreInv` as well: ids are natural numbers
because the map of statements stays finite.

Only model-checked: all liveness (`CallsReturn`, `GenerateReturns`,
`EveryStatementAnswered`, `HandshakeEnds`, `GoneIsClosed`), which is beyond the
prover; and the routing of statements outside the conditions of RoutingProofs (other
literals than non-negative integers go through `hashString`, a fold over a sequence,
of which nothing can be proved by induction here). Every invariant, action
property and refinement that a passing run checks is stated by a theorem, under
the conditions named above.

## 5. Where the code and its documents disagree

Runs whose expected result is a violation show five of them:

* `Snowflake_percall`: `GenerateKey` makes a generator on every call, so two
  calls in a millisecond give the same primary key.
* `TxManager_join`: `JoinTransaction` adds a branch to a transaction that ended
  after it looked at the status; nobody ends that branch.
* `Router_shipped`: the placeholder pattern `${...}` does not match the `$->{...}` of the
  shipped configuration, so a statement with the sharding key goes to a node
  with the name of the expression.
* `QueryPath_insert`: the sharding value is looked for in `WHERE` only, so an
  INSERT is executed on every node.
* `Session_execute`: the answer to a PREPARE always names the id 0, the statement
  is stored under another one, and an EXECUTE with the id that was told fails.

Others follow from the same definitions and have no run of their own:

* `CloseAllConnections` keeps the key of a pool whose `Close` returned an error,
  and hands the closed pool out from then on (`CloseOne`; the reason for
  `CloseFails` in `HandsOutOpenPool`).
* A failed commit leaves the branches committed before it committed
  (`CommitOneFails`).
* Transaction ids are a second and letters from consecutive clock readings, so
  two transactions may have one id, and the later replaces the earlier in the
  map (`IdAt`, `Publish`; the `TxManager` run has such collisions).
* A hint is obeyed behind the name of the table and after SELECT, and nowhere
  else (`Readable`); the README's own example does not work. In front of the
  statement it hides the verb, and between INSERT and INTO or DELETE and FROM it
  hides the table: the name is empty, and the statement goes to the default data
  source before hints are looked for (`HidesTheVerb`, `parser.go:90,102`,
  `router.go:109`). Right before the name of the table, or after UPDATE, it is
  itself taken for the name: the hinted source gets the statement, but the text
  keeps its table, as there is no table `/*` to replace (`TakenForTheName`,
  `parser.go:96`, `parser.go:244`).
* Comments that are no hints hide the table in the same places, so that a
  statement on a sharded table goes to the default data source.
* A hint for the table alone names no data source: the statement fails, as the
  pool of the empty name cannot be opened (`routeWithHint`).
* `db.Begin` has no limit of time (`transaction.go:63,107`): a transaction that
  nobody ends, or a branch that a race lost, keeps a connection of its pool, and
  when all are kept every later call on that source hangs (`Starved`).
* `handleConnection` calls `RunSession` after `HandleHandshake`, which has run one
  already: the first COM_QUIT of a client ends nothing, only the second one or the
  end of the connection does (`ReturnToServer`, `server.go:38`,
  `handshake.go:419`).
* Ids of prepared statements are given again after a close, or twice when two
  PREPAREs overlap, and then replace another connection's statement (`NewId`);
  statements are never removed when their connection ends, and any connection may
  execute or close any of them.
* The map of prepared statements has no lock, so Go may stop the process
  (`MapRace`).
* The packets that follow the first one of the answer to a PREPARE all have the
  same number (`WritePrepared`, `WriteParameter`).
* The greeting offers `clientDeprecateEOF` (`handshake.go:143`), but result sets
  have their EOF packets for every client; COM_FIELD_LIST is answered by a column
  count and nothing else (`handshake.go:512`); and the first packet behind a PREPARE
  has its numbers in a length-encoded layout of its own (`handshake.go:632`), not the
  fixed one of the protocol. Dialogue has these shapes as the code has them.
* EXECUTE is answered in the text protocol, where `README.md:11` lists TEXT and
  BINARY (`Execute` is shared by `Query` and `StmtExecute`).
* `ds_${id % 2}`, the documented spelling, becomes `ds__0`, as
  `calculateDataSource` adds an underscore (`Calculated`; the `Router` run uses
  `ds${id % 2}`).
* `config_test.go:20` wants the table pattern `t_order_` where the code has
  `t_order` (`Pattern`).
* An algorithm of type MOD has no expression, so the statement is sent to all
  nodes (`ModAlgorithm`).
* The remainder of a negative key or a wrapped hash is negative (`Remainder`),
  and the statement goes to `ds_-1`.
* Ranges, inequalities, IN and OR on the sharding column are routed by their
  first value as if they were equalities (`Remaining`).
* The range `${0..0}` is taken for the absence of a range (`Zero`).
* A table name is read up to the next blank: `INSERT INTO t_order(id, ...)` and a
  `SELECT` that ends in `t_order;` name tables that no rule has and go to the
  default data source (`extractFirstIdentifier`, `parser.go:246`).
* A column or a string with the name of the table is rewritten as well, so an
  INSERT of the string `t_order` stores `t_order_0` (`Replaced`; `OnlyTableNames`
  sets such statements aside), and of several tables only the first is rewritten,
  where `parser.go:275` says "rewrites all table references in SQL".
* The default data source is drawn anew for each statement from the random order
  of a Go map (`DefaultNodes`).

## 6. Not modelled

* In the session: malformed packets, that is a COM_SET_OPTION of two bytes, whose
  missing third is read and panics (`handshake.go:448`), a COM_STMT_RESET of less
  than five bytes (`handshake.go:485`) and a COM_FIELD_LIST without a name
  (`handshake.go:508`), which are not answered, a COM_STMT_CLOSE or COM_STMT_EXECUTE
  cut short, and a packet of length zero, which `readPacket` refuses
  (`handshake.go:390`) and which ends the session. Dialogue and
  `SessionsEndByClient` are about clients whose packets are well formed.
* In the session: the error packet that `RunSession` tries to send when a write
  failed inside `handlePrepare` or `handleExecute` (`handshake.go:465,472`). It goes
  to the connection that has just refused a write and would refuse this one, so
  `WriteFails` closes at once; an error of routing or of an unknown id is
  answered, and is modelled.
* In the session: the cryptography of the token (a login
  carries the password its token was made from), accounts without a password,
  several commands sent before the first is answered, and writes that block
  because a client does not read, for which the code has no deadline.
* `LoadConfig` and `LoadGlobalConfig`, which fill two variables before the server
  starts.
* The text of packets, DSNs, identifiers and error messages; pool settings and
  the figures of `GetPoolStats`; what the metadata handlers answer.
* The read-write splitting functions and the `readwrite_ds_` layouts: nothing
  selects a replica.
* `GetTransaction`, which changes nothing, and calls with an id that is unknown
  from the start, which wait for the lock, return an error and change nothing. An id
  that goes while the call waits is in the model (`Refused`).
* The timeout of the transaction manager, which no code reads.
* Statements that run on a pool after it was closed: the handle is used without
  a lock, so `HandsOutOpenPool` is about the moment it is handed out.
* The crash of the Go runtime on concurrent use of `DataSources`: TxManager
  models the executions that go on.

## 7. Plan

1. A composition of sessions, query path and pools: a statement that is under
   way while all connections are closed.
2. Transactions over the nodes of a table.
