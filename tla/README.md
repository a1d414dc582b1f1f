# A TLA+ development of revive-ethereum-rpc

The repository holds an Ethereum JSON-RPC proxy (`rpc/`), the Substrate chain it
talks to (`chain/`), a code generator for the RPC types (`rpc/codegen`) and a demo
page. This directory holds TLA+ models of the parts that have state and
concurrency, the TLC runs that check them and proofs that TLAPS checks.
`PROJECT.json` lists the components, the runs, the mutants that show each property
can fail, the source lines behind each definition, the hazards and the findings.

## 1. The system

    wallet / example -- JSON-RPC --> EthRpcServerImpl --> Client --> node RPC
                                       (rpc/src/lib.rs)     |          ^
                                                            v          |
                       main (rpc/src/main.rs) <-- updates -- subscribe_blocks
                                                            |
                                                       BlockCache (RwLock)

| component | state | operations | hard behaviour |
|---|---|---|---|
| Block cache (`client.rs:67-222`) | a deque of N blocks, four maps | insert with pruning, five lookups | five structures that must forget the same block; a block delivered twice |
| Receipt extraction (`client.rs:278-354`) | none | extrinsics and events of a block to receipts | which extrinsics count, their index, one failure voids the block |
| Subscription (`client.rs:426-495`) | the stream, the write guard | subscribe, next block, push, fail | holds the write lock over node calls; disconnects, gaps, redelivery |
| Start-up and exit (`client.rs:405-424`, `main.rs:41-124`) | the `updates` channel, the task set | wait for the first block, start the server, self check, exit | ordering between the first update, the server and the end of the task |
| Read requests (`lib.rs:237-394`, `client.rs:497-801`) | read guards, the block resolved so far | seventeen handlers over nine kinds | several awaits per request, nested guards, eviction in between, hang-ups |
| Cache lock (tokio `RwLock`) | holders and the queue | read, write, drop | fair queueing |
| Ethereum transactions (`rpc/api/src/signature.rs`, `rlp_codec.rs`, `unchecked_extrinsic.rs`, `ConvertEthTx`) | none | sign, decode, recover, make the extrinsic, put the message together again, check | the message crosses two conversions in two programs and must come out the same |
| Transaction submission (`lib.rs:99-233`, `example.rs`) | per request: the message, the dry run's limits, the extrinsic | count, estimate, sign, send; decode, dry run, nonce, submit | three different states of the chain in one request, handlers racing for a nonce, repeated sends |
| EVM pallet (`chain/pallet-contracts-evm`) | balances and contracts of the chain | gas_estimate, eth_call, eth_instantiate, decimals conversion | 15 and 18 decimals, failures that are charged |
| Node (`chain/node/src/service.rs`) | transaction pool, chain | pool import, instant or timed sealing | sealing follows the pool's announcements |
| Request types (`rpc_types.rs`, `rpc_methods.rs`, `byte.rs`, `type_id.rs`) | none | read JSON, write JSON | untagged unions that take the first variant that fits, hexadecimal forms, absent and null members, a legacy alias |
| Code generator (`rpc/codegen`) | a worklist of schema types | collect, generate, print | a name is met many times, may be made up, and is marked as generated a round later; its output is checked in |

The components interact through the lock and the cache (subscriber and requests),
through the `updates` watch channel (subscriber and main), and through calls to the
node (subscriber and requests). The node itself may finalize blocks, lose the
connection and fail calls at any time.

What makes them correct, in one sentence each: the cache answers as a scan of the
last N blocks would; the receipts of a buffered block are found with it; a request
answers about what it was asked, whatever happens between its awaits; a request
holds just the guards it should and drops them on every exit; the subscriber and
the requests cannot stop each other; the server is never seen without a block; the
process ends when it can no longer follow the chain.

## 2. Modules

| module | models | proved about in |
|---|---|---|
| `ReceiptInfos` | receipt extraction, as operators on a chain given by constants | `BlockCacheProofs` |
| `BlockCache` | `BlockCache<N>` and its lookups; its environment delivers blocks | `BlockCacheProofs`, `RedeliveryProofs` |
| `RecentBlocks` | abstract specification: every lookup is a scan of the last N blocks | `BlockCacheProofs` |
| `RwLock` | tokio's fair lock with one writer (external) | `RwLock` |
| `Client` | node, connection, subscriber, main, requests; composes the two above | `ClientProofs`, `ClientCacheProofs` |
| `MCBlockCache`, `MCClient` | the constants of the runs | |
| `EthTransactions` | a transaction from the wallet's message to the runtime's, as operators | `TxPipelineProofs`, `TxLedgerProofs` |
| `EthLedger` | abstract specification: accounts with a nonce and a balance in wei, and signed messages that take effect once | `TxLedgerProofs` |
| `TxPipeline` | callers, the handlers of `eth_estimateGas` and `eth_sendRawTransaction`, the pool, sealing and dispatch | `TxPipelineProofs`, `TxLedgerProofs` |
| `MCTxPipeline` | the constants of its runs | |
| `OpenRpc` | `openrpc.json` as `open_rpc.rs` reads it, with what `read_specs` injects | |
| `SchemaTypes` | `type_info`, `generate_type`, `generate_rpc_method` and the content of what `printer.rs` prints, as operators on a schema | |
| `TypeGenerator` | the worklist, a step per method and per type; the document and what each item mentions are constants | `TypeGeneratorProofs` |
| `RpcTypes` | the checked-in `rpc_types.rs` and `rpc_methods.rs` | |
| `JsonDocs` | reference: which documents a schema admits, when two mean the same, what no Rust type of the code can hold, samples | |
| `JsonCodec` | reading and writing, as serde derives them from the printed attributes and as `byte.rs` and `type_id.rs` implement them | |
| `RpcMessages` | composition: the types are generated, compiled, a document is read into one and written again | |
| `MCRpcMessages` | the constants of its runs: every method and schema of the document, and lists of methods | |

How the state of `TxPipeline` corresponds to the code:

| variable | code |
|---|---|
| `ledger`, `chain` | the states of the node, block by block, and the Ethereum extrinsics in between; one extrinsic per block, as a block with several executes them in the same order |
| `seen` | the newest block in the proxy's cache, at which `BlockTag::Latest` is resolved |
| `pool` | extrinsics the node accepted |
| `pc`, `order`, `nonce`, `raw`, `limits`, `built`, `outcome` | per caller: its place in `Account::send_transaction` and `send_raw_transaction`, and their local variables |
| `sends`, `sent` | a bound, and the raw transactions that exist |

`r` and `s` of a signature stand for who signed what: recovery with another message
gives `Stranger`. An account id is identified with the address it is derived from.
A contract is left free to need any weight and deposit within the dry run's, to
fail, or to revert; a contract moves nothing itself. The dry run of a plain transfer
sets no limit of storage deposit (`None`), so the deposit is left open, up to what the
account has, should a contract be there when the transfer executes. The pool keeps one extrinsic
per account and nonce, and which of two it keeps is left open. Instant sealing
finalizes the block it makes (`run_instant_seal_and_finalize`), so the node's head
is its finalized head.

How the state of `TypeGenerator` and `RpcMessages` corresponds to the code:

| variable | code |
|---|---|
| `filtered`, `collected`, `generated` | the fields of `TypeGenerator` |
| `methods`, `code` | what was written to `rpc_methods.rs` and `rpc_types.rs` so far |
| `batch` | the rest of the map that `generate_types` iterates over |
| `pc` | where main.rs is; `panicked` after an `expect`, `unwrap` or `panic!` |
| `types`, `name`, `doc`, `value`, `reply` | the compiled types, the type that is read, the document, the value, the document written from it |

`type_info` both returns a type and collects names; `TypeInfo` is the one and
`Mentions` the other, so that the worklist only sees pairs of a name and a source
and can be proved about for any document. That the two agree is what `Compiles`
checks. A hexadecimal string is its number of digits, the leading zeros among
them, and a last digit where that matters. Patterns are taken literally: those of
`uint256` and `uint64` (`openrpc.json:1045`, `1050`) have their second alternative,
`0$`, outside the group, so they admit whatever begins with a digit above 0 and
whatever ends in a 0. `additionalProperties: false` is modelled (`Closed`); the
`unevaluatedProperties: false` of TransactionInfo (`openrpc.json:2117`) is not, for
inside the first branch of its `allOf` it would refuse every member of the second.

How the state of `Client` corresponds to the code:

| variable | code |
|---|---|
| `buffer`, `blocks_by_number`, ... | the fields of `BlockCache` |
| `writer`, `guards`, `queued` | the state of the `RwLock` around it |
| `subscriber` | where the task of `subscribe_blocks` is: before `subscribe_finalized` returns, in `block_stream.next()`, in `write().await` or `receipt_infos`, ended |
| `main` | before `updates.changed()` returns, in `client.block_number()`, in `wait_for`, ended, panicked |
| `pc`, `query`, `found`, `answer` | per request: the function whose await it is in, its arguments, the block resolved so far, its response |
| `head`, `feed`, `next`, `disconnects` | the node's finalized head, the subscription and its position (external) |

A step is what a task does from one `await` to the next. Taking the lock and using
the guard are two steps. `block_by_number` calls `get_block_hash` and
`block_by_hash` with its guard held, so a request in those functions may hold two
guards; `Outer(r)` is the one from before. Dropping a handler (the caller hangs up:
jsonrpsee drops the future) releases its guards and its place in the queue.

`count_by_number` first fetches the whole EVM block, as `lib.rs:323-339` does, and
then looks up the count. The state queries (balance, nonce, code, storage, call)
share one method, `state_at`: they differ only in what they ask of the node once the
block is known. `eth_estimateGas` always asks at the newest block, which is
`state_at` with a tag. Every block tag means the newest cached block.

External behaviour the models assume:

* tokio's `RwLock` is fair: a queued writer blocks every later reader. With one
  writer, "queued behind the writer" is the whole order that matters.
* A finalized-block stream of subxt fills the gap between two notifications of one
  subscription. After `DisconnectedWillReconnect` the stream subscribes anew, and a
  Substrate node starts a subscription with its current finalized head. So a
  reconnection skips blocks, or delivers the newest block again.
* The request of main's own check may fail at any time: its transport may, and the
  client gives up after its timeout (60 s in jsonrpsee), wherever the handler waits.
* `watch::Receiver::changed` looks at the version before it looks whether the sender
  is gone, so an update made before the sender was dropped is still seen.

## 3. Runs and bounds

| run | bounds | shows |
|---|---|---|
| `block_cache` | N = 3, blocks 0..10, any gaps, blocks with 0, 1, 2 EVM transactions, one block whose receipts fail | the maps and the buffer stay in step and the cache implements `RecentBlocks`; the chain is long enough to replace the window three times |
| `redelivery` | N = 3, blocks 0..7, the newest block may come again | at most the oldest buffered block is lost to lookups, and nothing outlives its block |
| `client_answers` | N = 2, blocks 0..3, one request slot reused, one disconnect, failures, 17 queries | answers, gaps, fallbacks, and the composition with the cache and with the lock, nested guards included |
| `client_live` | N = 1, blocks 0..1, two requests, failures, one disconnect, the requests that take one guard at a time | exclusion with two readers, who may queue with a guard in hand, progress and liveness, the fair lock's among them |
| `nested_read_deadlock` and the other violation runs | the smallest instance that shows the case | the findings of section 6 |
| `tx_all` | one caller, two sends, eight kinds of message (transfer, call, creation, trailing bytes, another chain, no chain, a value with no native equivalent, a huge value), two weights, two deposits | signed is executed, and `TxPipeline` implements `EthLedger` |
| `tx_live` | three callers, two of one account and one of another, one send each, their own or one their account has signed: a transfer to the third's account, a creation, and a transfer to the address of the contract; balances that end before the sends do | nonces and counts, the pool, progress and liveness |
| `tx_estimate` | one caller, one send | the finding of section 6 |
| `codegen` | the schemas and the 39 methods of the document, with `net_version`; 82 lists of methods: the supported ones, these without one or with any other, each of the 40 alone, and one that the document does not have; for each message type, documents with every member, without the optional ones, with each alternative of each union, and sloppier ones that no schema admits: leading zeros, null for nothing, a member too many, a member under both its names | the generator terminates and its output is complete and is the one checked in; the types take what the schemas admit and lose nothing of it |
| `block_hash_is_a_number` | as `codegen` | the finding of section 6 |

The ratio of decimals is 2 (5 in `tx_estimate`) instead of 1000
and the widths are 3 and 6 bits instead of 64 and 128: what matters is that values
with and without a native equivalent and beyond the width exist. Bounds:
`Callers`, and `MaxSends` and `Orders` per caller (`TxPipeline`). In `tx_live`, what one
account executes between two steps of the other's handler changes the balance it
relies on (a transfer between them) and what its transaction is to do (a transfer
becomes a call of the contract created meanwhile). That the case occurs is what the
mutant of `AcceptedStaysValid` shows.

A window of two or three blocks has an oldest, a newest and (with three) a block in
between, which is all that pruning distinguishes; the proofs of section 5 hold for
every N. Two request slots suffice for the lock because requests only meet there,
and what `RwLock` promises is proved for any number of readers and any nesting. Bounds:
`MaxHead`, `MaxDisconnects`, `Requests` (`Client`), `MaxNumber` (`MCBlockCache`).
`CHECK_DEADLOCK FALSE` is used where the chain of a run ends.

## 4. Fairness

`FairSpec` of `Client` assumes weak fairness of the subscriber, of main, of the
reconnection and of each handler: the runtime polls a task that was woken, subxt
retries without end, and the node answers each call with a reply or an error. The
node need not finalize, the connection need not break, callers need neither ask nor
hang up, and no lock is assumed strongly fair: its queue gives the order.
`client_live` leaves out the queries of `ByNumberMethods` at a number. They are
the nested readers, and with them `CacheFollowsChain` and `EveryRequestAnswered`
fail: that is run `nested_read_deadlock`.
`FairSpec` of `TxPipeline` assumes that sealing goes on while the pool holds something
(every import into the pool is announced to `run_instant_seal_and_finalize`) and
that a handler is polled. Callers need not send, and the cache need not follow.

`FairMessagesSpec` of `RpcMessages` assumes that the generator runs: it is one
thread that waits for nothing.

## 5. Proofs

All theorems hold for every value of the constants that the named assumptions allow.

* `BlockCacheProofs`. Assumptions: N is positive, a number names one block of the
  chain, an extrinsic hash occurs once. `TypeCorrect` bounds the buffer with and
  without redelivery. `IndexesCorrect` proves the inductive invariant
  `IndexesBuffer` when no block is delivered twice: the buffer is strictly
  increasing, and each map is exactly the index of the buffered blocks. It is needed
  because none of the lookup properties is inductive: pruning takes the keys to
  remove from one map to clean another, so that the maps agree is what keeps them in
  agreement. `WindowServed` and `RefinesRecentBlocks` follow from it; the refinement
  shows for each of the five lookups that the maintained map and the scan agree. The
  number of transactions is compared for the blocks that have one (`Counted`): of the
  others the specification gives 0 and the cache nothing, which is the finding of run
  `count_of_empty_block`.
* `RedeliveryProofs` (EXTENDS the former) drops that condition: a fresh subscription
  may deliver the newest cached block once more. `IndexesBuffer` is then false. The
  inductive invariant is `IndexesWindow` (`WindowIndexed`): the buffer is weakly
  increasing; the maps of blocks index either all buffered blocks or all but the
  oldest, and so do the maps of receipts, but not always the same of the two, for
  `insert` prunes the one before and the other after the block is added.
  `RedeliveryIsHarmless`, `PruningIsComplete` and `ReceiptsKept` follow.
* `RwLock`. `LockSafe`: the lock keeps readers and the writer apart and loses no
  wake-up, from an invariant that is inductive as it stands, and
  `WriterNotOvertaken`: while the writer waits no reader gets a guard.
* `ClientProofs`. `UsesLockProperly`: every step of `Client` is a step of the lock
  or leaves it alone. `NoGuardLeaked`: the invariant says, per request and place, how
  many guards it holds, and each handler step, error path and hang-up keeps it.
* `ClientCacheProofs` (EXTENDS the former, INSTANCE of `RedeliveryProofs` and of
  `BlockCacheProofs`).
  Assumptions besides those of the cache: every number of the chain has a block, None
  is no block, receipt or number, and a query asks at something of its method's kind.
  The argument has two layers.
  `CacheInv` is about the subscriber: what is buffered is finalized, what comes next
  does not precede it (`Follows`), and the maps index the window. `UsesCacheProperly`
  and `BlockNumberMonotone` follow from it. `GapsAreReconnections` needs more than the
  buffer: `GapsCounted` also counts the gap that the next block is going to make and
  the connection that is down now, since a connection lost may not have led to a gap yet.
  Without a lost connection there is therefore no gap, each block pushed is newer than the
  newest one, and `CacheIsRecentBlocks` carries the refinement of `RecentBlocks` from the
  cache alone to the cache in the client. Some such hypothesis is needed: a fresh subscription
  may repeat a block, and then the maps do not answer as a scan would.
  `ClientInv` adds the requests: none is under way before a block is cached (`Warm`),
  and what each has resolved so far, at each place of its handler, is finalized and
  matches its query (`RequestsOK`). The cache is not mentioned there, which is why
  eviction between two awaits does no harm. `CacheIsNeverEmpty`, `AnswersAreTrue`,
  `BlocksFoundAnywhere` and `TransactionsFoundInWindow` follow; the last one takes from
  `RedeliveryProofs` that a lookup misses no buffered block but the oldest, and from
  `GapsCounted` that before the first lost connection it does not miss that one either
  (`WholeWindow`).
  A third layer is about the tasks and the lock. `TasksOK` says that the subscriber has
  or wants the lock just while it is at the receipts, and that main never has a guard
  when it queues for one. With the guards of `NoGuardLeaks` it gives `CacheLockIsSafe`.
  Who holds a guard and queues for another is then in a nested read, so
  `FlatReadsNeverBlock`: if no query nests, the writer always waits for a reader that is
  not itself waiting, and the deadlock of section 6 is the only one there is.
  `SubscriberNotOvertaken` carries the lock's theorem to the client,
  `RequestsAlwaysGetOn` is a ranking: each step of a request, forwards, on an error or on
  a hang-up, leaves it fewer calls and steps of the lock (`StepsLeft`), which needs that
  nobody else moves it (`OthersFit`, `PlacesOK`). `FailedSubscriptionStops` is about the
  way down: a subscription that stopped takes no lock from main any more, `from_url`
  panics only before the first block, and a server past its own check ends for no other
  reason. Until then an error of that check, which is a request through the server that
  may time out behind a writer, ends the process as well (`SelfCheckFails`).
* `TxPipelineProofs`. Assumptions: decoding undoes encoding, the fees are natural
  numbers and the base fee is positive, orders are messages. `InvHolds` follows an
  extrinsic from the handler to the chain: it was made of a raw transaction that was
  sent and of a nonce not above its account's at the head. `NoncesGrow` alone is not
  inductive: the pool refuses nonces below the account's, and only where the nonce
  came from tells that none is above. That what is executed has exactly its account's
  nonce is also why the transaction counts of all blocks, those the proxy serves from
  its cache among them, leave out no nonce (`CountsAreExact`). `ExecutedAsSignedHolds`,
  `ExecutedOnceHolds`, `NoncesGrowHolds` and `BadProofIsTheCallersHolds` follow with two lemmas about the
  operators: `DecodeSigned` (the proxy decodes what was signed and recovers its
  signer) and `RoundTrip` (the runtime puts the signed message together exactly when
  nonce, chain and encoding of the input agree).
  `RequestsAdvanceHolds` ranks the places of a request; others touch nothing it works
  on (`OthersWork`), and none has an answer before its end (`NoAnswerYet`).
* `TxLedgerProofs` (EXTENDS the former, same assumptions), where balances and fees
  matter. `OutcomeBalances` says what executing an extrinsic does to the balances: its
  sender pays something, because less is refunded than was charged (`RefundBelowFee`),
  and moves nothing else or all of the value and the endowment, for which it has enough.
  `AcceptedStaysValidHolds`: alone, validity is not inductive, for two extrinsics of
  one account could spend the same balance. With `OnePerAccount` it is: extrinsics of
  the pool have their account's nonce at the head (not above, by `Inv`; not below,
  being valid), and the pool keeps one per account and nonce. That a block can be made
  of any of them (`OutcomesExist`) holds because what cannot be dispatched fails and
  pays its fee. `NeverDroppedHolds` follows from the nonces too: a block that takes an
  extrinsic out of the pool leaves its account's nonce above the extrinsic's.
  `EstimateSufficesHolds` carries the dry run's limits from the handler to the pool
  (`LimitsKept`) and does the arithmetic of u128: the product of gas and price must
  fit, the sum of the fees may wrap (`EstimateCoversFee`).
  `LedgerRefined` is the refinement of `EthLedger`. Steps other than sealing sign a
  message or stutter; sealing executes one, and since the conversion to EVM decimals is
  linear and exact on what it accepts (`ToEvmLinear`, `ToEvmOfFromEvm`) the balances
  move as the abstract ledger says. It holds of the conversion short of saturation,
  which is what `ToEvm` models.
* `TypeGeneratorProofs`. Assumptions: what a method or type mentions are pairs of a
  name and a source, and the extra type is one. `GeneratorInvariant`: printed,
  pending and collected names are disjoint, `generated` is just the predefined names
  with those printed or pending, and every name that was met is generated or
  collected. `DefinedOnce` is not inductive, because whether a name may be collected
  is decided by `generated`, which is set a round before the name is printed.
  `EveryTypeOnce` and `EveryTypePrinted` follow. `OneTypePerSchema` has a hypothesis
  on the document, `OneSourcePerName`: no name that is not predefined is made up for
  two schemas. The document of the repository fulfils it. What is left to prove is that
  the worklist pairs no name with a source it did not come with (`SourcesMet`).
  `EveryStepShrinks`: `Work` counts the methods and types not printed, the names not
  taken and the stages of main.rs; it is a natural number, because the document is a
  sequence and what it mentions is finite, and no step but lowers it: a round moves a
  name to `generated` that no round took before (from `GeneratorInvariant`).
  `NeverWaits` needs that a batch or a list that is not empty has a first member; the
  least-element principle for Nat (`Least`) comes from the library's theorem on
  well-founded relations, which needs no operator parameter.

A liveness property says that something happens, by fairness, and that what happens
leads there. The second half is a safety property, and where the property is more than
fairness it is a conjunct of it, with a name, and a theorem:

| property | its safety half, proved | what TLC adds |
|---|---|---|
| `SubscriberGetsIn` | `NoOvertaking` (`WriterNotOvertaken`, `SubscriberNotOvertaken`): no reader gets a guard while the subscriber waits | readers let go |
| `EveryRequestAnswered` | `RequestsGetOn` (`RequestsAlwaysGetOn`): fewer steps left after each | each step is taken |
| `ExitsWhenSubscriptionStops` | `StopsForGood` (`FailedSubscriptionStops`): nothing comes back up or keeps the lock from main, nothing else ends a server past its check | main looks |
| `AcceptedIsExecuted` | `NeverDropped` (`NeverDroppedHolds`): nothing leaves the pool but by its nonce; with `AcceptedStaysValidHolds`, which also says that a block with it can be made | blocks are made |
| `SendsAreAnswered` | `RequestsAdvance` (`RequestsAdvanceHolds`): later places only, an answer at the end | each step is taken |
| `Terminates` | `WorkShrinks`, `NeverStuck` (`EveryStepShrinks`, `NeverWaits`): a natural number falls with each step, and there is one to take until the end | steps are taken |

Only model-checked: these properties as a whole and `CacheFollowsChain`, for TLAPS has
no reasoning about ENABLED and fairness; and the five properties of `RpcMessages` about
the types and their codec, `Compiles`, `MatchesCheckedIn`, `AcceptsValid`,
`AnswersAreValid` and `NothingLost`. They are computed by RECURSIVE operators over the
schemas and documents of the repository, which tlapm does not reason about, and they are
facts about that one document: TLC evaluates them on all of it. Every other property
of the passing runs is a theorem.

## 6. What the checks found

* `nested_read_deadlock`: a reader that holds the lock asks for it again behind a
  queued writer (`client.rs:796`). The subscriber and every later request stop.
* `status_always_one`: the receipt of a failed extrinsic says 1 (`client.rs:325`).
* `tx_estimate`: the dry run spends the value in EVM decimals as native tokens
  (`pallet-contracts-evm/src/lib.rs:306`), so a call that its caller can afford may
  have no estimate.

* `count_of_empty_block`: only blocks with a receipt get an entry to count
  (`client.rs:477`), so a cached block without EVM transactions has no count, where
  the doc promises "the number of transactions in a block" (`rpc_methods.rs:63`, 70).

* `block_hash_is_a_number`: `BlockNumberOrTagOrHash` is untagged and has U256 first
  (`rpc_types.rs:115`), and U256 takes 64 digits, so a block hash is read as a
  block number. The arms for H256 in `client.rs:538-620` are not reached from JSON.

Seen in the code while modelling, and not stated as a run: the subscription can
fail before the first block, and then `expect("tx is not dropped")` panics
(`client.rs:418`); a message without chain id gets a `v` of 27 or 28 from
`signature.rs:24`, which `extract_recovery_id` (`signature.rs:57`) cannot read, so
it is refused; a block that a
reconnection delivers twice is buffered twice, and pruning its first copy removes
the map entries of the second (`client.rs:209`; `redelivery` shows that no more is
lost); gas times price is compared with a fee in native tokens of 15
decimals (`chain/runtime/src/lib.rs:244`), so what a wallet shows in wei is a
thousandth of what is paid; `rpc_methods.rs` is written before the types are
generated, so a panic in between leaves the two files out of step
(`main.rs:25-29`); `FilterTopics` is printed as an alias that has lost its null
(`printer.rs:281`), and the schema of the result of eth_getLogs does not admit the
empty list, but no supported method uses either; the schemas admit byte strings of
odd length, an empty `byte` and numbers of more than 256 bits, `uint64` and `uint256`
included, which the types refuse (`Representable` in `JsonDocs` leaves these out); a transaction that carries
both `input` and its alias `data` is refused as a duplicate field (`rpc_types.rs:161`).

## 7. Not modelled, and the plan

Not modelled in any module: amounts, addresses and bloom filters in receipts and
blocks (no control depends on them), logging and CLI parsing.
In `TxPipeline`: connection failures between proxy and node, what a contract does
with its balance, several extrinsics of one block sharing its limits, extrinsics with
a native signature.

Of the request types: the SCALE forms, and types that JSON text reaches only
inside others. Of the generator: layout, doc comments and derives.

Done: the cache, the client around it, the transaction pipeline, the code generator
and the request types, with the proofs of section 5. What a continuation would take up:

1. The node: sealing by timer with its bounded channel, and a development node that
   restarts with a fresh chain under a running proxy (`Client` with such a node).
2. The assembly of `Block` responses, `get_contract_code` and `get_contract_storage`.
3. Saturation of the decimals conversion, and a run with gas near the width of u128.
4. Proofs: liveness, should the prover come to support ENABLED; the codec as recursive
   functions on schemas of bounded depth, for a theorem that what `type_info` names is
   collected in any document whose properties nest no `allOf` (`Compiles`).
