# Verification of DECENTRALIZED-DNS-

TLA+ models of the parts of this repository that keep state and can go wrong in
ways a unit test hardly reaches, TLC configurations that check them on small
instances, and proofs, checked by TLAPS, that hold for every value of the
constants. Paths are relative to the repository (`src/` is its root).

Run, in this directory:

    tlc -config CoordinatorReceipts.cfg MCCoordinator     # and so on, see "Runs"
    tlc -config MCChain.cfg MCChain
    tlc -config MCServices.cfg MCServices
    tlapm CoordinatorProofs.tla                           # and so on, see "Proofs"

## 1. Inventory

| component | state it keeps | operations | hard behaviour |
|---|---|---|---|
| Credits coordinator (`coordinator/src`) | balances, receipt ids, audit challenges, rate and day windows, comment tickets, site pools, treasury, node keys cache; most of it saved to `DATA_DIR` | `POST /receipts`, `/credits/spend`, `/audits/challenge`, `/comments/hold|submit|finalize`, `/node/verify`, `/node/receipts`, load and save | signature checks are awaited in the middle of a credit; saves are neither atomic nor ordered as one; replays; expiry; caps at the change of the day |
| Coordinator sessions, treasury, governance | challenges, sessions, bindings, passport cache, allocation log, queue | sign-in (two chains, and of the comments plugin), allocate, queue, restart | the passport call in the middle of a sign-in; expiry; rounding |
| Toll comments plugin (`plugins/toll-comments`) | comments with ticket and status (in WordPress) | buy a ticket, post, moderate | lost answers, overtaking requests, no retry |
| Recursive resolver (`gateway/src/adapters/recursive.ts`) | cache, in-flight refreshes, cache file | resolve, refresh, prefetch, evict, load | shared refreshes, stale answers, disagreeing or failing upstreams |
| Gateway server and adapters | caches, attack mode, registry snapshot, signed entries | `/resolve`, `/v1/resolve`, `/dns-query`, `/cache/upsert`, `/v1/site`, registry endpoints | the chain moves while an answer is put together; modes that change while nodes are asked |
| Gateway stores (`gateway/src/lib`) | JSON files of credits, domain status, mock registrar; quotes and checkouts | status, claim, renew, credit, quote, checkout, register a name | read, await, write; a registration is several transactions |
| Escrow program and vouchers | vaults, redeemed nonces, allowlist | deposit, redeem, withdraw, configure | voucher replay, expiry, split rounding |
| Stake, quorum, registry programs | positions, verifier sets, epoch aggregates, routes | stake, claim, submit, finalize | epoch boundaries; totals that change between count and use |
| Stake governance program | locks, exits, verifiers, snapshots | lock, request_exit, withdraw, slash | cooldowns, slashing during exit |
| Operators, miner score and reward programs | scores, epochs, penalties, vaults | report, finalize, penalize, claim | order of penalty, reward and claim |
| Names and auctions program | names, primaries, auctions, tokens | claim, bid, settle, transfer, bind, sync | auction end, two accounts that say who owns a name |
| Watchdog, anchor, cache head programs | marks per epoch, passes, names, routes, heads | report, issue, assign, lock, set head | distinct counts over two epochs; accounts written apart |
| Toll booths (`services/tollbooth`, `services/toll-booth`) | challenges, passport and route files; route records, points | claim passport, assign route; store an attested route | lost confirmations, restart between two writes |
| Roll-up, witnesses, demo gateway, oracle (`services`) | spools, batches, heads, modes, worker cache, job and result files | log, roll up, flush, admit, look up, scan | awaits between root and head, stops between two writes, crossing scans |
| Hosting control plane | connections, points, state tokens | connect, verify, apply actions | parallel calls that fail apart; rows read before an await |
| Route publication (`solana/scripts`) | the wallet's cache of routes and attestations | create, sign, mint pass, set route | two files, a booth and the chain, in that order |
| Core library, SDK, labs, legacy build | none | encode, verify | formats |

How they interact: visitors reach the plugin, the plugin calls the coordinator
over HTTP with a site token and ignores most answers; nodes post signed receipts
to the coordinator, which reads node keys from the registry snapshot file that
others publish; the gateway resolves names through its adapters, the recursive
resolver being the default for ICANN names, verifies `.dns` routes against the
chain, logs what it resolved to the roll-up (which sets the head of a cache on
the chain), asks the oracle for the traffic of a domain, and runs commands of the
names program to register a name; the booths issue passes and routes through the
anchor program, and `set_route` goes through both; stakes feed the quorum
program, whose verdict the registry program writes.

What makes each correct: balances never negative and equal to what the answers
said; each receipt and each ticket paid once; caps kept; answered changes saved;
one refresh per name and no answer older than its stale limit; each voucher
redeemed once and every vault solvent; a route final only with an aggregate of
its own epoch; every reward paid at most once and within its budget; a file that
never says what the chain does not; a session only for an answered challenge.

## 2. Plan

Done: the core (coordinator, plugin, abstract ticket), the resolver, the programs
on the chain, the services around them, and proofs of every safety and action
property that the passing runs check.

Left, in this order:

1. A refinement of `Escrow` to a bank whose vouchers pay once, and of `TollBooth`
   to an issuer of one passport per wallet.
2. The gateway and the programs in one state space: `GatewayResolve` over
   `Anchor` and `WatchdogPolicy`, which it now sees as a chain that moves.
3. The domain status store and the mock registrar's file, cut off in the middle of a
   write.

## 3. Modules

| module | what it is |
|---|---|
| `Coordinator` | the process, its disk, its clock, the registry it reads; all its properties |
| `TollTickets` | abstract specification: what is promised about a ticket |
| `TollPlugin` | the WordPress plugin composed with `Coordinator`; conservation of value |
| `CoordinatorProofs` | type correctness and the safety of the coordinator, that it implements `TollTickets`, that the plugin is one of its callers, and conservation of value |
| `RecursiveResolver` | `selectBest` (what is made of the replies of the upstreams), the gateway's recursive resolver, its cache and cache file, the world it asks; its properties |
| `ResolverProofs` | its safety, for any number of upstreams, liars, names and requests |
| `SolanaChain` | what all programs share: the slot clock, epochs, accounts at derived addresses, u64 and basis points |
| `Stake`, `StakeGov`, `RentBond`, `RouteQuorum`, `Escrow`, `Names`, `MinerScore`, `Operators`, `Rewards`, `NsIncentives`, `WitnessRewards`, `WatchdogPolicy`, `Anchor` | the programs, one module each, but `RouteQuorum` is quorum and registry, `Rewards` holds `ddns_domain_rewards` too, and `Anchor` holds `ddns_rep` and `ddns_cache_head` |
| `NamesRegistration` | the commands of `names.ts` and the gateway's registration of names, on top of `Names` |
| `TollBooth` | the toll booth on top of `Anchor` |
| `CacheRollup` | cache log, roll-up service, and the head on the chain, on top of `Anchor` |
| `RoutePublication` | the relay of attested routes; the scripts that bring a route through it on the chain |
| `DomainContinuity`, `Payments`, `GatewayRegistry`, `NameAdapters`, `GatewayResolve` | parts of the gateway |
| `AttackMode` | `packages/attack-mode`, extended by the services that keep a mode |
| `MinerWitness`, `WitnessGateway`, `DemoGateway`, `TrafficOracle`, `HostingPlane`, `CoordinatorSessions` | one service each |
| `SumTheorems` | lemmas about sums over finite sets, and induction over them by sets of sets |
| `ChainProofs` | canonical routes, vouchers, premium names and auctions, reports of watchdogs, registrations of names |
| `MoneyProofs` | what holds tokens or lamports: stakes, bonds, tolls, escrow, route rewards, and the standing of owners and operators |
| `RewardProofs` | scores, operators, name servers and witnesses; the theorems about all programs together |
| `ServiceProofs` | every service of `MCServices`, for any wallets, names, requests and clocks |
| `MCCoordinator`, `MCTollPlugin`, `MCRecursiveResolver`, `MCChain`, `MCServices` | instances for TLC |

### Coordinator

An action is one stretch of a handler between awaits, because Node.js runs it
without interruption. `POST /receipts` is the only modelled handler that awaits
in the middle of its changes, so it is several actions: `SubmitReceipt` (up to the first
signature check, reading the balance `before`), `CheckSignature` and
`CheckAuthority` (the continuations; the checks run in the thread pool, so other
handlers really run in between). A request that waits is a record of `inflight`.
`POST /node/verify` awaits before its only change and is one action.

| code | model |
|---|---|
| `state.credits`, `receipts`, `nodePubkeys`, `challenges` | `credits`, `receipts`, `nodePubkeys` with `registryLoadedAt`, `challenges` |
| `state.rate`, `walletRate`, `siteRate` | `rates`, keyed by kind and owner; a count stops one above its limit, above which all counts act alike |
| `creditWindows`, `bonusWindows`, `poolWindows` | `windows` |
| `comments.holds`, `walletCooldown` | `holds`, `cooldown` |
| `sitePools`, `treasuryBalance`, `siteReceipts` | `pools`, `treasury`, `siteReceipts` (their number per site) |
| `nodeVerifications` | `verifications` |
| `DATA_DIR` | `disk`, one entry per file that `loadState` reads back; a cut-off file is `Torn` |
| `applyReceipt` with the handler's cap and undo | `Apply` |
| `createHold`, `submitHold`, `finalizeHold` with the handlers | `CreateHold`, `SubmitHold`, `FinalizeApproved`, `FinalizeForfeit` |
| `saveState` | `SaveState`, part of every action that ends with it; the process may die at any of its files |
| `loadState` | `Restart` |

Abstractions: signatures, hashes and proofs are verdicts carried by the envelope;
requests with missing fields or a wrong token change nothing and are left out;
amounts are integers chosen so that the split is exact (`SplitAssumption`);
time is in ticks. `MaxTime`, `MaxSettle` (settlements per ticket) and
`MaxCrashes` bound the model and appear only in guards of `Tick`, `Settleable`,
`Crash` and `DieInSave`. The history variables `given`, `net`, `raced`, `issued`, `settled`,
`replayed`, `unsaved` and `leftAt` are read by no guard but the bound `MaxSettle`
and the freshness of ticket names.

A coordinator that is down serves nothing: every handler needs `up`.

### TollPlugin

The plugin keeps the tickets its visitors know, the comments and the finalize
requests on their way. An answer of `hold` or `submit` may be lost after the
coordinator has acted; a finalize request may be lost, refused or overtaken.
A comment's status is changed before the request is sent, and the answer is not
looked at. `MaxCalls` bounds the requests.

### TollTickets

Owner, amount and deadline of a ticket never change; its status changes only up
to the deadline; every settlement happens by then. It deliberately does not
promise that a ticket is settled once: the code does not (finding 1).

### RecursiveResolver

A reply is what `normalizeAndExtract` leaves of it: a verdict (status, the name
the alias chain ends in, the addresses) and a TTL. Two replies have the same
`rrsetHash` exactly if their verdicts are equal. `selectBest` prefers the fastest
upstream of those it considers; how fast each is stays open, so `Selections` is
the set of answers it may give, empty when it throws.

| code | model |
|---|---|
| `cache` (a Map) | `cache` and `order`, the place of each key in the order of insertion, which decides between entries fetched in the same second |
| a pending `refresh` | a record of `flights`: key, start, and the old entry that `catch` puts in its place if it is a prefetch |
| `inFlight` | `inFlight`, from keys to ids of flights |
| a call of `resolveRecursive` at `await p` | a record of `waiting`, with the `now` and `existing` it read before |
| the cache file | `file`, `Torn` if it does not parse |
| `resolveRecursive` up to its first await | `Request`: `Hit`, with or without a prefetch, or `Miss` |
| the rest of `refresh`, the `finally` callbacks, the answers to all that wait | `Settle`: `Refreshed` or `Failed` |
| `loadCache` | `Restart` |

`Settle` is one step because all of it runs in consecutive microtasks once the
upstreams are done: no request starts in between. A write that fails leaves the
new entry in memory and rejects, so that those who wait get an old answer or an
error; this is a disjunct of `Refreshed`.

The world: `truth` is what an upstream that does not lie says of a name now,
`trueAt` when it last said each thing. An upstream outside `Liars` gives a verdict
that was true while it was asked, or fails; a liar gives any reply. The upstreams'
own caches are part of that truth. Time is in seconds and does not go back.
`FlightMax` is how long a refresh can take: each fetch is aborted after
`requestTimeoutMs`, and `maxConcurrency` of them run at a time. `Tick` waits for a
refresh that has reached it, `MaxTime`, `MaxFaults` and `MaxChanges` bound the model
in the guards of `Tick`, of `Crash` and failing writes, and of `Change`.

Fairness: for each key the refresh under way settles (`Fairness`), because each
fetch ends by its reply or its abort timer. Nothing is assumed of requests, time,
crashes or restarts.

### The programs

An instruction is one action: a transaction makes all of its changes or none.
Its guard is every check of the instruction and of the accounts it names (an
account that must exist, must be new, must belong to the signer); amounts are
checked u64 arithmetic, and shares are rounded as the code rounds them. An account
at a derived address is an entry of a function from what it is derived from;
`None` and an absent key are an account that was never made. Signers are drawn from
`Keys`. `NewSlot` moves the clock, `MaxSlot` bounds it; an epoch is the slot
divided by the length in the configuration, so that a change of the length
renumbers the epochs, as in the code. Configurations that may be set come from a
set of records (`GovConfigs`, `EscrowConfigs` and so on). The scripts that call the
programs appear where they add something: checks made before sending, several
instructions in one transaction (`DrCli` and its like).

| program | state | note |
|---|---|---|
| `ddns_stake` | `Stake`: positions, vault, what was minted | rewards come from the present stake and total, as in the code |
| `ddns_stake_gov` | `StakeGov`: positions with locks and exits, verifiers, jail, snapshots, slash records | tokens are those of the vault and of the wallets |
| `ddns_quorum`, `ddns_registry` | `RouteQuorum`: verifier sets, aggregates, canonical routes | the call between the two is part of the action |
| `ddns_escrow` | `Escrow`: allowlist, vaults, used nonces | a voucher is a record with the keys that signed it |
| `ddns_names` | `Names`: premium names, subnames, auctions with bids, tokens, primaries, delegation | names stand for their hashes |
| `ddns_miner_score` | `MinerScore`: statistics per epoch, reports, rewards, penalties, vault | extends `Names`: a claim may need a premium name |
| `ddns_operators`, `ddns_witness_rewards`, `ddns_ns_incentives`, `ddns_rewards`, `ddns_domain_rewards`, `ddns_rep` | one operator per instruction | what was paid is kept as history |
| `ddns_watchdog_policy` | `WatchdogPolicy`: watchdogs, marks per epoch, the state of a name | |
| `ddns_anchor`, `ddns_cache_head`, `ddns_rent_bond` | `Anchor`, `RentBond` | anybody may send lamports to the bond account |

### The services

An action is one stretch of a handler between awaits. A request that waits is a
record with everything it read before, in a set or function of the module
(`gwInFlight`, `rrWaiting`, `nrRunning` and the like), and other actions run until
it goes on. A call over the network succeeds, is refused, or is lost after it was
carried out, where the code can be told these apart. Files are what a restart
reads back; a crash loses what is in memory. A write through a temporary file is
whole; where two files are written one after the other, the process may stop in
between. Waiting requests, entries, jobs and clocks are bounded by constants
named `...Max...`, used in guards only.

| code | module | what a step is |
|---|---|---|
| `services/tollbooth` | `TollBooth` | challenge; the checks of a request; the transaction as it is sent, and as it is confirmed: landed, failed on the chain, or not heard of; the file; a restart |
| `services/toll-booth` | `RoutePublication` | check the attestations; look the pass up; write the route; credit the points; die between the two |
| `solana/scripts/route_create.ts`, `route_sign_witness.ts`, `mint_toll_pass.ts`, `set_route.ts` | `RoutePublication` | each command; of `set_route` the part before the booth, the booth's part and the transaction |
| `services/cache-rollup`, `gateway/src/cache_log.ts` | `CacheRollup` | log, ingest; root, upload, head, reputation |
| `gateway/src/lib` (registrar, ledger, status store), its endpoints | `DomainContinuity` | a handler up to the expiry worker or the registrar, and after it |
| `gateway/src/lib/names_registration.ts`, `solana/scripts/names.ts` | `NamesRegistration` | one command of the plan; other wallets act in between |
| `packages/payments`, the payment endpoints | `Payments` | quote, checkout, look, mark |
| `gateway/src/registry.ts`, `anchor`, the registry endpoints | `GatewayRegistry` | the file is replaced, a root is anchored, an answer is given |
| ENS, SNS, IPFS adapters, `/v1/site` | `NameAdapters` | one request with what the contracts and gateways may say |
| `/resolve`, `/v1/resolve`, `/dns-query`, `/cache/upsert`, pkdns | `GatewayResolve` | read the route with its slot; the policy and the witness; the answer |
| `packages/attack-mode` | `AttackMode` | scores and transitions, as operators |
| `services/miner-witness` | `MinerWitness` | a batch is admitted and the mode computed again |
| `services/witness-gateway` | `WitnessGateway` | answer with a receipt; the two writes of a flush |
| `services/cf-demo-gateway` | `DemoGateway` | a lookup begins; each upstream answers or not; the answer is weighed and kept |
| `services/traffic-oracle` | `TrafficOracle` | a job is queued, fetched, scored, appended; the signal is asked |
| `services/hosting-control-plane` | `HostingPlane` | connect, pick, verify, write records (each call may fail apart), points, restart |
| `coordinator/src/server.ts` beside the ledger | `CoordinatorSessions` | challenge; the check and the passport call; the session; allocation; queue; restart |

### MCChain and MCServices

The programs keep their own accounts, and nothing but the clock is common to most of
them. A behaviour of all is then an interleaving in which each sees only itself, so
`Init` of `MCChain` chooses the program a behaviour is about and the accounts of the
others stay as they are. What shares state runs together: names with registrations
and with miner scores. `MCServices` does the same: the booth, the publication of
routes and the roll-up run on the anchor programs, and the publication
with the relay. `Within` names the bounds of single programs and services. A run of
either checks the properties of all of its modules, in conjunctions:

| property | its parts |
|---|---|
| `MoneyConserved` | `GovSolvent`, `GovPartsOfStake`, `StakeBacked`, `RentCovered`, `EscrowConserved`, `TollsConserved`, `RouteTollsConserved`, `OnlyOwnersEarn`, `BidsBacked` |
| `PaidOnce` | `RewardsPaidOnce`, `OperatorPaidOnce`, `NsEpochPaidOnce`, `WitnessBudgetKept` |
| `StandingEarned` | `ClaimProven`, `StatusNeedsQuorum`, `ActivatedWithStake` |
| `BooksCovered` | `LedgerReconciles`, `AllocationsCovered` |
| `RoutesWitnessed` | `StoredRoutesWitnessed`, `PublishedRoutesWitnessed` |
| `AnswersHold` | `VerifiedAtSlot`, `CacheLifeBounded`, `AnswersHonest`, `SitesFromRecords` |
| `SignInsProven` | `SessionsProven`, `SessionsCrossed`, `ChallengesUsedOnce` |
| `BoothTellsTruth` | `PassportFilesProven`, `RouteFilesBacked` |
| `PointsEarned` | `PointsReconcile`, `ActionPointsEarned` |
| `EvidenceKept` | `HeadRootOfKept`, `ReceiptsKept` |
| `RecordsSurvive` | `StoredFlagsSurvive`, `SignalsNeverGoBack` |

Checked by themselves: `VoucherPaidOnce`, `StakeEmissionBounded`, `RouteIsAggregate`,
`RouteEpochsAdvance`, `PolicyFollowsOwner`, `AuctionOrdered`, `PolicyCountsWatchdogs`,
`ReportedIsRegistered`, `PaidInTime`, `FloodFlipsMode`, `AnswersProvable`,
`RoutesOfPassHolder`. Each is stated, with the code it is about, at the end of its
module.

## 4. Runs

| run | shows | instance |
|---|---|---|
| `coordinator_receipts` | `TypeOK`, `NoOverdraft`, `CapsRespected`, `BalanceIsDerived`, `RegistryStalenessBounded` with two requests in flight | one wallet, two request slots, three envelopes (a served receipt, an audit, a forged authority signature), three ticks over two days, a registry that drops and re-adds the node |
| `coordinator_crash` | `AnsweredIsSaved`, `NoUnpaidTicket`, `TicketLifecycle` with two crashes anywhere | two tickets, bonus with a cap that one bonus reaches, three ticks |
| `toll_plugin` | `ValueConserved` | two comments, two sites, a ticket that may be used twice, two finalize requests, one node |
| `toll_settled_once` | finding 1 | as `toll_plugin` |
| `coordinator_replay` | finding 2 | as `coordinator_receipts` |
| `coordinator_ledger` | finding 3 | as `coordinator_receipts` |
| `recursive_answers` | `TypeOK`, `RefreshIsShared`, `HighIsTrue`, `AgeBounded` | one name that moves twice between two addresses, three upstreams of which one lies, a quorum of two, two concurrent requests, two faults, six seconds |
| `recursive_cache` | `CacheBounded`, `EveryRequestEnds` | two names, a cache of one entry, one upstream, two concurrent requests, two faults, five seconds |
| `recursive_stale` | finding 4 | one name that loses its last record, two upstreams, no faults |
| `chain` | the properties of the programs above, `ChainTypeOK` | two wallets, three slots, one to four names, vouchers that share a nonce, configurations that change; about 412 000 states |
| `services` | the properties of the services above, `ServicesTypeOK` | two wallets, two names, one or two requests in flight, clocks of two to seven ticks (of seconds for `GatewayResolve`); about 780 000 states |
| `miner_stability` | finding 5 | the miner witness alone, with a stability time of 3 ticks and 7 ticks in all |

Why the bounds are enough: a race needs two requests of one wallet, the undo
needs a cap that the second credit exceeds (the cap is 2, an answer pays 1), the
day has to change once while a request waits, the cache has to expire once
(lifetime 2, last tick 2), a ticket has to expire once (lifetime 1 or 0), and a
crash has to follow a restart from a partly written state (two crashes). The
receipts run has no tolls and the toll runs no receipts, because they meet only
in the balance: a spend stands for every other request that moves it. The proofs
of the coordinator remove the bounds for all its properties.

Symmetry is used over request slots, tickets and comments, which are only
compared for equality; `TicketLifecycle` is a safety property, so symmetry is
sound for it. Deadlock is not checked: with the clock, the crashes and the
tickets used up a bounded instance has nothing left to do.

For the resolver the caps are three seconds, two and one instead of 300, 120 and
30, prefetching starts two seconds before the end, and a stale answer lives one
second: in six seconds an entry is fetched, prefetched, expires, is served stale
and goes out of use, and a name can move before, during and after a refresh. One
liar of three with a quorum of two is the smallest instance in which a liar can
make or break agreement. Of two runs the first has the upstreams' whole variety
and one name, the second two names that compete for one place; their product
would be too large and would add little, since names share only the cache.
Symmetry (of requests and addresses) is used only where no liveness is checked.

No liveness is claimed of the coordinator: each request is answered by the
handler that took it, and nothing in it retries or schedules. Its specification
states no fairness.

For the programs two wallets are enough for each of the roles that the code
compares (owner and stranger, authority and miner, two bidders, two watchdogs with
a quorum of two); a third wallet is a second stranger. Three slots hold
three epochs of length one: the epoch something happens in, its end, and
the one after a cooldown. Amounts are chosen so that shares do round
(splits of 1 and 3 by a half and two quarters) and caps are exceeded by the second
report. Two vouchers share a nonce with different amounts; one is not yet valid and
one is signed by a key that leaves the allowlist. An auction has two bidders,
room for an extension and two bids each.

The routes are written by the quorum program and, under another configuration, by a
wallet that is finalize authority itself, with the reference it likes: an aggregate of
another epoch, of another name, or none at all.

For the services one domain, one user or one name suffices where requests meet
only in it; two requests in flight where one has to overtake another
(booth, relay, registrations; `GwMaxInFlight`: two renewals that both read the
balance before either debits it; `CsMaxJobs`: two answers to one challenge that wait
for the passport contract together), one where the other party is not a request (the
chain, the clock, the expiry worker). `CsBalances` holds a treasury of 3, in which
shares round, and one of 10 000, in which shares of 1.0001 in all give one unit too
much. `MwMaxTotal` leaves room for a batch of 18 receipts, one of them invalid, which
is between five and six in a hundred. `GrTtls` are 0, a TTL under the cap of 45
seconds and one over it, `GrRecords` includes the answer without records, whose minute
is longer than the cap, and `GrJumps` takes the clock past a cached life and past the
window of the attack mode; of the demo gateway's `DgTtls` one is 0, which counts as
`DgZeroTtl`. The clocks reach one tick past the longest
lifetime, the miner witness past window, minute and stability time together. The
oracle's two scans of one domain end in either order.

No fairness is stated for programs and services: an instruction that nobody sends
never happens, and no service but the resolver owes an answer to more than the request it
is serving, so all their properties are safety properties.

## 5. Findings

1. `SettledOnce`: `finalizeHold` never looks at a ticket's status
   (`coordinator/src/routes/comments.ts:126-155`), so a ticket pays out as often as it is
   finalized before its deadline; ARCHITECTURE.md:136-138 has one outcome.
2. `ReplayNotCredited`: the duplicate check answers "ok" and the caller goes on
   to credit (`coordinator/src/routes/receipts.ts:39-41`); ARCHITECTURE.md:198 counts replays
   among the rejected receipts.
3. `LedgerIntegrity`: the undo of a capped receipt writes back a balance read
   before the await (`coordinator/src/server.ts:332,345`); ARCHITECTURE.md:194-195 wants no
   balance change outside the events.
4. `StaleOnlyOnUpstreamError`: upstreams that all say there are no records count
   as failed (`gateway/src/adapters/recursive.ts:375`), so records that were
   removed are served stale; gateway/README.md:49 has stale answers only on
   upstream error.
5. `StabilityBeforeRelease`: the time of the last stable evaluation is kept through an
   attack (`packages/attack-mode/src/index.ts:159`), so the first quiet evaluation
   after a long attack goes from UNDER_ATTACK straight to NORMAL; the comment at line
   169 and docs/ATTACK_MODE.md:44-45 ask for ten stable minutes, twice.

`BalanceIsDerived` is the part of 3 that holds: without a change of the same
balance during the wait the undo is exact. `AnsweredIsSaved` excludes what the
code does not save: a refund whose bonus was refused
(`coordinator/src/server.ts:430-432`), and balances touched by the race of finding 3.

Seen while modelling, and modelled as it is, without a property of its own since no
document promises otherwise or nothing in the model tells the outcomes apart:

- the credit windows are written to `windows.json` and never read back
  (`coordinator/src/server.ts:201`): a restart gives every wallet its day's caps again;
- an audit challenge is not consumed by its answer (`coordinator/src/routes/receipts.ts:87`);
- an exit of a stake remembers the epoch of its first request for later ones
  (`solana/programs/ddns_stake_gov/src/lib.rs:320`);
- rewards of past epochs are computed from the present stake
  (`solana/programs/ddns_stake/src/lib.rs:193`), so `StakeEmissionBounded` holds only
  as long as no stake moves while rewards are owed, which is what it says;
- a slashed operator who pauses is paused, no longer slashed
  (`solana/programs/ddns_operators/src/lib.rs:258`);
- `ddns_witness_rewards` refuses a root of receipts only if it is the last one of the
  miner (`solana/programs/ddns_witness_rewards/src/lib.rs:184`);
- the weights of the oracle's score add up to less than one, so no domain scores more
  than 55 (`services/traffic-oracle/src/scoring.ts:46`), and its jobs stay queued or
  running after a restart;
- verify-domain of the hosting plane writes back the connection it read before the
  lookup (`services/hosting-control-plane/src/index.js:773`);
- the booth lists the names of a wallet by comparing it with the bytes of a name record
  from offset 40 (`services/tollbooth/src/solana.ts:483`), where the record has the label
  and not the owner (`solana/programs/ddns_anchor/src/lib.rs:490`);
- two `/auth/verify` of one challenge that both wait for the passport contract both open
  a session, because the challenge is dropped after the await
  (`coordinator/src/server.ts:264-297`); `SessionsCrossed` says that only these can;
- the validation of a policy lets shares of up to 1.0001 pass
  (`coordinator/src/server.ts:736`), so an allocation may exceed the treasury by a
  ten-thousandth, which is the bound `AllocationsCovered` states for that case;
- `withdraw_losing_bid` empties the vault of a bid and leaves the amount in the escrow
  (`solana/programs/ddns_names/src/lib.rs:317-343`): `BidsBacked` holds vault and escrow
  to be equal up to the first withdrawal, and the vault to hold no more from then on;
- a wallet that is finalize authority writes any reference to an aggregate into a route
  (`solana/programs/ddns_registry/src/lib.rs:61,85,97`), so `RouteIsAggregate` and the
  epochs of `RouteEpochsAdvance` are about what the quorum program finalized;
- the booth does not look at the error that `confirmTransaction` returns
  (`services/tollbooth/src/solana.ts:381,439`), so that a claim or a route that failed on
  the chain, as the second of two crossing claims does, is answered and written to its
  file (`services/tollbooth/src/index.ts:112`); `BoothTellsTruth` names these files as its
  exception. The roll-up treats the transaction of its head alike
  (`services/cache-rollup/src/index.ts:257`): the reputation is awarded though the head
  was not moved;
- `/dns-query` takes a first TTL of 0 for a minute and keeps an answer without records for
  a minute whatever `CACHE_TTL_MAX_S` says (`gateway/src/server.ts:901-903`), as the demo
  gateway takes an upstream's TTL of 0 for 60
  (`services/cf-demo-gateway/src/index.ts:419`);
- `/v1/site` answers 500 for a name that is not found;
- a notice token is signed with a key made at start if none is configured
  (`gateway/src/lib/notice_token.ts:24`); the nonce of a voucher is checked by the
  program, not by the gateway.

## 6. Proofs

The theorems of the first table are about `Spec` of `Coordinator` (`TicketsRefine`
about it and `TollTickets`), for all constants that satisfy `ConstantsAssumption` and
`SplitAssumption`; TLC evaluates both on every run.

| theorem | inductive invariant | why it has to be stronger |
|---|---|---|
| `TypeCorrect` | `TypeOK` | it holds the types of the files, the waiting requests and the tickets; `windows[k].used <= Cap(k)` is inductive by itself |
| `CapsCorrect` | `CapsInv`: `CapsRespected` and `WindowCounts` | the window of a day counts what was given that day, and nothing was given on days to come |
| `FundsCorrect` | `FundsInv`: `NoOverdraft`, `SavedFunds`, `WaitingFunds` | the files may become memory (Restart), and so may the balance a waiting request has read (the undo) |
| `DerivedCorrect` | `DerivedInv`: `BalanceIsDerived` and `BeforeIsCurrent` | a waiting request of a wallet that was not raced has read its present balance |
| `RegistryCorrect` | `RegistryInv`: `CacheIsRecent`, `ArrivedBefore` | the cache holds only nodes that were registered when it was loaded |
| `TicketsPaid` | `TicketInv`: `NoUnpaidTicket`, `SavedTickets` | a file written before the crash holds the same tickets as memory, issued to ids that the ledger knows |
| `AnswersSaved` | `AnsweredIsSaved`, with `TypeOK` | between requests nothing else is needed |
| `TicketsRefine` | `TicketInv` | after a restart the tickets are among those there were, with the same terms |

Those of the second are about `Spec` of `RecursiveResolver`, for all constants that
satisfy `SelectionAssumption` and `ResolverAssumption`.

| theorem | what it says |
|---|---|
| `HighCorrect` | `HighIsTrue`: with fewer liars than `quorumMin`, what is called "high" was true while its refresh ran, and is used no later than the TTL cap after that |
| `AgeCorrect` | `AgeBounded`: no answer is older than its stale limit and one refresh |
| `SharedCorrect` | `RefreshIsShared`: one refresh per name and type, and nobody waits for one that is gone |
| `ResolverTyped` | `TypeOK`: entries, refreshes and requests have their form, and every cached key its place |
| `CacheStaysBounded` | `CacheBounded`: memory and file hold no more entries than the limit, and what a refresh stored is not what it evicts |

The first three share one inductive invariant, `ResolverInv`: every entry in memory, in the
file, behind a prefetch or held by a request that waits is `Sound` (it was true,
its TTL is capped), every refresh is younger than `FlightMax`, and whoever waits
came after its refresh began. `HighCorrect` rests on two lemmas: `HighIsQuorum`, that
`selectBest` says "high" only of a group of `quorumMin` equal verdicts, and
`QuorumHasHonest`, that such a group is not within the liars. `HighIsTrue` alone is
not inductive, since an entry is served long after it was fetched and possibly
after a restart. The last two rest on `CacheInv` beside it: in memory and in the
file the places of the keys are those from one to their number, and what was fetched
is cached until the limit pushes it out. No two entries are of the same age and place
(`AgesApart`), so evicting as many as there are too many leaves exactly the limit
(`EvictionBounds`), and the newest stays.

Of the plugin, about `PSpec` of `TollPlugin` with `PluginAssumption`:

| theorem | inductive invariant | why it has to be stronger |
|---|---|---|
| `PluginIsACaller` | none: step by step | every step of the plugin is a step of the coordinator or leaves it alone, so that all theorems above hold with the plugin in front |
| `ValueIsConserved` | `TypeOK`, `PluginType`, `TicketInv`, `ValueInv` | as long as nothing crashed, the books balance and the tickets the coordinator holds are finite; a ticket that was not issued is not settled, so that an issue moves value into it and a settlement out again |

Those of the third are about the programs and services one by one: `RouteSpec` of
`RouteQuorum`, `EscrowSpec` of `Escrow`, `NamesSpec` of `Names`, `NrSpec` of
`NamesRegistration`, `WdSpec` of `WatchdogPolicy`, `AnSpec` of `Anchor`, `TbSpec` of
`TollBooth` (on top of `Anchor`) and `PaySpec` of `Payments`, with `RouteAssumption`,
`NamesAssumption`, `NrAssumption`, `WdAssumption` and `PayAssumption`.

| theorem | inductive invariant | why it has to be stronger |
|---|---|---|
| `RoutesAreAggregates` | `RouteIsAggregate` | it is about the routes that no wallet wrote since the quorum program did (`walletRoutes`), which refer to the aggregate counted last; an aggregate, once submitted, is never written again; the proof checks this for each instruction |
| `RouteEpochsOnlyAdvance` | `RouteInv`: types, `EpochsBegun` | an aggregate is counted only in its own epoch, so none that was counted may be of an epoch that has not begun, whatever wallets wrote to the route; division by the epoch length is monotone (`EpochsGrow`) |
| `VouchersPaidOnce` | `EscrowInv` | what was paid left its nonce account behind |
| `PolicyIsTheOwners` | `PolicyInv` | the owner of a name is written in two accounts: the invariant gives both accounts their fields, so that a write of one is not lost in the other |
| `AuctionsOrdered` | `BidsInv` | an escrow exists only with its auction, so that a new auction begins without bids, and bids are numbers |
| `RegistrationsAreMade` | `NrInv`: `SubsInv`, `JobDone` of every job, `ReportedIsRegistered` | a job under way has made what the commands before its own make, and nobody takes a name or its token away: a job that resumes a plan finds the parts it skips |
| `ClientsOfNames` | none: step by step | the commands and the registration service only send instructions of the names program, so `PolicyIsTheOwners` and `AuctionsOrdered` hold with them |
| `WatchdogsCounted` | `WdInv` | no mark is of an epoch later than the one its name's policy counts, so that the counts of a new epoch begin without marks; the set of marks is finite |
| `RoutesArePassHolders` | `RoutesOfPassHolder` | a pass, once issued, is never written again (`PassesKept`) |
| `PassportFilesAreProven` | `FilesInv`: `PassportFilesProven`, `RequestProven`, `RouteFileProven` | a request that found a pass, or heard of one that was made, and is about to write the file, holds one that is on the chain; one that did not notice a failure is marked, and so is the file it writes |
| `BidsAreBacked` | `BidsBacked` with the types of vaults and escrows | a vault is made with its escrow and its rent; bids add to both, and only a withdrawal parts them |
| `PaymentsInTime` | `PayInv` | a checkout belongs to a quote with its rail, and an expired quote has no open checkout |

Those of the fourth are about all programs at work at once. `ProgramsSpec`
(`RewardProofs`) puts no bounds on them: in a step each program takes one of its own
or none, or the clock moves. `RunOfPrograms` shows that `Spec` of `MCChain` is one of
its behaviours: its `Within` bounds only leave steps out. The constants satisfy the
assumption of each program; what they ask is that the wallets are finitely many, that
amounts and lengths are numbers, that the configurations in the run have the types of
their accounts, and that names and wallets are different things.

| theorem | inductive invariant | why it has to be stronger |
|---|---|---|
| `MoneyIsConserved` | `ProgramsInv`, one part per program (`GovAccounts`, `StakeInv`, `RentInv`, `EscrowMoneyInv`, `RwInv`, `NsInv`, `WrInv`, `DrInv`) | a vault holds the sum of what the accounts say: the sum needs finitely many accounts, each with its fields and its numbers, and configurations that are made once |
| `RewardsArePaidOnce` | the same (`RwInv`, `ScoreInv`, `OpInv`, `NsInv`, `WrInv`) | what was paid left a claim or a mark behind, a mark is of an epoch that has begun, and the shares of an epoch add up to no more than its budget |
| `EmissionIsBounded` | `StakeEmission` in `StakeInv` | what was minted is not bounded by itself; what was minted *and is still owed* is: minted * total + rate * (sum over positions of staked * epochs since the last claim) is within rate * epoch * total, as long as no stake moves while something is owed |
| `StandingIsEarned` | `ProgramsInv` | an action property: the step from one status to the next is read off the invariant and the instruction |
| `RunOfNamesAndRoutes` | none: step by step | the run of all programs is one of `RouteSpec`, `EscrowSpec`, `NrSpec` and `WdSpec`, so the theorems of the third table hold in it |
| `ChainIsTyped` | `RouteTypeOK`, `NamesTypeOK`, `WdTypeOK` and `ProgramsInv` | the types of accounts that refer to others need those others: a policy to its premium name, a claim to its vault, a route to its aggregate |

Sums are those of the community module `Functions`, whose fold is recursive. `SumTheorems`
proves what the others need (a sum changes by what changed in one place; sums
are monotone; a new place adds its value) by
induction over sets of sets: the set of those subsets for which the equation holds has
the empty one, and has every subset that it has without one of its elements, so it
has them all (`ElementInduction`; the library's `FS_Induction` takes an operator and
is out of reach).

Those of the fifth are about `Spec` of `MCServices`, in which one service is chosen at
the start and runs with whatever it stands on. For each service there is a lemma
that a step of the run is one of its own or leaves it alone; the bounds of the run
only leave steps out, and no proof uses them. The assumptions on the constants
(`AnAssumption`, `TbAssumption`, `CrAssumption`, `RpAssumption`, `GwAssumption`,
`RgAssumption` and those of the other services) give arguments the types that the
instructions and the parsers give them, and make owners and signers wallets.

| theorem | inductive invariant | why it has to be stronger |
|---|---|---|
| `SigningInIsProven` | `SessionsInv`, `LoginsInv`, `ChallengesInv` | a sign-in that waits for the RPC answered in time, and a cached passport expires a fixed time after it was seen; the challenge behind a session is no longer pending, and an answer that waits came before any session of its challenge; a nonce of the booth is pending, in one request, or spent |
| `BoothAnswersAgree` | `FilesInv` | as above, also with other clients of the anchor program: neither a pass nor a route record is ever removed (`AnchorKept`) |
| `PassesAreForGood` | none: step by step | an action property: only a claim or a purchase makes passes, and both only create accounts |
| `EvidenceIsKept` | `RollupInv`, `ReceiptsInv` | a roll-up that waits holds a first part of the log that is kept; while a flush is between its writes the spool is in a batch |
| `PointsAreEarned` | `EventsInv`, `HostingInv` | the totals are sums over the events, and each event's key is used; a check under way found the records it has ticked off |
| `RoutesAreWitnessed` | `RelayInv`, `PublishedInv` | a submission that waits for its passport was attested before it waited; a job that goes to the chain has its route in the store, which only grows |
| `FloodsFlipTheMode` | `MinerInv` | the mode is that of the window: every batch ends with the mode computed again from whole and part, not from a rounded percentage; no more receipts are invalid than there are, and nothing isolates this service |
| `AnswersAreHeld` | `ResolveInv`, `SitesFromRecords`, `DemoInv` | a request that waits carries a life within the longest of its kind (`LongestLife`) and a route read at its slot; a payload in the cache is within what its upstreams gave |
| `BooksAreCovered` | `LedgerInv`, `TreasuryInv` | the balance is the seed and the log, and subsidies are within what renewals cost; the parts of an allocation, each rounded down, are within their shares, whose sum the validation bounds |
| `RecordsDoSurvive` | `StoreInv`, `ResultsInv` | an action property: entries and results keep their form, no result is of a later time |
| `AnswersAreProvable` | `RegistryInv` | the file and the copy of it hold sortable names; sorting gives each entry one place and leaves no place empty (`SortedPlaces`), so the first leaf of a name is its first entry (`FirstLeaf`) |
| `ServicesAreTyped` | `ServicesInv`: `PassesTyped`, `RepTyped`, `HeadsTyped`, `BoothTyped` and the invariants above | what a caller sends must be typed before it is an account: a claim that is about to be sent has a mint, the award of a roll-up counts entries it kept, and the configuration whose cap bounds the points is made once |

Each theorem is proved from `Init`, one lemma per action that can disturb the
invariant, and one `PTL` step. The violation runs refute their properties, so there is
nothing to prove about them. What stays with TLC:

- `EveryRequestEnds`: liveness is out of the prover's reach.
- What a recursive sort, filter or fold computes, for inputs of any length. The modules
  under proof therefore say which elements of a list there are and where they stand
  (`EntriesAt`, `GrantsOf`, `Sorted`, the places of `RecursiveResolver`), where the
  code sorts or filters. The folds that remain are in Merkle roots, on both sides of a
  comparison: that `buildProof` makes a proof that `verifyProof` accepts, and that roots
  of different records differ, is checked on the snapshots of the run (an answer is
  given only after `VerifyProof`, and the theorem uses that).

## 7. Not modelled

- The core protocol library and `packages/sdk`: encodings and a thin client; what makes
  them right is about bytes.
- The legacy resolver build, labs and registry contracts: generated, stubs, or outside
  the running system.
- `cf-worker-miner` and the BrightData agents: they pass requests on and keep nothing.
- Of the gateway: the request limiter by fixed windows, the audit log, `/v1/status`, the
  HTML pages, the fetch behind each Porkbun call, the bytes of a notice token.
- Of the plugin: the free tickets of wallets with a reputation, the mock mode and the
  pages for nodes.
- Of the resolver: a clock that goes back, upstreams listed twice, and entries of the
  file written by an older version.
- Fractional credits, and a stop in the middle of a write of the gateway's domain status
  store or of the mock registrar's file; the credits ledger is replaced by a rename.

PROJECT.json gives the reason for each component and lists the hazards no property
covers.
