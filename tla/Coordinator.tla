---------------------------- MODULE Coordinator ----------------------------
(***************************************************************************)
(* The credits coordinator (coordinator/src/server.ts and its routes): one *)
(* Node.js process that keeps a credits ledger, pays nodes for signed      *)
(* receipts, takes refundable tolls for comments, and saves itself to      *)
(* DATA_DIR after each accepted request.                                   *)
(*                                                                         *)
(* A handler runs without interruption between its awaits, so each action  *)
(* is one uninterrupted stretch of a handler.  POST /receipts awaits one   *)
(* or two signature checks: SubmitReceipt, CheckSignature, CheckAuthority. *)
(* saveState writes its files one after the other, and the process may die *)
(* between two of them or in the middle of one: see SaveState.             *)
(*                                                                         *)
(* The variables of the last group are history variables: the code keeps   *)
(* no such state, the properties are about them.                           *)
(***************************************************************************)
EXTENDS Integers, Sequences, FiniteSets

CONSTANTS
  Wallets,           \* wallets and node ids: the keys of the ledger
  Passports,         \* state.passports, fixed at start
  Sites,             \* comment sites
  Tickets,           \* names for the random hold ids
  Verifications,     \* names for the random node verification ids
  AuditIds,          \* names for the random audit challenge ids
  Reqs,              \* slots for concurrent POST /receipts requests
  Envelopes,         \* the signed receipt envelopes nodes may send
  ServeCredits, VerifyCredits, StoreCredits,
  HasResolverKey,    \* RESOLVER_PUBKEY_HEX is set
  AllowUnverifiedServe,
  DailyCreditCap, BonusDailyCap, PoolDailyCap,
  MaxPerMinute, MaxPerMinuteWallet, MaxPerMinuteSite,
  WalletCooldown, HoldTtl, AuditTtl, VerificationTtl, RegistryTtl,
  Minute, DayLength, \* a rate window and a day, in clock ticks
  BonusMax,
  SplitNum, SplitDen, \* POOL_FORFEIT_SPLIT = SplitNum / SplitDen
  MaxSiteReceipts,   \* the receipts list of a site is cut to this length
  Amounts,           \* amounts of the holds and spends that are tried
  Multipliers,       \* bonus multipliers the plugin sends
  InitLedger, InitPools, \* what DATA_DIR holds when the process first starts
  RegistryNodes,     \* the wallets that others enter into the registry
  MaxTime, MaxSettle, MaxCrashes, \* bounds of the model
  Torn               \* content of a file whose write was cut short

ReceiptTypes == {"SERVE", "VERIFY", "STORE"}

\* What the handlers read of an envelope: the id hashes the receipt alone;
\* sigOk, auth and hashOk are the verdicts of the checks it will meet.
EnvelopeType ==
  [id : STRING, node : Wallets, type : ReceiptTypes, sigOk : BOOLEAN,
   auth : {"none", "good", "bad"}, audit : AuditIds, hashOk : BOOLEAN]

ASSUME ConstantsAssumption ==
  /\ Passports \subseteq Wallets /\ RegistryNodes \subseteq Wallets
  /\ Envelopes \subseteq EnvelopeType
  /\ HasResolverKey \in BOOLEAN /\ AllowUnverifiedServe \in BOOLEAN
  /\ ServeCredits \in Nat /\ VerifyCredits \in Nat /\ StoreCredits \in Nat
  /\ DailyCreditCap \in Nat /\ BonusDailyCap \in Nat /\ PoolDailyCap \in Nat
  /\ MaxPerMinute \in Nat /\ MaxPerMinuteWallet \in Nat
  /\ MaxPerMinuteSite \in Nat
  /\ WalletCooldown \in Nat /\ HoldTtl \in Nat /\ AuditTtl \in Nat
  /\ VerificationTtl \in Nat /\ RegistryTtl \in Nat \ {0}
  /\ Minute \in Nat /\ DayLength \in Nat \ {0}
  /\ BonusMax \in Nat /\ MaxSiteReceipts \in Nat
  /\ MaxTime \in Nat /\ MaxSettle \in Nat /\ MaxCrashes \in Nat
  /\ Amounts \subseteq Nat \ {0} /\ Multipliers \subseteq Nat
  /\ InitLedger \in [Wallets -> Nat] /\ InitPools \in [Sites -> Nat]

\* The share of a forfeited toll that goes to the site pool.  JavaScript
\* numbers are fractional: the amounts are chosen so that the share is exact.
ASSUME SplitAssumption ==
  /\ SplitNum \in Nat /\ SplitDen \in Nat \ {0} /\ SplitNum <= SplitDen
  /\ \A a \in Amounts : (a * SplitNum) % SplitDen = 0

VARIABLES
  \* the environment
  now,          \* Date.now(), in ticks
  registry,     \* nodes with a NODE_PUBKEY record in the registry snapshot
  \* the process and its disk
  up, disk, crashes,
  \* in memory
  credits, receipts, nodePubkeys, registryLoadedAt, challenges,
  inflight,     \* POST /receipts requests waiting for a signature check
  rates,        \* state.rate, comments.walletRate, comments.siteRate
  windows,      \* creditWindows, bonusWindows, poolWindows
  holds, cooldown, pools, treasury, siteReceipts, verifications,
  \* history
  given,        \* what each capped account received per day in this run
  net,          \* each wallet's balance as derived from the answers given
  raced,        \* wallets whose balance moved during one of their receipts
  issued, settled, \* tickets ever created; how often each was finalized
  replayed,     \* a receipt was credited twice
  unsaved,      \* a request was refused after it had changed saved state
  leftAt        \* when each node last left the registry

envVars == <<now, registry, leftAt>>
procVars == <<up, disk, crashes, unsaved>>
ledgerVars == <<credits, net, raced>>
receiptVars ==
  <<receipts, nodePubkeys, registryLoadedAt, challenges, inflight, replayed>>
capVars == <<rates, windows, given>>
holdVars == <<holds, cooldown, issued, settled>>
poolVars == <<pools, treasury, siteReceipts, verifications>>
vars == <<envVars, procVars, ledgerVars, receiptVars, capVars, holdVars,
          poolVars>>

-----------------------------------------------------------------------------
(* Daily caps and per-minute rates.                                        *)

Today == now \div DayLength
Days == {t \div DayLength : t \in 0..MaxTime}

CapKeys == ({"credit", "bonus"} \X Wallets) \cup ({"pool"} \X Sites)
RateKeys == ({"receipt", "wallet"} \X Wallets) \cup ({"site"} \X Sites)

Cap(k) == CASE k[1] = "credit" -> DailyCreditCap
            [] k[1] = "bonus" -> BonusDailyCap
            [] OTHER -> PoolDailyCap
RateMax(k) == CASE k[1] = "receipt" -> MaxPerMinute
                [] k[1] = "wallet" -> MaxPerMinuteWallet
                [] OTHER -> MaxPerMinuteSite

\* A window of an earlier day is emptied when it is next looked at.
RolledMut(win) == [day |-> Today, used |-> 0]
Rolled(win) == IF win.day = Today THEN win ELSE [day |-> Today, used |-> 0]
FitsMut(k, delta) == Rolled(windows[k]).used <= Cap(k)
Fits(k, delta) == Rolled(windows[k]).used + delta <= Cap(k)
Charge(k, delta) ==
  /\ windows' = [windows EXCEPT ![k] =
                   [day |-> Today, used |-> Rolled(@).used + delta]]
  /\ given' = [given EXCEPT ![k][Today] = @ + delta]
Refuse(k) ==
  /\ windows' = [windows EXCEPT ![k] = Rolled(@)]
  /\ UNCHANGED given

\* One more request in the minute window of k.  Above the limit every count
\* acts alike, so it stops there.
Bumped(k) ==
  LET r == IF now - rates[k].start > Minute
           THEN [count |-> 0, start |-> now] ELSE rates[k]
  IN  [r EXCEPT !.count = IF @ > RateMax(k) THEN @ ELSE @ + 1]
Limited(k) == Bumped(k).count > RateMax(k)

\* A Map entry that does not exist yet.
NoWindow == [day |-> 0, used |-> 0]
NoRate == [count |-> 0, start |-> -Minute - 1]
NoCooldown == -WalletCooldown

EmptyMap == [x \in {} |-> x]
Put(f, k, v) == [x \in DOMAIN f \cup {k} |-> IF x = k THEN v ELSE f[x]]

-----------------------------------------------------------------------------
(* The files of DATA_DIR that loadState reads back, in saveState's order.  *)

FileOrderMut == <<"holds", "ledger", "pools", "treasury", "receipts">>
FileOrder == <<"ledger", "holds", "pools", "treasury", "receipts">>
Files == {"ledger", "holds", "pools", "treasury", "receipts"}

\* The tickets field of the ledger is history: the holds it was debited for.
Stores ==
  [f \in Files |-> CASE f = "ledger" -> [balance |-> credits, tickets |-> issued]
                    [] f = "holds" -> holds
                    [] f = "pools" -> pools
                    [] f = "treasury" -> treasury
                    [] f = "receipts" -> siteReceipts]

\* The process dies while it writes file k: the files before it are new, and
\* file k is untouched or, writeFileSync not being atomic, cut short.
DieInSave(new) ==
  /\ crashes < MaxCrashes
  /\ crashes' = crashes + 1
  /\ up' = FALSE
  /\ \E k \in 1..Len(FileOrder), torn \in BOOLEAN :
       disk' = [f \in Files |->
                 IF \E i \in 1..(k - 1) : FileOrder[i] = f THEN new[f]
                 ELSE IF torn /\ FileOrder[k] = f THEN Torn ELSE disk[f]]

\* The trailing saveState() of a handler, followed by its 200 answer.
SaveStateMut == unsaved' = FALSE /\ UNCHANGED <<up, disk, crashes>>
SaveState ==
  /\ unsaved' = FALSE
  /\ \/ disk' = Stores' /\ UNCHANGED <<up, crashes>>
     \/ DieInSave(Stores')

\* A request refused before saveState is reached.
NoSave(dirty) ==
  /\ unsaved' = (unsaved \/ dirty)
  /\ UNCHANGED <<up, disk, crashes>>

Crash ==
  /\ up /\ crashes < MaxCrashes
  /\ up' = FALSE /\ crashes' = crashes + 1
  /\ UNCHANGED <<disk, unsaved, envVars, ledgerVars, receiptVars, capVars,
                 holdVars, poolVars>>

\* What a read of the registry snapshot yields: its nodes, or none when the
\* file cannot be read.
Snapshots == {registry, {}}

Load(file, fallback) == IF disk[file] = Torn THEN fallback ELSE disk[file]

\* loadState and refreshNodePubkeys(true) of a new process.  Receipts, the
\* windows, the rates and every challenge start empty.
Restart ==
  /\ ~up /\ up' = TRUE
  /\ credits' = Load("ledger", [balance |-> [w \in Wallets |-> 0]]).balance
  /\ holds' = Load("holds", EmptyMap)
  /\ pools' = Load("pools", [s \in Sites |-> 0])
  /\ treasury' = Load("treasury", 0)
  /\ siteReceipts' = Load("receipts", [s \in Sites |-> 0])
  /\ nodePubkeys' \in Snapshots /\ registryLoadedAt' = now
  /\ receipts' = {} /\ challenges' = EmptyMap /\ verifications' = EmptyMap
  /\ inflight' = {}
  /\ rates' = [k \in RateKeys |-> NoRate]
  /\ windows' = [k \in CapKeys |-> NoWindow]
  /\ cooldown' = [w \in Wallets |-> NoCooldown]
  /\ given' = [k \in CapKeys |-> [d \in Days |-> 0]]
  /\ net' = credits' /\ raced' = {}
  /\ unsaved' = (\E f \in Files : disk[f] = Torn)
  /\ UNCHANGED <<disk, crashes, envVars, issued, settled, replayed>>

-----------------------------------------------------------------------------
(* The ledger.                                                             *)

\* Wallet w's balance becomes b, for a request that answers that it changed
\* by delta; other is the set of receipts still waiting.
SetBalance(w, b, delta, other) ==
  /\ credits' = [credits EXCEPT ![w] = b]
  /\ raced' = IF \E r \in other : r.env.node = w THEN raced \cup {w} ELSE raced
  /\ net' = [net EXCEPT ![w] = @ + delta]

\* The guard of spendCredits and createHold against an overdraft.
CoveredMut(w, a) == credits[w] + 1 >= a
Covered(w, a) == credits[w] >= a

\* POST /credits/spend by the holder of a session of w.
Spend(w, a) ==
  /\ up /\ Covered(w, a)
  /\ SetBalance(w, credits[w] - a, -a, inflight)
  /\ UNCHANGED <<envVars, receiptVars, capVars, holdVars, poolVars>>
  /\ SaveState

-----------------------------------------------------------------------------
(* POST /receipts.                                                         *)

CreditDelta(type) == CASE type = "SERVE" -> ServeCredits
                       [] type = "VERIFY" -> VerifyCredits
                       [] OTHER -> StoreCredits

RefreshNodePubkeysMut == UNCHANGED <<nodePubkeys, registryLoadedAt>>
RefreshNodePubkeys ==
  IF now - registryLoadedAt < RegistryTtl
  THEN UNCHANGED <<nodePubkeys, registryLoadedAt>>
  ELSE nodePubkeys' \in Snapshots /\ registryLoadedAt' = now

Await(q, e) ==
  inflight' = inflight \cup
    {[req |-> q, env |-> e, before |-> credits[e.node], at |-> now,
      stage |-> "signature"]}

\* From the arrival of the envelope to its first await.  A receipt seen
\* before skips the rate limit and goes on like any other.
SubmitReceipt(q, e) ==
  LET k == <<"receipt", e.node>> IN
  /\ up /\ \A r \in inflight : r.req # q
  /\ RefreshNodePubkeys
  /\ \/ /\ e.node \notin Passports \cup nodePubkeys'
        /\ UNCHANGED <<rates, inflight>>
     \/ /\ e.node \in Passports \cup nodePubkeys'
        /\ e.id \in receipts
        /\ Await(q, e) /\ UNCHANGED rates
     \/ /\ e.node \in Passports \cup nodePubkeys'
        /\ e.id \notin receipts
        /\ rates' = [rates EXCEPT ![k] = Bumped(k)]
        /\ IF Limited(k) THEN UNCHANGED inflight ELSE Await(q, e)
  /\ UNCHANGED <<envVars, procVars, ledgerVars, receipts, challenges,
                 replayed, windows, given, holdVars, poolVars>>

Reject(r) ==
  /\ up /\ inflight' = inflight \ {r}
  /\ UNCHANGED <<envVars, procVars, ledgerVars, receipts, nodePubkeys,
                 registryLoadedAt, challenges, replayed, capVars, holdVars,
                 poolVars>>

\* The balance after the undo of a credit over the cap.
UndoneMut(r) == credits[r.env.node] + CreditDelta(r.env.type)
Undone(r) == r.before

\* The credit, the daily cap, and the undo when the cap is exceeded: the
\* balance goes back to what it was before the await.
Apply(r) ==
  LET w == r.env.node
      k == <<"credit", w>>
      delta == CreditDelta(r.env.type)
      rest == inflight \ {r}
  IN
  /\ inflight' = rest
  /\ UNCHANGED <<envVars, nodePubkeys, registryLoadedAt, challenges, rates,
                 holdVars, poolVars>>
  /\ \/ /\ Fits(k, delta)
        /\ SetBalance(w, credits[w] + delta, delta, rest)
        /\ receipts' = receipts \cup {r.env.id}
        /\ replayed' = (replayed \/ r.env.id \in receipts)
        /\ Charge(k, delta)
        /\ SaveState
     \/ /\ ~Fits(k, delta)
        /\ credits' = [credits EXCEPT ![w] = Undone(r)]
        /\ receipts' = receipts \ {r.env.id}
        /\ Refuse(k)
        /\ NoSave(FALSE)
        /\ UNCHANGED <<net, raced, replayed>>

\* The VERIFY branch looks its challenge up after the await, and leaves it
\* there for the next receipt.
AuditPassed(e) ==
  /\ e.audit \in DOMAIN challenges
  /\ challenges[e.audit].wallet = e.node
  /\ challenges[e.audit].expiresAt >= now
  /\ e.hashOk

NeedsAuthority(e) == e.type = "SERVE" /\ HasResolverKey /\ e.auth # "none"
Payable(e) ==
  /\ e.sigOk
  /\ e.type = "SERVE" => AllowUnverifiedServe
  /\ e.type = "VERIFY" => AuditPassed(e)

\* verifyReceiptSignature has answered.
CheckSignature(r) ==
  /\ up /\ r.stage = "signature"
  /\ \/ /\ r.env.sigOk /\ NeedsAuthority(r.env)
        /\ inflight' = (inflight \ {r}) \cup {[r EXCEPT !.stage = "authority"]}
        /\ UNCHANGED <<envVars, procVars, ledgerVars, receipts, nodePubkeys,
                       registryLoadedAt, challenges, replayed, capVars,
                       holdVars, poolVars>>
     \/ ~NeedsAuthority(r.env) /\ Payable(r.env) /\ Apply(r)
     \/ ~(r.env.sigOk /\ (NeedsAuthority(r.env) \/ Payable(r.env)))
        /\ Reject(r)

\* verifyEd25519Message has answered for the resolver's signature.
CheckAuthority(r) ==
  /\ up /\ r.stage = "authority"
  /\ IF r.env.auth = "good" THEN Apply(r) ELSE Reject(r)

\* POST /audits/challenge by the admin.
AuditChallenge(c, w) ==
  /\ up /\ c \notin DOMAIN challenges
  /\ challenges' = Put(challenges, c, [wallet |-> w, expiresAt |-> now + AuditTtl])
  /\ UNCHANGED <<envVars, procVars, ledgerVars, receipts, nodePubkeys,
                 registryLoadedAt, inflight, replayed, capVars, holdVars,
                 poolVars>>

-----------------------------------------------------------------------------
(* Comment tolls: POST /comments/hold, /comments/submit,                   *)
(* /comments/finalize, all sent by a site that knows the site token.       *)

LiveMut(t) == t \in DOMAIN holds
Live(t) == t \in DOMAIN holds /\ holds[t].expiresAt >= now

GrantHold(w, s, a, t) ==
  /\ SetBalance(w, credits[w] - a, -a, inflight)
  /\ cooldown' = [cooldown EXCEPT ![w] = now]
  /\ holds' = Put(holds, t, [wallet |-> w, site |-> s, amount |-> a,
                             status |-> "held", expiresAt |-> now + HoldTtl])
  /\ issued' = issued \cup {t}
  /\ UNCHANGED settled
  /\ SaveState

\* createHold: a refused request still counts against the rates it passed.
CreateHold(w, s, a, t) ==
  LET kw == <<"wallet", w>>
      ks == <<"site", s>>
  IN
  /\ up /\ t \notin issued
  /\ UNCHANGED <<envVars, receiptVars, windows, given, poolVars>>
  /\ \/ /\ Limited(kw)
        /\ rates' = [rates EXCEPT ![kw] = Bumped(kw)]
        /\ UNCHANGED <<procVars, ledgerVars, holdVars>>
     \/ /\ ~Limited(kw)
        /\ rates' = [rates EXCEPT ![kw] = Bumped(kw), ![ks] = Bumped(ks)]
        /\ IF Limited(ks) \/ now - cooldown[w] < WalletCooldown
              \/ ~Covered(w, a)
           THEN UNCHANGED <<procVars, ledgerVars, holdVars>>
           ELSE GrantHold(w, s, a, t)

\* submitHold: whatever the ticket's status was.
SubmitHold(t) ==
  /\ up /\ Live(t)
  /\ holds' = [holds EXCEPT ![t].status = "submitted"]
  /\ UNCHANGED <<envVars, ledgerVars, receiptVars, capVars, cooldown, issued,
                 settled, poolVars>>
  /\ SaveState

\* The settled hold: finalizeHold sets the status and the handler then takes
\* the site from the request.
Finalized(t, result, s) == [holds[t] EXCEPT !.status = result, !.site = s]

LogFor(s) ==
  siteReceipts' = [siteReceipts EXCEPT ![s] =
                     IF @ < MaxSiteReceipts THEN @ + 1 ELSE @]

\* The multiplier the request asks for, cut to the maximum.
Bonus(amount, multiplier) ==
  LET m == IF multiplier < BonusMax THEN multiplier ELSE BonusMax
  IN  IF m > 1 THEN amount * (m - 1) ELSE 0

\* The refund, without a bonus.
Refund(t, s) ==
  LET h == holds[t] IN
  /\ SetBalance(h.wallet, credits[h.wallet] + h.amount, h.amount, inflight)
  /\ UNCHANGED <<pools, windows, given>>
  /\ LogFor(s) /\ SaveState

\* The refund stands when the bonus is refused, but nothing is saved.
RefundBonusRefused(t) ==
  LET h == holds[t] IN
  /\ SetBalance(h.wallet, credits[h.wallet] + h.amount, h.amount, inflight)
  /\ Refuse(<<"bonus", h.wallet>>)
  /\ NoSave(TRUE)
  /\ UNCHANGED <<pools, siteReceipts>>

\* The bonus is charged to the day's cap even if the pool cannot pay it.
RefundWithBonus(t, s, bonus) ==
  LET h == holds[t]
      paid == IF pools[s] >= bonus THEN bonus ELSE 0
  IN
  /\ SetBalance(h.wallet, credits[h.wallet] + h.amount + paid,
                h.amount + paid, inflight)
  /\ pools' = [pools EXCEPT ![s] = @ - paid]
  /\ Charge(<<"bonus", h.wallet>>, bonus)
  /\ LogFor(s) /\ SaveState

Settleable(t) == up /\ Live(t) /\ settled[t] < MaxSettle
MarkSettled(t) == settled' = [settled EXCEPT ![t] = @ + 1]

\* Whatever the ticket's status was: nothing looks at it.
FinalizeApproved(t, s, multiplier) ==
  LET bonus == Bonus(holds[t].amount, multiplier)
      fits == Fits(<<"bonus", holds[t].wallet>>, bonus)
  IN
  /\ Settleable(t) /\ MarkSettled(t)
  /\ holds' = Put(holds, t, Finalized(t, "approved", s))
  /\ UNCHANGED <<envVars, receiptVars, rates, cooldown, issued,
                 treasury, verifications>>
  /\ \/ bonus = 0 /\ Refund(t, s)
     \/ bonus > 0 /\ ~fits /\ RefundBonusRefused(t)
     \/ bonus > 0 /\ fits /\ RefundWithBonus(t, s, bonus)

PoolShare(amount) == (amount * SplitNum) \div SplitDen
TreasuryShareMut(amount) == (amount * SplitNum) \div SplitDen
TreasuryShare(amount) == amount - PoolShare(amount)

FinalizeForfeit(t, s, result) ==
  /\ Settleable(t) /\ MarkSettled(t)
  /\ holds' = Put(holds, t, Finalized(t, result, s))
  /\ pools' = [pools EXCEPT ![s] = @ + PoolShare(holds[t].amount)]
  /\ treasury' = treasury + TreasuryShare(holds[t].amount)
  /\ UNCHANGED <<envVars, ledgerVars, receiptVars, capVars, cooldown, issued,
                 verifications>>
  /\ LogFor(s) /\ SaveState

-----------------------------------------------------------------------------
(* POST /node/verify and /node/receipts: the site pool earns one credit    *)
(* per receipt of a verified node, as often as it is sent.                 *)

NodeVerify(v, s) ==
  /\ up /\ v \notin DOMAIN verifications
  /\ verifications' =
       Put(verifications, v, [site |-> s, expiresAt |-> now + VerificationTtl])
  /\ UNCHANGED <<envVars, procVars, ledgerVars, receiptVars, capVars, holdVars,
                 pools, treasury, siteReceipts>>

\* The node's key is looked up in the registry file itself.
NodeReceipt(v, s, node) ==
  LET k == <<"pool", s>> IN
  /\ up /\ v \in DOMAIN verifications
  /\ verifications[v].expiresAt >= now /\ verifications[v].site = s
  /\ node \in registry
  /\ UNCHANGED <<envVars, credits, net, raced, receiptVars, rates, holdVars,
                 treasury, verifications>>
  /\ \/ /\ Fits(k, 1) /\ Charge(k, 1)
        /\ pools' = [pools EXCEPT ![s] = @ + 1]
        /\ LogFor(s) /\ SaveState
     \/ /\ ~Fits(k, 1) /\ Refuse(k) /\ NoSave(FALSE)
        /\ UNCHANGED <<pools, siteReceipts>>

-----------------------------------------------------------------------------
(* The environment: time, and the registry that others maintain.           *)

Tick ==
  /\ now < MaxTime /\ now' = now + 1
  /\ UNCHANGED <<registry, leftAt, procVars, ledgerVars, receiptVars, capVars,
                 holdVars, poolVars>>

RegistryChange(w) ==
  /\ registry' = IF w \in registry THEN registry \ {w} ELSE registry \cup {w}
  /\ leftAt' = IF w \in registry THEN [leftAt EXCEPT ![w] = now] ELSE leftAt
  /\ UNCHANGED <<now, procVars, ledgerVars, receiptVars, capVars, holdVars,
                 poolVars>>

Init ==
  /\ now = 0 /\ registry \in SUBSET RegistryNodes
  /\ leftAt = [w \in Wallets |-> -RegistryTtl]
  /\ up = TRUE /\ crashes = 0 /\ unsaved = FALSE
  /\ credits = InitLedger /\ pools = InitPools /\ treasury = 0
  /\ holds = EmptyMap /\ siteReceipts = [s \in Sites |-> 0]
  /\ receipts = {} /\ challenges = EmptyMap /\ verifications = EmptyMap
  /\ nodePubkeys \in Snapshots /\ registryLoadedAt = now
  /\ inflight = {}
  /\ rates = [k \in RateKeys |-> NoRate]
  /\ windows = [k \in CapKeys |-> NoWindow]
  /\ cooldown = [w \in Wallets |-> NoCooldown]
  /\ given = [k \in CapKeys |-> [d \in Days |-> 0]]
  /\ net = credits /\ raced = {} /\ replayed = FALSE
  /\ issued = {} /\ settled = [t \in Tickets |-> 0]
  /\ disk = Stores

ReceiptNext ==
  \/ \E q \in Reqs, e \in Envelopes : SubmitReceipt(q, e)
  \/ \E r \in inflight : CheckSignature(r) \/ CheckAuthority(r)
  \/ \E c \in AuditIds, w \in Wallets : AuditChallenge(c, w)

TollNext ==
  \/ \E w \in Wallets, s \in Sites, a \in Amounts, t \in Tickets :
       CreateHold(w, s, a, t)
  \/ \E t \in DOMAIN holds : SubmitHold(t)
  \/ \E t \in DOMAIN holds, s \in Sites, m \in Multipliers :
       FinalizeApproved(t, s, m)
  \/ \E t \in DOMAIN holds, s \in Sites, result \in {"spam", "trash"} :
       FinalizeForfeit(t, s, result)

PoolNext ==
  \/ \E v \in Verifications, s \in Sites : NodeVerify(v, s)
  \/ \E v \in Verifications, s \in Sites, w \in Wallets : NodeReceipt(v, s, w)

EnvNext ==
  \/ Tick \/ Crash \/ Restart
  \/ \E w \in RegistryNodes : RegistryChange(w)

Next ==
  \/ ReceiptNext \/ TollNext \/ PoolNext \/ EnvNext
  \/ \E w \in Wallets, a \in Amounts : Spend(w, a)

Spec == Init /\ [][Next]_vars

-----------------------------------------------------------------------------
(* Properties.                                                             *)

Hold == [wallet : Wallets, site : Sites, amount : Amounts,
         status : {"held", "submitted", "approved", "spam", "trash"},
         expiresAt : Int]
Request == [req : Reqs, env : Envelopes, before : Int, at : Int,
            stage : {"signature", "authority"}]
HoldsType(f) == \A t \in DOMAIN f : t \in Tickets /\ f[t] \in Hold
LedgerFile == [balance : [Wallets -> Int], tickets : SUBSET Tickets]

EnvType ==
  now \in 0..MaxTime /\ registry \subseteq Wallets /\ leftAt \in [Wallets -> Int]
DiskType ==
  /\ DOMAIN disk = Files
  /\ disk["ledger"] = Torn \/ disk["ledger"] \in LedgerFile
  /\ disk["holds"] = Torn \/ HoldsType(disk["holds"])
  /\ disk["pools"] = Torn \/ disk["pools"] \in [Sites -> Int]
  /\ disk["treasury"] = Torn \/ disk["treasury"] \in Int
  /\ disk["receipts"] = Torn \/ disk["receipts"] \in [Sites -> Nat]
ProcType ==
  up \in BOOLEAN /\ crashes \in Nat /\ unsaved \in BOOLEAN /\ DiskType
LedgerType ==
  /\ credits \in [Wallets -> Int] /\ net \in [Wallets -> Int]
  /\ raced \subseteq Wallets
ReceiptType ==
  /\ nodePubkeys \subseteq Wallets /\ registryLoadedAt \in Int
  /\ inflight \subseteq Request /\ replayed \in BOOLEAN
CapType ==
  /\ rates \in [RateKeys -> [count : Nat, start : Int]]
  /\ \A k \in RateKeys : rates[k].count <= RateMax(k) + 1
  /\ windows \in [CapKeys -> [day : Nat, used : Nat]]
  /\ \A k \in CapKeys : windows[k].used <= Cap(k)
  /\ given \in [CapKeys -> [Days -> Nat]]
HoldType ==
  /\ HoldsType(holds) /\ cooldown \in [Wallets -> Int]
  /\ issued \subseteq Tickets /\ settled \in [Tickets -> Nat]
PoolType ==
  /\ pools \in [Sites -> Int] /\ treasury \in Int
  /\ siteReceipts \in [Sites -> Nat]

\* Every variable has its type, no window is ever filled past its cap and no
\* rate counter runs away: server.ts's state and DATA_DIR.
TypeOK == /\ EnvType /\ ProcType /\ LedgerType /\ ReceiptType /\ CapType
          /\ HoldType /\ PoolType

\* No wallet and no pool is ever overdrawn, in memory or on disk, whatever
\* runs while a receipt waits and wherever a crash falls: the guards of
\* spendCredits, createHold and the bonus, and the undo of POST /receipts.
NoOverdraft ==
  /\ \A w \in Wallets : credits[w] >= 0
  /\ \A s \in Sites : pools[s] >= 0
  /\ treasury >= 0

\* In one run of the process no wallet is paid more for receipts in a day
\* than DAILY_CREDIT_CAP, or more bonus than COMMENTS_BONUS_DAILY_CAP, and no
\* site pool earns more from node receipts than POOL_DAILY_CAP, however the
\* requests interleave: applyDailyCap, applyBonusCap, applyPoolCap.
CapsRespected == \A k \in CapKeys, d \in Days : given[k][d] <= Cap(k)

\* As long as nothing moved a wallet's balance while one of its receipts was
\* waiting, the balance is what the coordinator's answers say: the undo of a
\* capped receipt takes away that credit and nothing else.
BalanceIsDerived == \A w \in Wallets \ raced : credits[w] = net[w]

\* A node whose receipt is being processed has a passport, or was in the
\* registry less than REGISTRY_TTL before its request came: the cache of
\* refreshNodePubkeys never admits a node on older information.
RegistryStalenessBounded ==
  \A r \in inflight : \/ r.env.node \in Passports \cup registry
                      \/ leftAt[r.env.node] > r.at - RegistryTtl

\* Between two requests the files hold what memory holds: what was answered
\* with 200 survives a crash.  The exceptions are a refused bonus, whose
\* refund is not saved, and a balance overwritten by a racing undo.
AnsweredIsSaved ==
  up /\ ~unsaved /\ raced = {} =>
    /\ disk["ledger"].balance = credits /\ disk["holds"] = holds
    /\ disk["pools"] = pools /\ disk["treasury"] = treasury
    /\ disk["receipts"] = siteReceipts

\* A ticket on disk was paid for on disk: no crash inside saveState leaves a
\* ticket that can be refunded next to a ledger without its debit.
NoUnpaidTicket ==
  disk["holds"] # Torn /\ disk["ledger"] # Torn =>
    DOMAIN disk["holds"] \subseteq disk["ledger"].tickets

\* The ticket as the abstract specification sees it.
Tolls == INSTANCE TollTickets WITH
  Ids <- Tickets, Terms <- Wallets \X Amounts, Deadlines <- Int,
  clock <- now, settlements <- settled,
  tickets <- [t \in DOMAIN holds |->
               [terms |-> <<holds[t].wallet, holds[t].amount>>,
                deadline |-> holds[t].expiresAt,
                status |-> holds[t].status]]

\* createHold, submitHold and finalizeHold, with the crashes and restarts of
\* the process, implement TollTickets.
TicketLifecycle == Tolls!TSpec

\* ARCHITECTURE.md: a finalized toll is refunded or forfeited.  No ticket pays
\* out a second time.
SettledOnce == \A t \in Tickets : settled[t] <= 1

\* ARCHITECTURE.md: no balance changes outside the events, and the balances
\* derived from them match the ledger.  The same with no exception for a
\* balance that moved while a receipt of its wallet was waiting.
LedgerIntegrity == \A w \in Wallets : credits[w] = net[w]

\* ARCHITECTURE.md: replayed receipts are rejected.  No receipt is credited
\* a second time by one run of the process.
ReplayNotCredited == ~replayed

=============================================================================
