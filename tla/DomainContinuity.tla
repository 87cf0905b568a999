-------------------------- MODULE DomainContinuity --------------------------
(* The continuity side of the gateway: the registrar adapter, the continuity *)
(* credits ledger, the store of domain statuses and the endpoints that read  *)
(* one of them, wait for the expiry worker or the registrar and write        *)
(* another.  A handler is one step up to its first await on the network and  *)
(* one step after each; awaits that only queue a microtask are no steps.     *)
(* Dates are whole days.  The stored verified_control and abuse_flag are     *)
(* left out: no handler ever sets them to anything but false, and so is the  *)
(* stored status itself, which no handler reads back.                        *)
EXTENDS Integers, FiniteSets

CONSTANTS
  GwDomains,     \* the domains that are asked about
  GwSeeds,       \* domain -> the registrar's record at first
  GwDryRun,      \* domain -> the record a registrar in dry run makes up
  GwConfigs,     \* the configurations: provider, "mock", "porkbun" or "dry_run",
                 \* and worker, the answers of the expiry worker ({} without one)
  NoDate,        \* stands for an absent date, signal or stored input
  GwJumps,       \* the numbers of days that may pass at once
  GwMaxDay,      \* bound: the last day
  GwAmounts,     \* the amounts an administrator credits or debits
  GwMaxCredits,  \* bound: the sum of the credits granted
  GwMaxRenewals, \* bound: a domain renewed this often is not renewed again,
                 \* but for what waits already
  GwMaxInFlight  \* bound: the requests that wait at the same time

\* The balances of the ledger's first file, and credit() and debit() throw
\* invalid_amount unless the amount is positive.  Days only pass.
ASSUME GwAssumption ==
  /\ (\A d \in GwDomains : GwSeeds[d].credits \in Nat) /\ GwAmounts \subseteq Nat \ {0}
  /\ GwMaxDay \in Nat /\ GwJumps \subseteq Nat /\ GwMaxInFlight \in Nat

VARIABLES gwConfig, gwDay, registrar, ledger, ledgerLog, domainStore,
          gwInFlight, renewedUntil
gwVars == <<gwConfig, gwDay, registrar, ledger, ledgerLog, domainStore,
            gwInFlight, renewedUntil>>

\* estimateRenewalSubsidy prices every renewal alike.
RenewalCost == 110
Phases == {"A_SOFT_WARNING", "B_HARD_WARNING", "HOLD_BANNER", "C_SAFE_PARKED",
           "D_REGISTRY_FINALIZATION"}
UnknownDomain == [status |-> "unknown", due |-> NoDate, ns |-> FALSE,
                  traffic |-> "none", credits |-> 0]
EmptyEntry == [inputs |-> NoDate, claim |-> FALSE, challenge |-> FALSE,
               acked |-> FALSE]
NoWorkerAnswer == [due |-> NoDate, traffic |-> NoDate, treasury |-> TRUE]

GwInit ==
  /\ gwConfig \in GwConfigs
  /\ gwDay = 0
  /\ registrar = GwSeeds
  /\ ledger = [d \in GwDomains |-> GwSeeds[d].credits]
  /\ ledgerLog = [d \in GwDomains |->
                    [credited |-> 0, debited |-> 0, subsidies |-> 0]]
  /\ domainStore = [d \in GwDomains |-> EmptyEntry]
  /\ gwInFlight = {}
  /\ renewedUntil = [d \in GwDomains |-> [count |-> 0, until |-> -1000]]

\* The first operand that is present.
Either(x, y) == IF x = NoDate THEN y ELSE x

--------------------------------------------------------------------------
(* The policy *)

BasePhase(due) ==
  CASE due - gwDay >= 7 -> "A_SOFT_WARNING"
    [] due - gwDay \in 0 .. 6 -> "B_HARD_WARNING"
    [] due - gwDay \in -30 .. -1 -> "C_SAFE_PARKED"
    [] OTHER -> "D_REGISTRY_FINALIZATION"

HoldEligible(traffic, ns) == traffic = "real" /\ ns

PolicyPhase(due, traffic, ns) ==
  IF due < gwDay /\ HoldEligible(traffic, ns) THEN "HOLD_BANNER"
                                              ELSE BasePhase(due)

CreditsEstimate(traffic, ns) ==
  CASE ~ns -> 0
    [] ns /\ traffic = "real" -> 40
    [] ns /\ traffic = "low" -> 15
    [] OTHER -> 5

--------------------------------------------------------------------------
(* The registrar adapters and the ledger *)

GetDomain(d) == IF gwConfig.provider = "dry_run" THEN GwDryRun[d] ELSE registrar[d]

\* getRenewalQuote, in credits: ten to the dollar.
QuoteInCredits(d) == IF GetDomain(d).status = "expired" THEN 140 ELSE 110

Covered(d) == IF ledger[d] < RenewalCost THEN ledger[d] ELSE RenewalCost

\* What the adapter's renewDomain answers.
RenewalSubmitted(d, years) ==
  /\ years >= 1
  /\ gwConfig.provider = "mock" => registrar[d].status # "unknown"

\* What a renewal changes at the registrar: the mock takes the price of one
\* year from its own credits whatever the number of years and the amount the
\* gateway passes, the dry run changes nothing.
RegistrarRenews(d, years, useCredits) ==
  IF gwConfig.provider = "dry_run" THEN UNCHANGED registrar ELSE
  registrar' = [registrar EXCEPT
    ![d].status = "active",
    ![d].due = gwDay + 365 * years,
    ![d].credits =
       IF gwConfig.provider # "mock" \/ ~useCredits THEN @
       ELSE IF @ < QuoteInCredits(d) THEN 0 ELSE @ - QuoteInCredits(d)]

NoteRenewal(d, years) ==
  renewedUntil' = [renewedUntil EXCEPT
    ![d] = [count |-> @.count + 1, until |-> gwDay + 365 * years]]

\* (For the mutation check: overdrawing.)
CanDebitMut(d, amount) == amount > 0

\* creditsLedger.debit: FALSE when it throws.
CanDebit(d, amount) == amount > 0 /\ ledger[d] >= amount
DebitLedger(d, amount) ==
  IF CanDebit(d, amount)
  THEN ledger' = [ledger EXCEPT ![d] = @ - amount]
  ELSE UNCHANGED ledger

--------------------------------------------------------------------------
(* What a handler computes from what it read *)

\* Requests that read the same are still two requests.
FreshId ==
  CHOOSE i \in 1 .. GwMaxInFlight + 1 : \A r \in gwInFlight : r.id # i

\* What a handler reads before it waits: the stored inputs, else the
\* registrar's record.
Snapshot(kind, d) ==
  LET stored == domainStore[d].inputs
      reg    == GetDomain(d)
  IN [id      |-> FreshId, kind |-> kind, domain |-> d,
      ns      |-> IF stored = NoDate THEN reg.ns ELSE stored.ns,
      traffic |-> IF stored = NoDate THEN reg.traffic ELSE stored.traffic,
      due     |-> IF stored = NoDate THEN reg.due ELSE stored.due]

DueOf(r, answer) == Either(answer.due, Either(r.due, gwDay + 20))
TrafficOf(r, answer) == Either(answer.traffic, r.traffic)

\* continuityStatusFromSources on a snapshot and the worker's answer.
ContinuityStatus(r, answer) ==
  LET due == DueOf(r, answer)
      traffic == TrafficOf(r, answer)
      cost == IF QuoteInCredits(r.domain) > RenewalCost
              THEN QuoteInCredits(r.domain) ELSE RenewalCost
  IN [phase    |-> PolicyPhase(due, traffic, r.ns),
      due      |-> due,
      covered  |-> ledger[r.domain] >= cost,
      hold     |-> r.ns,
      estimate |-> IF r.ns THEN CreditsEstimate(traffic, r.ns) ELSE 0,
      banner   |-> IF gwDay >= due THEN "renewal_due" ELSE "ok"]

\* The status the gateway would give of a domain now.
StatusNow(d) == ContinuityStatus(Snapshot("status", d), NoWorkerAnswer)

--------------------------------------------------------------------------
(* The endpoints *)

\* (For the mutation check: the whole entry is written.)
StatusDoneMut(r, answer) ==
  /\ domainStore' = [domainStore EXCEPT ![r.domain] = [EmptyEntry EXCEPT !.inputs =
       [ns |-> r.ns, traffic |-> r.traffic,
        due |-> Either(r.due, ContinuityStatus(r, answer).due)]]]
  /\ UNCHANGED <<gwConfig, gwDay, registrar, ledger, ledgerLog, renewedUntil>>

\* GET /v1/domain/status, after the worker: the inputs that are stored are
\* those read before the wait.
StatusDone(r, answer) ==
  /\ domainStore' = [domainStore EXCEPT ![r.domain].inputs =
       [ns |-> r.ns, traffic |-> r.traffic,
        due |-> Either(r.due, ContinuityStatus(r, answer).due)]]
  /\ UNCHANGED <<gwConfig, gwDay, registrar, ledger, ledgerLog, renewedUntil>>

\* POST /v1/domain/continuity/claim, after the worker.
ClaimDone(r, answer) ==
  /\ domainStore' = [domainStore EXCEPT ![r.domain].claim = TRUE]
  /\ UNCHANGED <<gwConfig, gwDay, registrar, ledger, ledgerLog, renewedUntil>>

\* POST /v1/domain/renew, after the worker: refused when the worker refuses
\* the treasury, else the registrar is asked and the ledger pays.  The mock
\* and the dry run answer at once.
RenewDone(r, answer) ==
  LET d == r.domain
      apply == IF r.useCredits THEN Covered(d) ELSE 0
      submitted == RenewalSubmitted(d, r.years)
  IN IF (r.useCredits /\ ~answer.treasury) \/ ~submitted
     THEN UNCHANGED <<gwConfig, gwDay, registrar, ledger, ledgerLog, domainStore,
                      renewedUntil>>
     ELSE /\ RegistrarRenews(d, r.years, r.useCredits)
          /\ NoteRenewal(d, r.years)
          /\ DebitLedger(d, apply)
          /\ ledgerLog' = [ledgerLog EXCEPT
               ![d].subsidies = @ + IF CanDebit(d, apply) THEN apply ELSE 0]
          /\ UNCHANGED <<gwConfig, gwDay, domainStore>>

\* What an endpoint does once it has the worker's answer.
Finish(r, answer) ==
  CASE r.kind = "status" -> StatusDone(r, answer)
    [] r.kind = "claim" -> ClaimDone(r, answer)
    [] r.kind = "renew" -> RenewDone(r, answer)

\* An endpoint that asks the worker waits for it, or goes on at once when no
\* worker is configured.
AskWorker(r) ==
  IF gwConfig.worker = {} THEN Finish(r, NoWorkerAnswer) /\ UNCHANGED gwInFlight
  ELSE /\ Cardinality(gwInFlight) < GwMaxInFlight
       /\ gwInFlight' = gwInFlight \cup {r}
       /\ UNCHANGED <<gwConfig, gwDay, registrar, ledger, ledgerLog, domainStore,
                      renewedUntil>>

DomainStatus == \E d \in GwDomains : AskWorker(Snapshot("status", d))
ContinuityClaim == \E d \in GwDomains : AskWorker(Snapshot("claim", d))
DomainRenew ==
  /\ gwConfig.provider # "porkbun"
  /\ \E d \in GwDomains, years \in {-1, 1}, useCredits \in BOOLEAN :
       /\ renewedUntil[d].count < GwMaxRenewals
       /\ AskWorker([id |-> FreshId, kind |-> "renew", domain |-> d,
                     years |-> years, useCredits |-> useCredits])

\* The live provider takes its time: the amount is fixed before the renewal
\* is sent, and the ledger is debited when the answer comes.  (The worker's
\* refusal comes before and is modelled with the other adapters.)
DomainRenewSent ==
  /\ gwConfig.provider = "porkbun"
  /\ Cardinality(gwInFlight) < GwMaxInFlight
  /\ \E d \in GwDomains, useCredits \in BOOLEAN :
       /\ renewedUntil[d].count < GwMaxRenewals
       /\ gwInFlight' = gwInFlight \cup
            {[id |-> FreshId, kind |-> "registrar", domain |-> d,
              useCredits |-> useCredits,
              apply |-> IF useCredits THEN Covered(d) ELSE 0]}
       /\ UNCHANGED <<gwConfig, gwDay, registrar, ledger, ledgerLog, domainStore,
                      renewedUntil>>

\* The provider renews and says so; the debit may fail by now.
DomainRenewAnswered ==
  \E r \in gwInFlight :
    /\ r.kind = "registrar"
    /\ gwInFlight' = gwInFlight \ {r}
    /\ RegistrarRenews(r.domain, 1, r.useCredits)
    /\ NoteRenewal(r.domain, 1)
    /\ DebitLedger(r.domain, r.apply)
    /\ ledgerLog' = [ledgerLog EXCEPT ![r.domain].subsidies =
         @ + IF CanDebit(r.domain, r.apply) THEN r.apply ELSE 0]
    /\ UNCHANGED <<gwConfig, gwDay, domainStore>>

\* The provider refuses, or its answer is lost after it has renewed: the
\* handler throws and nothing is debited.
DomainRenewFailed ==
  \E r \in gwInFlight, renewed \in BOOLEAN :
    /\ r.kind = "registrar"
    /\ gwInFlight' = gwInFlight \ {r}
    /\ IF renewed THEN RegistrarRenews(r.domain, 1, r.useCredits)
                  ELSE UNCHANGED registrar
    /\ UNCHANGED <<gwConfig, gwDay, ledger, ledgerLog, domainStore, renewedUntil>>

\* The worker answers, or fails, which counts as an empty answer.
WorkerAnswers ==
  \E r \in gwInFlight, answer \in gwConfig.worker \cup {NoWorkerAnswer} :
    /\ r.kind # "registrar"
    /\ gwInFlight' = gwInFlight \ {r}
    /\ Finish(r, answer)

\* POST /v1/registrar/renew: only when the registrar's own credits cover it.
RegistrarRenew ==
  /\ gwConfig.provider # "porkbun"
  /\ \E d \in GwDomains, years \in 1 .. 2 :
       /\ renewedUntil[d].count < GwMaxRenewals
       /\ QuoteInCredits(d) * years <= GetDomain(d).credits
       /\ RenewalSubmitted(d, years)
       /\ RegistrarRenews(d, years, TRUE)
       /\ NoteRenewal(d, years)
  /\ UNCHANGED <<gwConfig, gwDay, ledger, ledgerLog, domainStore, gwInFlight>>

\* POST /v1/registrar/ns with two servers at least; toll says whether one of
\* them is tolldns.io's.
RegistrarNs ==
  /\ \E d \in GwDomains, toll \in BOOLEAN :
       IF gwConfig.provider = "dry_run" THEN UNCHANGED registrar
       ELSE registrar' = [registrar EXCEPT ![d].ns = toll]
  /\ UNCHANGED <<gwConfig, gwDay, ledger, ledgerLog, domainStore, gwInFlight, renewedUntil>>

CreditsCredit ==
  /\ \E d \in GwDomains, amount \in GwAmounts :
       /\ ledgerLog[d].credited + amount <= GwMaxCredits
       /\ ledger' = [ledger EXCEPT ![d] = @ + amount]
       /\ ledgerLog' = [ledgerLog EXCEPT ![d].credited = @ + amount]
  /\ UNCHANGED <<gwConfig, gwDay, registrar, domainStore, gwInFlight, renewedUntil>>

CreditsDebit ==
  /\ \E d \in GwDomains, amount \in GwAmounts :
       /\ CanDebit(d, amount)
       /\ DebitLedger(d, amount)
       /\ ledgerLog' = [ledgerLog EXCEPT ![d].debited = @ + amount]
  /\ UNCHANGED <<gwConfig, gwDay, registrar, domainStore, gwInFlight, renewedUntil>>

DomainVerify ==
  /\ \E d \in GwDomains :
       domainStore' = [domainStore EXCEPT ![d].challenge = TRUE]
  /\ UNCHANGED <<gwConfig, gwDay, registrar, ledger, ledgerLog, gwInFlight, renewedUntil>>

BannerAck ==
  /\ \E d \in GwDomains :
       domainStore' = [domainStore EXCEPT ![d].acked = TRUE]
  /\ UNCHANGED <<gwConfig, gwDay, registrar, ledger, ledgerLog, gwInFlight, renewedUntil>>

DaysPass ==
  /\ \E n \in GwJumps : gwDay + n <= GwMaxDay /\ gwDay' = gwDay + n
  /\ UNCHANGED <<gwConfig, registrar, ledger, ledgerLog, domainStore, gwInFlight,
                 renewedUntil>>

GwNext ==
  \/ DomainStatus \/ ContinuityClaim \/ WorkerAnswers \/ DomainRenew
  \/ DomainRenewSent \/ DomainRenewAnswered \/ DomainRenewFailed
  \/ RegistrarRenew \/ RegistrarNs \/ CreditsCredit \/ CreditsDebit
  \/ DomainVerify \/ BannerAck \/ DaysPass
GwSpec == GwInit /\ [][GwNext]_gwVars

--------------------------------------------------------------------------
(* Properties *)

\* The ledger file says what its entries say, is never overdrawn although
\* the amount of a subsidy is fixed before an await, in which another renewal
\* of the domain may take the same credits, and no more subsidies are taken
\* than renewals were submitted.
LedgerReconciles ==
  \A d \in GwDomains :
    /\ ledger[d] = GwSeeds[d].credits + ledgerLog[d].credited
                   - ledgerLog[d].debited - ledgerLog[d].subsidies
    /\ ledger[d] >= 0
    /\ ledgerLog[d].subsidies <= RenewalCost * renewedUntil[d].count

\* What one request wrote to a domain's entry is not undone by another that
\* read the entry before: upsert merges into the entry it reads itself.
StoredFlagsSurvive ==
  [][\A d \in GwDomains :
       /\ domainStore[d].claim => domainStore'[d].claim
       /\ domainStore[d].acked => domainStore'[d].acked
       /\ domainStore[d].challenge => domainStore'[d].challenge]_domainStore
=============================================================================
