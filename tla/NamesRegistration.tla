-------------------------- MODULE NamesRegistration --------------------------
(* The clients of the names program: the commands of solana/scripts/names.ts *)
(* and the gateway's registration service (gateway/src/lib/                  *)
(* names_registration.ts), which checks that a name is free, then runs two   *)
(* or three of those commands in turn with the wallet of the server.         *)
EXTENDS Names, Sequences

CONSTANTS
  NrWallet,  \* the wallet of the server
  NrAsked,   \* names asked for: records mode, name (premium), label, parent
  NrConfigs, \* the service: records deployed, writeEnabled
  NrJobs     \* the requests under way

\* The server parses the names it is asked for: <label>.dns or <label>.<parent>.dns.
ASSUME NrAssumption ==
  /\ NrWallet \in Keys
  /\ \A asked \in NrAsked :
       IF asked.mode = "premium" THEN asked.name \in PremiumNames
       ELSE asked.label \in Labels /\ asked.parent \in PremiumNames \cup {Zone}

VARIABLES nrConfig, nrRunning, nrReport
nrVars == <<nrConfig, nrRunning, nrReport>>

-----------------------------------------------------------------------------
\* The commands, each one transaction of the wallet k.  The treasury comes out
\* of the configuration, which therefore must be there.

CliInitConfig(subdomains, premiums) == InitNamesConfig(subdomains, premiums)
CliInitPremiumConfig(k) == InitPremiumConfig(k)

\* Any parent may be named; the program knows the zone only.
CliClaimSub(k, label, parent) ==
  namesConfig # None /\ parent = Zone /\ ClaimSubdomain(k, label)

CliBuyPremium(k, n) == namesConfig # None /\ PurchasePremium(n, k)
CliBindPremiumNft(k, n, mint) == BindPremiumNft(n, k, mint)
CliIssuePremiumNft(k, n) == IssuePremiumNft(n, k)
CliSyncPremiumOwner(n, holder) == SyncPremiumOwnerFromNft(n, holder)
CliIssueSubNft(k, label, parent) == IssueSubdomainNft(<<parent, label>>, k)
CliCreateAuction(k, n, duration) == n \in PremiumNames /\ CreateAuction(k, n, duration)
CliBid(k, n, lamports) == lamports > 0 /\ PlaceBid(n, k, lamports)
CliWithdrawLosingBid(k, n) == WithdrawLosingBid(n, k)

\* The wallet that runs the command is the winner it names.
CliSettleAuction(k, n) == namesConfig # None /\ SettleAuction(n, k)

\* A name under the zone is looked up by its first label, whatever stands
\* between it and the zone; any other name is taken for a premium one.
PrimaryMeant(asked) ==
  IF asked.mode = "premium" THEN asked.name ELSE <<Zone, asked.label>>
CliSetPrimary(k, asked) ==
  /\ asked.mode = "subdomain" => asked.parent \notin PremiumNames
  /\ SetPrimaryName(k, PrimaryMeant(asked))

NamesCli ==
  \/ \E s, p \in BOOLEAN : CliInitConfig(s, p)
  \/ \E k \in Keys : CliInitPremiumConfig(k)
  \/ \E k \in Keys, n \in PremiumNames :
       \/ CliBuyPremium(k, n) \/ CliIssuePremiumNft(k, n) \/ CliSyncPremiumOwner(n, k)
       \/ CliWithdrawLosingBid(k, n) \/ CliSettleAuction(k, n)
       \/ \E m \in DOMAIN tokens : CliBindPremiumNft(k, n, m)
       \/ \E d \in AuctionSlots : CliCreateAuction(k, n, d)
       \/ \E b \in Bids : CliBid(k, n, b)
  \/ \E k \in Keys, l \in Labels, p \in PremiumNames \cup {Zone} :
       CliClaimSub(k, l, p) \/ CliIssueSubNft(k, l, p)
  \/ \E k \in Keys, asked \in NrAsked : CliSetPrimary(k, asked)

-----------------------------------------------------------------------------
\* The registration service.

NotRunning == [at |-> 0]
NoReport == [ok |-> FALSE, executed |-> FALSE, reason |-> "none"]

NrInit ==
  /\ nrConfig \in NrConfigs
  /\ nrRunning = [j \in NrJobs |-> NotRunning]
  /\ nrReport = NoReport

\* getNamesAvailability reads the program, its configuration and the account
\* of the name.  The first two are never removed.
Taken(asked) == IF asked.mode = "premium" THEN Exists(premium, asked.name)
                ELSE Exists(subNames, <<asked.parent, asked.label>>)
Availability(asked) ==
  CASE ~nrConfig.deployed -> "ddns_names_program_not_deployed"
    [] nrConfig.deployed /\ namesConfig = None -> "names_config_not_initialized"
    [] nrConfig.deployed /\ namesConfig # None /\ Taken(asked) -> "taken"
    [] OTHER -> "available"

\* buildRegistrationPlan
BuildRegistrationPlan(asked, setPrimary) ==
  (IF asked.mode = "premium" THEN <<"buy-premium", "issue-premium-nft">>
                             ELSE <<"claim-sub", "issue-sub-nft">>)
  \o (IF setPrimary THEN <<"set-primary">> ELSE <<>>)

Report(ok, executed, reason, asked) ==
  [ok |-> ok, executed |-> executed, reason |-> reason, asked |-> asked]

\* POST /v1/names/register, up to the first command.
Register(j, asked, setPrimary, execute, admin) ==
  /\ nrRunning[j] = NotRunning
  /\ IF Availability(asked) = "available" /\ execute /\ nrConfig.writeEnabled /\ admin
     THEN /\ nrRunning' = [nrRunning EXCEPT ![j] =
               [at |-> 1, asked |-> asked,
                plan |-> BuildRegistrationPlan(asked, setPrimary)]]
          /\ UNCHANGED nrReport
     ELSE /\ nrReport' =
               CASE Availability(asked) # "available" ->
                      Report(FALSE, FALSE, Availability(asked), asked)
                 [] Availability(asked) = "available" /\ ~execute ->
                      Report(TRUE, FALSE, "available", asked)
                 [] OTHER -> Report(FALSE, FALSE, "refused", asked)
          /\ UNCHANGED nrRunning
  /\ UNCHANGED <<nrConfig, namesVars>>

\* The command at which job j stands.
PlanStep(j) ==
  LET asked == nrRunning[j].asked
      command == nrRunning[j].plan[nrRunning[j].at]
  IN CASE command = "buy-premium"       -> CliBuyPremium(NrWallet, asked.name)
       [] command = "issue-premium-nft" -> CliIssuePremiumNft(NrWallet, asked.name)
       [] command = "claim-sub"     -> CliClaimSub(NrWallet, asked.label, asked.parent)
       [] command = "issue-sub-nft" -> CliIssueSubNft(NrWallet, asked.label, asked.parent)
       [] command = "set-primary"   -> CliSetPrimary(NrWallet, asked)

\* executeRegistrationPlan: a command that works leads to the next one, or to
\* the report; one that fails, for whatever reason, ends the plan there.  What
\* was done is not undone.
StepWorks(j) ==
  /\ nrRunning[j] # NotRunning /\ PlanStep(j)
  /\ IF nrRunning[j].at < Len(nrRunning[j].plan)
     THEN /\ nrRunning' = [nrRunning EXCEPT ![j].at = @ + 1]
          /\ UNCHANGED nrReport
     ELSE /\ nrRunning' = [nrRunning EXCEPT ![j] = NotRunning]
          /\ nrReport' = Report(TRUE, TRUE, "executed", nrRunning[j].asked)
  /\ UNCHANGED nrConfig

StepFailsMut(j) ==
  /\ nrRunning[j] # NotRunning
  /\ IF nrRunning[j].at < Len(nrRunning[j].plan)
     THEN nrRunning' = [nrRunning EXCEPT ![j].at = @ + 1] /\ UNCHANGED nrReport
     ELSE /\ nrRunning' = [nrRunning EXCEPT ![j] = NotRunning]
          /\ nrReport' = Report(TRUE, TRUE, "executed", nrRunning[j].asked)
  /\ UNCHANGED <<nrConfig, namesVars>>
StepFails(j) ==
  /\ nrRunning[j] # NotRunning
  /\ nrRunning' = [nrRunning EXCEPT ![j] = NotRunning]
  /\ nrReport' = Report(FALSE, TRUE, "failed", nrRunning[j].asked)
  /\ UNCHANGED <<nrConfig, namesVars>>

NrNext ==
  \/ \E j \in NrJobs :
       \/ \E asked \in NrAsked, p, x, a \in BOOLEAN : Register(j, asked, p, x, a)
       \/ StepWorks(j) \/ StepFails(j)
  \/ NamesCli /\ UNCHANGED nrVars

\* The service and the commands, with whatever others do to names meanwhile.
NrSpec ==
  /\ ChainInit /\ NamesInit /\ NrInit
  /\ [][\/ (NrNext \/ (NamesNext /\ UNCHANGED nrVars)) /\ UNCHANGED slot
        \/ NewSlot /\ UNCHANGED <<namesVars, nrVars>>]_<<slot, namesVars, nrVars>>

-----------------------------------------------------------------------------
\* What a registration reports as done is done: the name was made and its
\* token minted, once, though between the commands other wallets buy, transfer,
\* bind and sync names and a second request for the name may be running.
ReportedIsRegistered ==
  nrReport.ok /\ nrReport.executed =>
    LET asked == nrReport.asked
    IN IF asked.mode = "premium"
       THEN Exists(premium, asked.name) /\ Exists(tokens, NameMint(asked.name))
       ELSE /\ Exists(subNames, <<asked.parent, asked.label>>)
            /\ subNames[<<asked.parent, asked.label>>].nft
=============================================================================
