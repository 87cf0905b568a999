--------------------------- MODULE WatchdogPolicy ---------------------------
(***************************************************************************)
(* The watchdog policy program (solana/programs/ddns_watchdog_policy):     *)
(* listed watchdogs, or submitters for them, report on names; once enough  *)
(* of them did so in an epoch, the counts of the epoch decide whether the  *)
(* name is well, suspect or quarantined.                                   *)
(***************************************************************************)
EXTENDS SolanaChain

CONSTANTS WdConfigs,    \* arguments of init_policy_config
          WdThresholds, \* <<warn, quarantine>> of update_thresholds
          WdAllowlists, \* <<watchdogs, submitters>> of set_allowlists
          WdAuthority,  \* who signs init_policy_config
          WdNames,      \* names reported on
          WdMaxReports  \* bound on the reports of a name in an epoch

WdConfigType ==
  [epochLen: Nat, minWatchdogs: Nat, warn: Nat, quarantine: Nat,
   watchdogs: SUBSET Keys, submitters: SUBSET Keys]
ASSUME WdAssumption ==
  /\ WdConfigs \subseteq WdConfigType /\ None \notin WdConfigType
  /\ \A t \in WdThresholds : t[1] \in Nat /\ t[2] \in Nat
  /\ \A a \in WdAllowlists : a[1] \subseteq Keys /\ a[2] \subseteq Keys

VARIABLES wdConfig,   \* PolicyConfig, None before init
          wdState,    \* WatchdogState: enabled, by watchdog
          wdPolicy,   \* NamePolicyState by name
          wdLogs,     \* AttestationLog by <<epoch, name>>
          wdMarks     \* AttestationMark: <<epoch, name, watchdog>>

wdVars == <<wdConfig, wdState, wdPolicy, wdLogs, wdMarks>>

WdInit ==
  /\ wdConfig = None /\ wdState = NoAccounts /\ wdPolicy = NoAccounts
  /\ wdLogs = NoAccounts /\ wdMarks = {}

WdInitConfig(k, c) ==
  /\ wdConfig = None /\ k = WdAuthority
  /\ c.epochLen > 0 /\ c.minWatchdogs > 0
  /\ c.warn <= c.quarantine /\ c.quarantine <= BpsDenom
  /\ wdConfig' = c /\ UNCHANGED <<wdState, wdPolicy, wdLogs, wdMarks>>

WdAuthoritySigns(k) == wdConfig # None /\ k = WdAuthority

\* The watchdog is named twice: the list is asked for the argument, the state
\* that changes is that of the account.
SetWatchdogEnabled(k, w, arg, enabled) ==
  /\ WdAuthoritySigns(k) /\ arg \in wdConfig.watchdogs
  /\ wdState' = Created(wdState, w, enabled)
  /\ UNCHANGED <<wdConfig, wdPolicy, wdLogs, wdMarks>>

UpdateThresholds(k, t) ==
  /\ WdAuthoritySigns(k) /\ t[1] <= t[2] /\ t[2] <= BpsDenom
  /\ wdConfig' = [wdConfig EXCEPT !.warn = t[1], !.quarantine = t[2]]
  /\ UNCHANGED <<wdState, wdPolicy, wdLogs, wdMarks>>

SetAllowlists(k, a) ==
  /\ WdAuthoritySigns(k)
  /\ wdConfig' = [wdConfig EXCEPT !.watchdogs = a[1], !.submitters = a[2]]
  /\ UNCHANGED <<wdState, wdPolicy, wdLogs, wdMarks>>

WdEpoch == EpochOf(wdConfig.epochLen)

NamePolicyState(e) ==
  [status |-> "ok", epoch |-> e, ok |-> 0, fail |-> 0, mismatch |-> 0,
   distinct |-> 0, penalty |-> 0, ttlCap |-> 0]

\* The state of a name as a report of epoch e finds it: its counts are those of
\* one epoch, its status and its TTL cap are not reset.
PolicyAt(n, e) ==
  IF Vacant(wdPolicy, n) THEN NamePolicyState(e)
  ELSE IF wdPolicy[n].epoch = e THEN wdPolicy[n]
  ELSE [wdPolicy[n] EXCEPT !.epoch = e, !.ok = 0, !.fail = 0, !.mismatch = 0, !.distinct = 0]

AttestationLog == [ok |-> 0, fail |-> 0, mismatch |-> 0, distinct |-> 0]

LogAt(e, n) == IF Exists(wdLogs, <<e, n>>) /\ e # 0 THEN wdLogs[<<e, n>>] ELSE AttestationLog

MarkNewMut(e, n, w) == TRUE
\* An account whose epoch is 0 looks new, and in epoch 0 each one does.
MarkNew(e, n, w) == e = 0 \/ <<e, n, w>> \notin wdMarks

Counted(counts, verdict, new) ==
  [counts EXCEPT !.ok = @ + (IF verdict = "ok" THEN 1 ELSE 0),
                 !.fail = @ + (IF verdict = "fail" THEN 1 ELSE 0),
                 !.mismatch = @ + (IF verdict = "mismatch" THEN 1 ELSE 0),
                 !.distinct = @ + (IF new THEN 1 ELSE 0)]

Risk(p) ==
  LET bad == 2 * p.fail + 3 * p.mismatch IN (bad * BpsDenom) \div (p.ok + bad)

PolicyStatusMut(p) ==
  IF Risk(p) >= wdConfig.quarantine THEN "quarantine"
  ELSE IF Risk(p) >= wdConfig.warn THEN "warn" ELSE "ok"
PolicyStatus(p) ==
  IF p.distinct < wdConfig.minWatchdogs THEN p.status
  ELSE IF Risk(p) >= wdConfig.quarantine THEN "quarantine"
  ELSE IF Risk(p) >= wdConfig.warn THEN "warn" ELSE "ok"

\* What the consumers read.  A warning keeps a cap that is tighter.
WithOutputs(p) ==
  CASE p.status = "ok"         -> [p EXCEPT !.penalty = 0, !.ttlCap = 0]
    [] p.status = "warn"       -> [p EXCEPT !.penalty = 500,
                                     !.ttlCap = IF @ = 0 THEN 300 ELSE Lesser(@, 300)]
    [] p.status = "quarantine" -> [p EXCEPT !.penalty = 2500, !.ttlCap = 60]

\* is_allowlisted: the watchdog itself, or a submitter that may speak for all.
MaySubmit(k, w) == w \in wdConfig.watchdogs /\ (k = w \/ k \in wdConfig.submitters)

WatchdogOn(w) == Exists(wdState, w) => wdState[w]

\* `fresh` says that the time of observation is neither too old nor ahead.
SubmitAttestationDigest(k, w, e, n, verdict, fresh) ==
  /\ wdConfig # None /\ MaySubmit(k, w) /\ fresh
  /\ e = WdEpoch /\ WatchdogOn(w)
  /\ LET p == Counted(PolicyAt(n, e), verdict, MarkNew(e, n, w))
     IN  /\ p.ok + p.fail + p.mismatch <= WdMaxReports
         /\ wdPolicy' = Created(wdPolicy, n, WithOutputs([p EXCEPT !.status = PolicyStatus(p)]))
  /\ wdState' = Created(wdState, w, TRUE)
  /\ wdLogs' = Created(wdLogs, <<e, n>>, Counted(LogAt(e, n), verdict, MarkNew(e, n, w)))
  /\ wdMarks' = wdMarks \cup {<<e, n, w>>}
  /\ UNCHANGED wdConfig

WdVerdicts == {"ok", "fail", "mismatch"}

\* The commands of solana/scripts/watchdog.ts, run by the wallet k; that of a
\* watchdog names it as argument and account alike.
CliWdInitConfig(k, c) ==
  WdInitConfig(k, IF c.submitters = {} THEN [c EXCEPT !.submitters = {k}] ELSE c)
CliWdEnable(k, w, enabled) == SetWatchdogEnabled(k, w, w, enabled)
\* For the epoch of the slot read just before.
CliWdSubmitDigest(k, w, n, verdict, fresh) ==
  wdConfig # None /\ SubmitAttestationDigest(k, w, WdEpoch, n, verdict, fresh)

WdCli ==
  \E k \in Keys :
    \/ \E c \in WdConfigs : CliWdInitConfig(k, c)
    \/ \E w \in Keys, b \in BOOLEAN : CliWdEnable(k, w, b)
    \/ \E w \in Keys, n \in WdNames, v \in WdVerdicts, f \in BOOLEAN :
         CliWdSubmitDigest(k, w, n, v, f)

WdNext ==
  \/ \E k \in Keys :
    \/ \E c \in WdConfigs : WdInitConfig(k, c)
    \/ \E w, a \in Keys, b \in BOOLEAN : SetWatchdogEnabled(k, w, a, b)
    \/ \E t \in WdThresholds : UpdateThresholds(k, t)
    \/ \E a \in WdAllowlists : SetAllowlists(k, a)
    \/ \E w \in Keys, e \in 0..MaxSlot, n \in WdNames, v \in WdVerdicts, f \in BOOLEAN :
         SubmitAttestationDigest(k, w, e, n, v, f)
  \/ WdCli

WdSpec ==
  /\ ChainInit /\ WdInit
  /\ [][\/ WdNext /\ UNCHANGED slot
        \/ NewSlot /\ UNCHANGED wdVars]_<<slot, wdVars>>

-----------------------------------------------------------------------------
WdTypeOK ==
  /\ DOMAIN wdPolicy \subseteq WdNames /\ DOMAIN wdState \subseteq Keys
  /\ wdMarks \subseteq (0..MaxSlot) \X WdNames \X Keys
  /\ \A n \in DOMAIN wdPolicy : wdPolicy[n].status \in {"ok", "warn", "quarantine"}

\* What a watchdog reports is counted once: after the first epoch the number of
\* distinct watchdogs of a name is the number of marks of its epoch, however
\* watchdogs are switched off and on and reports of epochs follow each other,
\* and penalty and TTL cap are those of the status.
PolicyCountsWatchdogs ==
  \A n \in DOMAIN wdPolicy :
    LET p == wdPolicy[n]
    IN  /\ p.epoch > 0 => p.distinct = Cardinality({m \in wdMarks : m[1] = p.epoch /\ m[2] = n})
        /\ p.penalty = CASE p.status = "ok" -> 0 [] p.status = "warn" -> 500
                         [] p.status = "quarantine" -> 2500
        /\ (p.status = "ok") <=> (p.ttlCap = 0)
        /\ p.status = "quarantine" => p.ttlCap = 60

\* A name changes its status only by a report after which enough watchdogs have
\* reported on it in that epoch.
StatusNeedsQuorum ==
  [][\A n \in DOMAIN wdPolicy :
       wdPolicy'[n].status # wdPolicy[n].status =>
         wdPolicy'[n].distinct >= wdConfig.minWatchdogs]_wdVars
=============================================================================
