---------------------------- MODULE TrafficOracle ----------------------------
(* services/traffic-oracle: a scan looks a domain up, fetches its page, scores  *)
(* what it saw and appends the result to a file; the gateway asks /v1/check for *)
(* the traffic signal of a domain, which is the latest result while it is       *)
(* fresh. Scans of one domain may run side by side, each ending in its own      *)
(* time; the state of a queued job is a line of another file, the last one      *)
(* counting; the process may stop at any point.                                 *)
EXTENDS Integers, Sequences, SequencesExt

CONSTANTS
    ToDomains,      \* domains that pass validateDomain
    ToSignals,      \* what a scan may see (records of the fields scoreSignals reads)
    ToCacheTtl,     \* TRAFFIC_ORACLE_CACHE_TTL_HOURS
    ToCapacity,     \* tokens of a caller's bucket
    ToMaxJobs, ToMaxScans, ToMaxResults, ToMaxNow

VARIABLES
    toNow,
    toTokens,       \* tokens of the one caller modelled
    toJobs,         \* jobs.jsonl: the last line of each job
    toResults,      \* results.jsonl
    toScans,        \* scans under way in the running process
    toAnswers       \* the last answer of /v1/check for each domain

toVars == <<toNow, toTokens, toJobs, toResults, toScans, toAnswers>>

ToNoAnswer == [kind |-> "none"]

ToInit ==
    /\ toNow = 0
    /\ toTokens = ToCapacity
    /\ toJobs = << >>
    /\ toResults = << >>
    /\ toScans = {}
    /\ toAnswers = [d \in ToDomains |-> ToNoAnswer]

-----------------------------------------------------------------------------
(* scoreSignals, with every weight in hundredths. *)

Clamp(x, low, high) == Min({high, Max({low, x})})

Points(condition, n) == IF condition THEN n ELSE 0

Footprint(s) ==
    Clamp(Points(s.dns, 20) + Points(s.http, 25) + Points(s.status \in 200..399, 15)
            + Clamp(s.length \div 2500, 0, 15) + Clamp(s.keywords * 2, 0, 15)
            + Clamp(s.h1s * 4, 0, 10) + Points(s.title > 5, 5), 0, 100)

RiskPenalty(s) ==
    Clamp(Points(~s.dns, 40) + Points(~s.http, 25) + Points(s.length < 250, 15)
            + Points(s.title = 0, 10), 0, 100)

(* Traffic and authority are not measured and count 0; Math.round of the rest. *)
Score(s) == Clamp((55 * Footprint(s) - 10 * RiskPenalty(s) + 50) \div 100, 0, 100)

TierOf(score) ==
    CASE score >= 80 -> "Gold" [] score >= 60 /\ score < 80 -> "Silver"
      [] score >= 40 /\ score < 60 -> "Bronze" [] OTHER -> "Verify-only"

Decision(s) ==
    LET tier == TierOf(Score(s)) IN
    [tier |-> tier,
     traffic |-> CASE tier \in {"Gold", "Silver"} -> "real" [] tier = "Bronze" -> "low"
                   [] OTHER -> "none",
     treasury |-> tier \in {"Gold", "Silver"}]

-----------------------------------------------------------------------------
(* The files. *)

(* getLatestResult: of equally late ones, the first written. *)
ResultsOf(d) == {i \in DOMAIN toResults : toResults[i].domain = d}
LatestResult(d) ==
    CHOOSE i \in ResultsOf(d) : \A j \in ResultsOf(d) :
        \/ toResults[j].at < toResults[i].at
        \/ toResults[j].at = toResults[i].at /\ i <= j

IsFresh(d) == ResultsOf(d) # {} /\ toNow - toResults[LatestResult(d)].at < ToCacheTtl

ScanSlot == Min((1..ToMaxScans) \ {scan.id : scan \in toScans})

(* getOrRefresh, when it has to compute: collectSignals begins. *)
ScanStarts(d, for) ==
    /\ Cardinality(toScans) < ToMaxScans
    /\ toScans' = toScans \cup {[id |-> ScanSlot, domain |-> d, for |-> for]}

-----------------------------------------------------------------------------
(* POST /v1/scan: a token of the caller's bucket, and a queued job. *)
Scan(d) ==
    /\ Len(toJobs) < ToMaxJobs
    /\ toTokens >= 1
    /\ toTokens' = toTokens - 1
    /\ toJobs' = Append(toJobs, [domain |-> d, status |-> "queued", alive |-> TRUE])
    /\ UNCHANGED <<toNow, toResults, toScans, toAnswers>>

(* runJob, from its first line to the signals: a fresh result ends the job. *)
RunJob(j) ==
    /\ toJobs[j].status = "queued" /\ toJobs[j].alive
    /\ IF IsFresh(toJobs[j].domain)
       THEN toJobs' = [toJobs EXCEPT ![j].status = "done"] /\ UNCHANGED toScans
       ELSE /\ ScanStarts(toJobs[j].domain, j)
            /\ toJobs' = [toJobs EXCEPT ![j].status = "running"]
    /\ UNCHANGED <<toNow, toTokens, toResults, toAnswers>>

(* GET /v1/check with a fresh result, when no refresh is asked for. *)
CheckCached(d) ==
    /\ IsFresh(d)
    /\ toAnswers' = [toAnswers EXCEPT ![d] =
                       [kind |-> "answer", result |-> toResults[LatestResult(d)], given |-> toNow]]
    /\ UNCHANGED <<toNow, toTokens, toJobs, toResults, toScans>>

(* GET /v1/check otherwise. *)
CheckRefresh(d, refresh) ==
    /\ refresh \/ ~IsFresh(d)
    /\ ScanStarts(d, 0)
    /\ UNCHANGED <<toNow, toTokens, toJobs, toResults, toAnswers>>

(* The signals are there: the result is appended, and the job or the client has it. *)
ScanEnds(scan, signals) ==
    /\ scan \in toScans
    /\ Len(toResults) < ToMaxResults
    /\ LET result == [domain |-> scan.domain, at |-> toNow, decision |-> Decision(signals)] IN
       /\ toResults' = Append(toResults, result)
       /\ toAnswers' = IF scan.for # 0 THEN toAnswers
                       ELSE [toAnswers EXCEPT ![scan.domain] =
                               [kind |-> "answer", result |-> result, given |-> toNow]]
    /\ toJobs' = IF scan.for = 0 THEN toJobs ELSE [toJobs EXCEPT ![scan.for].status = "done"]
    /\ toScans' = toScans \ {scan}
    /\ UNCHANGED <<toNow, toTokens>>

(* The scan throws (the file cannot be written): a job fails, a client gets an error. *)
ScanFails(scan) ==
    /\ scan \in toScans
    /\ toJobs' = IF scan.for = 0 THEN toJobs ELSE [toJobs EXCEPT ![scan.for].status = "failed"]
    /\ toScans' = toScans \ {scan}
    /\ UNCHANGED <<toNow, toTokens, toResults, toAnswers>>

(* The process stops and starts: the files stay, and nothing takes up a job that *)
(* was queued or running.                                                        *)
OracleRestart ==
    /\ toScans' = {}
    /\ toTokens' = ToCapacity
    /\ toJobs' = [j \in DOMAIN toJobs |-> [toJobs[j] EXCEPT !.alive = FALSE]]
    /\ UNCHANGED <<toNow, toResults, toAnswers>>

(* Time passes, and the bucket fills. *)
ToTick ==
    /\ toNow < ToMaxNow
    /\ toNow' = toNow + 1
    /\ toTokens' = Min({ToCapacity, toTokens + 1})
    /\ UNCHANGED <<toJobs, toResults, toScans, toAnswers>>

ToNext ==
    \/ \E d \in ToDomains :
         Scan(d) \/ CheckCached(d) \/ (\E refresh \in BOOLEAN : CheckRefresh(d, refresh))
    \/ \E j \in DOMAIN toJobs : RunJob(j)
    \/ \E scan \in toScans : (\E s \in ToSignals : ScanEnds(scan, s)) \/ ScanFails(scan)
    \/ OracleRestart
    \/ ToTick

-----------------------------------------------------------------------------
(* The signal the gateway is given for a domain is never older than one it was *)
(* given before, whatever scans cross and however the service restarts, and is *)
(* new or not older than the life of the cache.                                *)
SignalsNeverGoBack ==
    [][\A d \in ToDomains : toAnswers'[d] # toAnswers[d] =>
         /\ \/ toAnswers'[d].result.at = toNow
            \/ toNow - toAnswers'[d].result.at < ToCacheTtl
         /\ toAnswers[d].kind = "answer" =>
              toAnswers'[d].result.at >= toAnswers[d].result.at]_toVars
=============================================================================
