------------------------- MODULE CoordinatorSessions -------------------------
(* coordinator/src/server.ts, beside the ledger of Coordinator: signing in with *)
(* a wallet (/auth), the sign-in of the comments plugin (/comments/auth), the   *)
(* allocation of the treasury (/treasury) and the queue of governance actions   *)
(* (/governance). What is asked of the passport contract is asked in the middle *)
(* of a sign-in, and other requests run meanwhile. Sessions, challenges and the *)
(* cache of passports live in memory only; the bindings are read back after a   *)
(* restart, the allocations and the queue are written but never read.           *)
EXTENDS Naturals, Sequences, SequencesExt, Functions

CONSTANTS
    CsSolWallets,   \* Solana wallets
    CsEvmWallets,   \* EVM wallets
    CsConfigs,      \* AUTH_CHAIN, PASSPORT_ENABLED and PASSPORT_ALLOWLIST
    CsTtl,          \* SESSION_TTL_MS, also the life of a challenge
    CsPassportTtl,  \* 90 seconds: the life of a cached passport
    CsCommentTtl,   \* COMMENTS_AUTH_TTL_MS
    CsPolicies,     \* treasury policies: a sequence of buckets
    CsBalances,     \* balances of the treasury at an allocation
    CsTimelock,     \* GOVERNANCE_TIMELOCK_MS
    CsMaxNow, CsMaxChallenges, CsMaxJobs, CsMaxSessions, CsMaxLog

\* A bucket of a policy that is asked for, before it is validated.
CsBucketType == [named: BOOLEAN, given: STRING, share: Nat]

ASSUME CsAssumption ==
    /\ CsPassportTtl \in Nat
    /\ CsPolicies \subseteq Seq(CsBucketType)
    /\ CsBalances \subseteq Nat

VARIABLES
    csNow, csConfig,
    csChallenges,   \* authChallenges: the last challenge of each wallet
    csIssued,       \* the number of challenges made
    csSessions,     \* sessions
    csBindings,     \* authBindings, by Solana wallet
    csPassports,    \* passportCache
    csJobs,         \* sign-ins waiting for the passport contract
    csComments,     \* challenges of the comments plugin
    csAllocations,  \* treasuryAllocations
    csQueue,        \* governanceQueue
    csFiles         \* bindings, allocations and queue on disk

csVars == <<csNow, csConfig, csChallenges, csIssued, csSessions, csBindings, csPassports,
            csJobs, csComments, csAllocations, csQueue, csFiles>>
csSignIn == <<csChallenges, csIssued, csSessions, csBindings, csPassports, csJobs>>
csBooks == <<csAllocations, csQueue, csFiles>>

CsWallets == CsSolWallets \cup CsEvmWallets
CsAbsent == [kind |-> "absent"]
CsNoMap == [w \in {} |-> CsAbsent]

CsInit ==
    /\ csNow = 0
    /\ csConfig \in CsConfigs
    /\ csChallenges = CsNoMap
    /\ csIssued = 0
    /\ csSessions = {}
    /\ csBindings = CsNoMap
    /\ csPassports = CsNoMap
    /\ csJobs = {}
    /\ csComments = CsNoMap
    /\ csAllocations = << >>
    /\ csQueue = << >>
    /\ csFiles = [bindings |-> CsNoMap, allocations |-> << >>, queue |-> << >>]

CsSet(map, key, value) == [k \in DOMAIN map \cup {key} |-> IF k = key THEN value ELSE map[k]]
CsDrop(map, key) == [k \in DOMAIN map \ {key} |-> map[k]]

-----------------------------------------------------------------------------
(* Sign-in. *)

(* inferChain and the check after it: only wallets of the configured chain. *)
ChainAllows(w) ==
    CASE csConfig.chain = "solana" -> w \in CsSolWallets
      [] csConfig.chain = "evm" -> w \in CsEvmWallets
      [] OTHER -> TRUE

(* POST /auth/challenge: a new challenge replaces the one before. *)
AskLogin(w) ==
    /\ ChainAllows(w)
    /\ csIssued < CsMaxChallenges
    /\ csIssued' = csIssued + 1
    /\ csChallenges' = CsSet(csChallenges, w, [id |-> csIssued + 1, expiresAt |-> csNow + CsTtl])
    /\ UNCHANGED <<csNow, csConfig, csSessions, csBindings, csPassports, csJobs, csComments,
                   csBooks>>

(* The challenge is still good, and the signature is over it. *)
ChallengeAnswered(w, signed) ==
    /\ w \in DOMAIN csChallenges
    /\ csChallenges[w].expiresAt >= csNow
    /\ csChallenges[w].id = signed

(* passportOwns: a cached answer is used until it expires. *)
PassportCached(e) == e \in DOMAIN csPassports /\ csPassports[e].expiresAt > csNow

(* (For the mutation check: the challenge is not dropped.) *)
OpenSessionMut(w, evm, login, seen) ==
    /\ csSessions' = csSessions \cup
         {[id |-> Cardinality(csSessions) + 1, wallet |-> w, evm |-> evm, at |-> csNow,
           expiresAt |-> csNow + CsTtl, seen |-> seen, login |-> login]}
    /\ UNCHANGED csChallenges

(* The end of a sign-in: whatever challenge the wallet has now is dropped. *)
OpenSession(w, evm, login, seen) ==
    /\ csSessions' = csSessions \cup
         {[id |-> Cardinality(csSessions) + 1, wallet |-> w, evm |-> evm, at |-> csNow,
           expiresAt |-> csNow + CsTtl, seen |-> seen, login |-> login]}
    /\ csChallenges' = CsDrop(csChallenges, w)

(* Which of the sign-ins that wait for the contract: two of them may be alike. *)
FreshJob == CHOOSE i \in 1..CsMaxJobs : \A j \in csJobs : j.id # i

(* POST /auth/verify: the EVM address of an EVM wallet is its own; a Solana     *)
(* wallet names one, with a signature of its own, when passports are asked for  *)
(* or when it likes to, and needs a place on the allow-list when it names none. *)
(* The challenge stays until a session is opened, so other sign-ins may answer  *)
(* it while this one waits; "before" counts the sessions there were by then.    *)
VerifyLogin(w, signed, evm) ==
    /\ ChainAllows(w)
    /\ ChallengeAnswered(w, signed)
    /\ w \in CsEvmWallets => evm = w
    /\ w \in CsSolWallets =>
         \/ evm \in CsEvmWallets
         \/ evm = w /\ ~csConfig.passport /\ w \in csConfig.allowlist
    /\ Cardinality(csSessions) < CsMaxSessions
    /\ csBindings' = IF w \in CsSolWallets /\ evm # w THEN CsSet(csBindings, w, evm)
                     ELSE csBindings
    /\ LET login == [challenge |-> signed, signedAt |-> csNow,
                     challengeExpires |-> csChallenges[w].expiresAt,
                     before |-> Cardinality(csSessions)]
           cached == PassportCached(evm)
       IN
       \/ /\ ~csConfig.passport
          /\ OpenSession(w, evm, login, csNow)
          /\ UNCHANGED csJobs
       \/ /\ csConfig.passport /\ cached
          /\ IF csPassports[evm].ok
             THEN OpenSession(w, evm, login, csPassports[evm].seen)
             ELSE UNCHANGED <<csSessions, csChallenges>>
          /\ UNCHANGED csJobs
       \/ /\ csConfig.passport /\ ~cached
          /\ Cardinality(csJobs) < CsMaxJobs
          /\ csJobs' = csJobs \cup {[id |-> FreshJob, wallet |-> w, evm |-> evm, login |-> login]}
          /\ UNCHANGED <<csSessions, csChallenges>>
    /\ UNCHANGED <<csNow, csConfig, csIssued, csPassports, csComments, csBooks>>

(* balanceOf answers (an answer that fails is "no"): it is cached, and a wallet *)
(* that owns a passport gets its session.                                       *)
PassportAnswers(job, owns) ==
    /\ job \in csJobs
    /\ Cardinality(csSessions) < CsMaxSessions
    /\ csJobs' = csJobs \ {job}
    /\ csPassports' = CsSet(csPassports, job.evm,
                            [ok |-> owns, seen |-> csNow, expiresAt |-> csNow + CsPassportTtl])
    /\ IF owns THEN OpenSession(job.wallet, job.evm, job.login, csNow)
       ELSE UNCHANGED <<csSessions, csChallenges>>
    /\ UNCHANGED <<csNow, csConfig, csIssued, csBindings, csComments, csBooks>>

(* The call to the contract throws: the sign-in ends without an answer. *)
PassportCallFails(job) ==
    /\ job \in csJobs
    /\ csJobs' = csJobs \ {job}
    /\ UNCHANGED <<csNow, csConfig, csChallenges, csIssued, csSessions, csBindings, csPassports,
                   csComments, csBooks>>

-----------------------------------------------------------------------------
(* The comments plugin. *)

(* POST /comments/auth/challenge. *)
CommentChallenge(w) ==
    /\ w \in CsSolWallets
    /\ csIssued < CsMaxChallenges
    /\ csIssued' = csIssued + 1
    /\ csComments' = CsSet(csComments, w, [id |-> csIssued + 1, expiresAt |-> csNow + CsCommentTtl])
    /\ UNCHANGED <<csNow, csConfig, csChallenges, csSessions, csBindings, csPassports, csJobs,
                   csBooks>>

(* POST /comments/auth/verify: answered with a boolean, and used once. *)
CommentVerify(w, signed) ==
    /\ w \in DOMAIN csComments
    /\ csComments[w].expiresAt >= csNow
    /\ csComments[w].id = signed
    /\ csComments' = CsDrop(csComments, w)
    /\ UNCHANGED <<csNow, csConfig, csSignIn, csBooks>>

-----------------------------------------------------------------------------
(* Treasury and governance. *)

(* validateTreasuryPolicy: each bucket has a name and either a percentage or a  *)
(* fraction, here its share in ten-thousandths.                                 *)
PolicyValid(policy) ==
    /\ \A i \in DOMAIN policy :
         policy[i].named /\ policy[i].given \in {"percent", "fraction"} /\ policy[i].share <= 10000
    /\ SumFunction([i \in DOMAIN policy |-> policy[i].share]) <= 10001

(* saveState, of this handler or any other of the coordinator. *)
SaveBooks(allocations, queue) ==
    csFiles' = [bindings |-> csBindings, allocations |-> allocations, queue |-> queue]

(* POST /treasury/allocate: what each bucket gets is noted; the balance stays. *)
(* (The total of the shares is noted too, for AllocationsCovered.)             *)
AllocateTreasury(policy, balance) ==
    /\ Len(csAllocations) < CsMaxLog
    /\ PolicyValid(policy)
    /\ csAllocations' = Append(csAllocations,
         [balance |-> balance,
          total |-> SumFunction([i \in DOMAIN policy |-> policy[i].share]),
          parts |-> [i \in DOMAIN policy |-> (balance * policy[i].share) \div 10000]])
    /\ SaveBooks(csAllocations', csQueue)
    /\ UNCHANGED <<csNow, csConfig, csSignIn, csComments, csQueue>>

(* POST /governance/queue. *)
QueueAction ==
    /\ Len(csQueue) < CsMaxLog
    /\ csQueue' = Append(csQueue, [executeAfter |-> csNow + CsTimelock])
    /\ SaveBooks(csAllocations, csQueue')
    /\ UNCHANGED <<csNow, csConfig, csSignIn, csComments, csAllocations>>

(* Any other handler that saves: the files take what memory holds. *)
OtherSave ==
    /\ SaveBooks(csAllocations, csQueue)
    /\ UNCHANGED <<csNow, csConfig, csSignIn, csComments, csAllocations, csQueue>>

-----------------------------------------------------------------------------
(* A restart: loadState reads the bindings, and nothing else of this module. *)
CsRestart ==
    /\ csChallenges' = CsNoMap
    /\ csSessions' = {}
    /\ csBindings' = csFiles.bindings
    /\ csPassports' = CsNoMap
    /\ csJobs' = {}
    /\ csComments' = CsNoMap
    /\ csAllocations' = << >>
    /\ csQueue' = << >>
    /\ UNCHANGED <<csNow, csConfig, csIssued, csFiles>>

CsTick ==
    /\ csNow < CsMaxNow
    /\ csNow' = csNow + 1
    /\ UNCHANGED <<csConfig, csSignIn, csComments, csBooks>>

CsNext ==
    \/ \E w \in CsWallets :
         \/ AskLogin(w)
         \/ \E signed \in 1..csIssued, evm \in CsWallets : VerifyLogin(w, signed, evm)
         \/ CommentChallenge(w)
         \/ \E signed \in 1..csIssued : CommentVerify(w, signed)
    \/ \E job \in csJobs :
         (\E owns \in BOOLEAN : PassportAnswers(job, owns)) \/ PassportCallFails(job)
    \/ \E p \in CsPolicies, b \in CsBalances : AllocateTreasury(p, b)
    \/ QueueAction
    \/ OtherSave
    \/ CsRestart
    \/ CsTick

-----------------------------------------------------------------------------
(* Every session was opened by an answer to a challenge within its life, and,   *)
(* where passports are asked for, with a passport seen no longer ago than the   *)
(* cache may keep it: whatever time the contract took and whatever challenges   *)
(* and sign-ins came in between.                                                *)
SessionsProven ==
    \A s \in csSessions :
        /\ s.login.signedAt <= s.login.challengeExpires
        /\ csConfig.passport => s.evm \in CsEvmWallets /\ s.at <= s.seen + CsPassportTtl
        /\ (~csConfig.passport /\ s.evm \notin CsEvmWallets) => s.wallet \in csConfig.allowlist

(* An answer given once a session of its challenge is open opens no other: only *)
(* answers that waited for the contract together may each open a session, since *)
(* the challenge is dropped after the await and not before it.                  *)
SessionsCrossed ==
    \A s, t \in csSessions :
        s.login.challenge = t.login.challenge /\ s.id < t.id => t.login.before < s.id

(* What the buckets are given together is covered by the treasury when their    *)
(* shares make no more than the whole, whatever the rounding of each; and when  *)
(* they make more, which validation lets pass up to a ten-thousandth, it exceeds*)
(* the treasury by no more than that.                                           *)
AllocationsCovered ==
    \A i \in DOMAIN csAllocations :
        LET a == csAllocations[i]
            given == SumFunction(a.parts)
        IN  /\ a.total <= 10000 => given <= a.balance
            /\ 10000 * given <= 10001 * a.balance
=============================================================================
