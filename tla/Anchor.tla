------------------------------- MODULE Anchor -------------------------------
(***************************************************************************)
(* The anchor program (solana/programs/ddns_anchor), with which the toll   *)
(* booth issues passports and routes, and with it the two small programs   *)
(* of the same kind: reputation points (ddns_rep) and the heads of domain  *)
(* caches (ddns_cache_head).                                               *)
(***************************************************************************)
EXTENDS SolanaChain

CONSTANTS AnAdmin,     \* the wallet that initializes, the toll booth
          AnVersions,  \* versions of set_version
          AnNames,     \* names whose label the program accepts
          AnMints,     \* mints of the admin, made before a pass is issued
          AnDests, AnTtls,
          AnAmounts,   \* tokens of one lock
          LockDays,    \* days of a lock; a slot stands for 30 of them
          RepConfigs,  \* arguments of init_rep_config
          RepEntries,  \* <<entries, subdomains, sources, confidence>> of one award
          RepEpochs,   \* epochs that awards name
          RepMaxEntries, \* bound on the entries counted for a contributor
          HeadRoots    \* cache roots

\* The fields of RepConfig: unsigned numbers, and a multiplier in basis points
\* for each level of confidence.
RepConfigType ==
  [authority: Keys, basePoints: Nat, multiplier: [0..2 -> Nat], minSubdomains: Nat,
   minSources: Nat, cap: Nat, enabled: BOOLEAN]

\* Scripts initialize to version 1; arguments have the types of the instructions.
ASSUME AnAssumption ==
  /\ 1 \in AnVersions
  /\ RepConfigs \subseteq RepConfigType /\ None \notin RepConfigType
  /\ RepEntries \subseteq Nat \X Nat \X Nat \X (0..2)

VARIABLES anVersion,   \* Config: the version, None before initialize
          tollPasses,  \* TollPass by wallet
          nameRecords, \* NameRecord by name
          anRoutes,    \* RouteRecord by <<wallet, name>>
          locks,       \* TokenLock by wallet
          lockVaults,  \* tokens in the vault of a wallet's vault authority
          repConfig,   \* RepConfig, None before init
          epochRep,    \* EpochRep by <<epoch, contributor>>
          cacheHeads   \* DomainCacheHead by name

passVars == <<tollPasses, nameRecords>>
lockVars == <<locks, lockVaults>>
anVars == <<anVersion, tollPasses, nameRecords, anRoutes, locks, lockVaults>>
repVars == <<repConfig, epochRep>>
anchorVars == <<anVars, repVars, cacheHeads>>

AnInit ==
  /\ anVersion = None /\ tollPasses = NoAccounts /\ nameRecords = NoAccounts
  /\ anRoutes = NoAccounts /\ locks = NoAccounts
  /\ lockVaults = [k \in Keys |-> 0]
  /\ repConfig = None /\ epochRep = NoAccounts /\ cacheHeads = NoAccounts

-----------------------------------------------------------------------------
Initialize(k, v) ==
  /\ anVersion = None /\ k = AnAdmin /\ anVersion' = v
  /\ UNCHANGED <<passVars, anRoutes, lockVars>>

SetVersion(k, v) ==
  /\ anVersion # None /\ k = AnAdmin /\ anVersion' = v
  /\ UNCHANGED <<passVars, anRoutes, lockVars>>

TollPass(n, mint) == [name |-> n, mint |-> mint]
NameRecord(k, mint) == [owner |-> k, mint |-> mint]

PassAccounts(k, n) ==
  anVersion # None /\ Vacant(tollPasses, k) /\ Vacant(nameRecords, n)

\* With the token of the mint frozen in the wallet's account.
IssueTollPass(k, n, mint) ==
  /\ PassAccounts(k, n)
  /\ tollPasses' = Created(tollPasses, k, TollPass(n, mint))
  /\ nameRecords' = Created(nameRecords, n, NameRecord(k, mint))
  /\ UNCHANGED <<anVersion, anRoutes, lockVars>>

RouteAccounts(k, n) ==
  anVersion # None /\ Exists(nameRecords, n) /\ Exists(tollPasses, k)

RouteRecord(dest, ttl) == [dest |-> dest, ttl |-> ttl, updatedAt |-> slot]

\* (For the mutation check: the record is not compared with the pass.)
SetRouteMut(k, n, dest, ttl) ==
  /\ RouteAccounts(k, n)
  /\ anRoutes' = Created(anRoutes, <<k, n>>, RouteRecord(dest, ttl))
  /\ UNCHANGED <<anVersion, passVars, lockVars>>

SetRoute(k, n, dest, ttl) ==
  /\ RouteAccounts(k, n) /\ nameRecords[n] = NameRecord(k, tollPasses[k].mint)
  /\ anRoutes' = Created(anRoutes, <<k, n>>, RouteRecord(dest, ttl))
  /\ UNCHANGED <<anVersion, passVars, lockVars>>

\* The lock account stays for good: a wallet locks once.
LockAccounts(k) == Vacant(locks, k)

\* The vault is any token account that the owner names.
LockTokens(k, amount, days, vaultOf) ==
  /\ LockAccounts(k) /\ days >= 30
  /\ locks' = Created(locks, k, [amount |-> amount, unlockAt |-> slot + days \div 30])
  /\ lockVaults' = IF vaultOf = None THEN lockVaults
                   ELSE [lockVaults EXCEPT ![vaultOf] = @ + amount]
  /\ UNCHANGED <<anVersion, passVars, anRoutes>>

UnlockAccounts(k) == Exists(locks, k)

UnlockTokens(k) ==
  /\ UnlockAccounts(k) /\ slot >= locks[k].unlockAt /\ lockVaults[k] >= locks[k].amount
  /\ lockVaults' = [lockVaults EXCEPT ![k] = @ - locks[k].amount]
  /\ locks' = [locks EXCEPT ![k] = [amount |-> 0, unlockAt |-> 0]]
  /\ UNCHANGED <<anVersion, passVars, anRoutes>>

AnNext ==
  \/ \E k \in Keys, v \in AnVersions : Initialize(k, v) \/ SetVersion(k, v)
  \/ \E k \in Keys, n \in AnNames :
       \/ \E m \in AnMints : IssueTollPass(k, n, m)
       \/ \E d \in AnDests, t \in AnTtls : SetRoute(k, n, d, t)
  \/ \E k \in Keys : \/ \E a \in AnAmounts, d \in LockDays, v \in Keys \cup {None} :
                          LockTokens(k, a, d, v)
                     \/ UnlockTokens(k)

-----------------------------------------------------------------------------
\* Reputation.

InitRepConfig(k, c) ==
  /\ repConfig = None /\ repConfig' = [c EXCEPT !.authority = k] /\ UNCHANGED epochRep

SetRepEnabled(k, enabled) ==
  /\ repConfig # None /\ repConfig.authority = k
  /\ repConfig' = [repConfig EXCEPT !.enabled = enabled] /\ UNCHANGED epochRep

EpochRep(e, k) ==
  IF Exists(epochRep, <<e, k>>) THEN epochRep[<<e, k>>]
  ELSE [entries |-> 0, subdomains |-> 0, sources |-> 0, points |-> 0]

RepPoints(entries, subdomains, sources, level) ==
  LET base == MulBps(entries * repConfig.basePoints, repConfig.multiplier[level])
      wide == IF subdomains >= repConfig.minSubdomains THEN (base * 11) \div 10 ELSE base
  IN  IF sources >= repConfig.minSources THEN (wide * 11) \div 10 ELSE wide

AwardAccounts(k) == repConfig # None /\ repConfig.authority = k

\* (For the mutation check: the points without the cap.)
AwardRepMut(k, e, contributor, award) ==
  LET old == EpochRep(e, contributor)
  IN  /\ AwardAccounts(k) /\ repConfig.enabled /\ award[1] > 0
      /\ old.entries + award[1] <= RepMaxEntries
      /\ epochRep' = Created(epochRep, <<e, contributor>>,
           [old EXCEPT !.entries = @ + award[1],
                       !.points = @ + RepPoints(award[1], award[2], award[3], award[4])])
      /\ UNCHANGED repConfig

\* The epoch is what the authority says; the program does not ask the clock.
AwardRep(k, e, contributor, award) ==
  LET old == EpochRep(e, contributor)
  IN  /\ AwardAccounts(k) /\ repConfig.enabled /\ award[1] > 0
      /\ old.entries + award[1] <= RepMaxEntries
      /\ epochRep' = Created(epochRep, <<e, contributor>>,
           [entries    |-> old.entries + award[1],
            subdomains |-> Greater(old.subdomains, award[2]),
            sources    |-> Greater(old.sources, award[3]),
            points     |-> Lesser(old.points + RepPoints(award[1], award[2], award[3], award[4]),
                                  repConfig.cap)])
      /\ UNCHANGED repConfig

RepNext ==
  \E k \in Keys :
    \/ \E c \in RepConfigs : InitRepConfig(k, c)
    \/ \E b \in BOOLEAN : SetRepEnabled(k, b)
    \/ \E e \in RepEpochs, x \in Keys, a \in RepEntries : AwardRep(k, e, x, a)

-----------------------------------------------------------------------------
\* Cache heads: anybody may make one, in the name of any parent owner.

DomainCacheHead(owner, root, e, enabled) ==
  [owner |-> owner, root |-> root, epoch |-> e, enabled |-> enabled]

InitCacheHead(n, owner) ==
  /\ Vacant(cacheHeads, n)
  /\ cacheHeads' = Created(cacheHeads, n, DomainCacheHead(owner, None, 0, TRUE))

HeadAccounts(n, k) == Exists(cacheHeads, n) /\ cacheHeads[n].owner = k

\* The epoch may go back.
SetCacheHead(n, k, root, e) ==
  /\ HeadAccounts(n, k) /\ cacheHeads[n].enabled
  /\ cacheHeads' = [cacheHeads EXCEPT ![n] = DomainCacheHead(k, root, e, TRUE)]

SetCacheHeadEnabled(n, k, enabled) ==
  /\ HeadAccounts(n, k)
  /\ cacheHeads' = [cacheHeads EXCEPT ![n].enabled = enabled]

\* The commands of solana/scripts/cache_head.ts, run by the wallet k.
CliHeadInit(k, n, owner) == InitCacheHead(n, IF owner = None THEN k ELSE owner)
CliHeadSet(k, n, root, e) == SetCacheHead(n, k, root, e)

HeadNext ==
  \E n \in AnNames, k \in Keys :
    \/ InitCacheHead(n, k)
    \/ \E r \in HeadRoots, e \in RepEpochs : SetCacheHead(n, k, r, e)
    \/ \E b \in BOOLEAN : SetCacheHeadEnabled(n, k, b)
    \/ \E o \in Keys \cup {None} : CliHeadInit(k, n, o)
    \/ \E r \in HeadRoots, e \in RepEpochs : CliHeadSet(k, n, r, e)

\* The anchor program by itself.
AnSpec ==
  /\ ChainInit /\ AnInit
  /\ [][\/ AnNext /\ UNCHANGED <<slot, repVars, cacheHeads>>
        \/ NewSlot /\ UNCHANGED anchorVars]_<<slot, anchorVars>>

-----------------------------------------------------------------------------
AnTypeOK ==
  /\ anVersion \in AnVersions \cup {None}
  /\ \A k \in DOMAIN tollPasses : tollPasses[k] \in [name: AnNames, mint: AnMints]
  /\ \A n \in DOMAIN nameRecords : nameRecords[n] \in [owner: Keys, mint: AnMints]
  /\ \A r \in DOMAIN epochRep : epochRep[r].points \in 0..repConfig.cap
  /\ \A n \in DOMAIN cacheHeads : cacheHeads[n].owner \in Keys

\* A wallet has one pass and one name, each made for the other, and its routes
\* are for that name alone: pass, name record and route are three accounts that
\* are written by different instructions.
RoutesOfPassHolder ==
  /\ \A n \in DOMAIN nameRecords :
       LET k == nameRecords[n].owner
       IN Exists(tollPasses, k) /\ tollPasses[k] = TollPass(n, nameRecords[n].mint)
  /\ \A r \in DOMAIN anRoutes : Exists(tollPasses, r[1]) /\ tollPasses[r[1]].name = r[2]
=============================================================================
