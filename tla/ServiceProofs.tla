--------------------------- MODULE ServiceProofs ----------------------------
(***************************************************************************)
(* Theorems about the services: the anchor program behind the toll booth,  *)
(* the booth's files, the gateway's payments, and then each service of     *)
(* MCServices, whatever the others do.                                     *)
(***************************************************************************)
EXTENDS MCServices, SumTheorems, TLAPS

-----------------------------------------------------------------------------
(***************************************************************************)
(* Passes, name records and routes of the anchor program, and the passport *)
(* files of the toll booth in front of it: for any wallets, names, mints   *)
(* and requests.                                                           *)
(***************************************************************************)

\* A wallet's pass, once issued, is never written again.
PassesKept ==
  \A k \in DOMAIN tollPasses : k \in DOMAIN tollPasses' /\ tollPasses'[k] = tollPasses[k]

LEMMA IssueKeepsPasses ==
  ASSUME NEW k, NEW n, NEW m, IssueTollPass(k, n, m)
  PROVE  PassesKept
<1>1. k \notin DOMAIN tollPasses
  BY DEF IssueTollPass, PassAccounts, Vacant
<1>2. PICK p : tollPasses' = Created(tollPasses, k, p)
  BY DEF IssueTollPass
<1> QED  BY <1>1, <1>2 DEF PassesKept, Created

\* issue_toll_pass writes a pass and a record that are made for each other.
LEMMA IssueKeepsHolders ==
  ASSUME RoutesOfPassHolder, NEW k, NEW n, NEW m, IssueTollPass(k, n, m)
  PROVE  RoutesOfPassHolder'
<1>1. PICK p : p = TollPass(n, m)
  OBVIOUS
<1>2. PICK r : r = NameRecord(k, m)
  OBVIOUS
<1>3. /\ p.name = n /\ p.mint = m /\ r.owner = k /\ r.mint = m
  BY <1>1, <1>2 DEF TollPass, NameRecord
<1>4. /\ DOMAIN tollPasses' = DOMAIN tollPasses \cup {k} /\ tollPasses'[k] = p
      /\ DOMAIN nameRecords' = DOMAIN nameRecords \cup {n} /\ nameRecords'[n] = r
      /\ \A x \in DOMAIN nameRecords : x # n => nameRecords'[x] = nameRecords[x]
      /\ UNCHANGED anRoutes
  BY <1>1, <1>2 DEF IssueTollPass, Created
<1>5. PassesKept
  BY IssueKeepsPasses
<1>6. ASSUME NEW x \in DOMAIN nameRecords'
      PROVE  /\ Exists(tollPasses, nameRecords[x].owner)'
             /\ tollPasses'[nameRecords'[x].owner] = TollPass(x, nameRecords'[x].mint)
  <2>1. CASE x = n
    BY <1>1, <1>3, <1>4, <2>1 DEF Exists
  <2>2. CASE x # n
    <3>1. x \in DOMAIN nameRecords /\ nameRecords'[x] = nameRecords[x]
      BY <1>4, <2>2
    <3> QED  BY <1>5, <3>1 DEF RoutesOfPassHolder, PassesKept, Exists
  <2> QED  BY <2>1, <2>2
<1>7. ASSUME NEW x \in DOMAIN anRoutes'
      PROVE  Exists(tollPasses, x[1])' /\ tollPasses'[x[1]].name = x[2]
  BY <1>4, <1>5 DEF RoutesOfPassHolder, PassesKept, Exists
<1> QED  BY <1>6, <1>7 DEF RoutesOfPassHolder

\* set_route compares the record of the name with the wallet's pass.
LEMMA SetRouteKeepsHolders ==
  ASSUME RoutesOfPassHolder, NEW k, NEW n, NEW d, NEW t, SetRoute(k, n, d, t)
  PROVE  RoutesOfPassHolder'
<1>1. /\ n \in DOMAIN nameRecords /\ k \in DOMAIN tollPasses
      /\ nameRecords[n] = NameRecord(k, tollPasses[k].mint)
      /\ UNCHANGED <<tollPasses, nameRecords>>
  BY DEF SetRoute, RouteAccounts, Exists, passVars
<1>2. nameRecords[n].owner = k
  BY <1>1 DEF NameRecord
<1>3. tollPasses[k].name = n
  <2>1. tollPasses[nameRecords[n].owner] = TollPass(n, nameRecords[n].mint)
    BY <1>1 DEF RoutesOfPassHolder
  <2> QED  BY <1>2, <2>1 DEF TollPass
<1>4. PICK at : at = <<k, n>>
  OBVIOUS
<1>5. at[1] = k /\ at[2] = n
  BY <1>4
<1>6. DOMAIN anRoutes' = DOMAIN anRoutes \cup {at}
  BY <1>4 DEF SetRoute, Created
<1>7. ASSUME NEW x \in DOMAIN anRoutes'
      PROVE  x[1] \in DOMAIN tollPasses' /\ tollPasses'[x[1]].name = x[2]
  BY <1>1, <1>3, <1>5, <1>6 DEF RoutesOfPassHolder, Exists
<1>8. ASSUME NEW x \in DOMAIN nameRecords'
      PROVE  /\ Exists(tollPasses, nameRecords[x].owner)'
             /\ tollPasses'[nameRecords'[x].owner] = TollPass(x, nameRecords'[x].mint)
  BY <1>1 DEF RoutesOfPassHolder, Exists
<1> QED  BY <1>7, <1>8 DEF RoutesOfPassHolder, Exists

LEMMA AnNext_Holders == RoutesOfPassHolder /\ AnNext => RoutesOfPassHolder'
<1> SUFFICES ASSUME RoutesOfPassHolder, AnNext PROVE RoutesOfPassHolder'
  OBVIOUS
<1>1. ASSUME UNCHANGED <<tollPasses, nameRecords, anRoutes>> PROVE RoutesOfPassHolder'
  BY <1>1 DEF RoutesOfPassHolder, Exists
<1>2. ASSUME NEW k \in Keys, NEW v \in AnVersions, Initialize(k, v) \/ SetVersion(k, v)
      PROVE  RoutesOfPassHolder'
  BY <1>1, <1>2 DEF Initialize, SetVersion, passVars
<1>3. ASSUME NEW k \in Keys, NEW n \in AnNames, NEW m \in AnMints, IssueTollPass(k, n, m)
      PROVE  RoutesOfPassHolder'
  BY <1>3, IssueKeepsHolders
<1>4. ASSUME NEW k \in Keys, NEW n \in AnNames, NEW d \in AnDests, NEW t \in AnTtls,
             SetRoute(k, n, d, t)
      PROVE  RoutesOfPassHolder'
  BY <1>4, SetRouteKeepsHolders
<1>5. ASSUME NEW k \in Keys, NEW a \in AnAmounts, NEW d \in LockDays, NEW v \in Keys \cup {None},
             LockTokens(k, a, d, v)
      PROVE  RoutesOfPassHolder'
  BY <1>1, <1>5 DEF LockTokens, passVars
<1>6. ASSUME NEW k \in Keys, UnlockTokens(k) PROVE RoutesOfPassHolder'
  BY <1>1, <1>6 DEF UnlockTokens, passVars
<1> QED  BY <1>2, <1>3, <1>4, <1>5, <1>6 DEF AnNext

\* A route is its wallet's name's, and every name record has its pass, whoever
\* calls the program and in whatever order.
THEOREM RoutesArePassHolders == AnSpec => []RoutesOfPassHolder
<1>1. ChainInit /\ AnInit => RoutesOfPassHolder
  BY DEF AnInit, NoAccounts, RoutesOfPassHolder
<1>2. RoutesOfPassHolder
      /\ [\/ AnNext /\ UNCHANGED <<slot, repVars, cacheHeads>>
          \/ NewSlot /\ UNCHANGED anchorVars]_<<slot, anchorVars>>
      => RoutesOfPassHolder'
  <2>1. ASSUME RoutesOfPassHolder, UNCHANGED anchorVars PROVE RoutesOfPassHolder'
    BY <2>1 DEF RoutesOfPassHolder, Exists, anchorVars, anVars
  <2> QED  BY <2>1, AnNext_Holders
<1> QED  BY <1>1, <1>2, PTL DEF AnSpec

-----------------------------------------------------------------------------
\* A request is a record of these fields, and keeps them as it moves.
Shaped(r) ==
  r = [wallet |-> r.wallet, nonce |-> r.nonce, kind |-> r.kind, name |-> r.name,
       dest |-> r.dest, step |-> r.step, mint |-> r.mint]

LEMMA StepIs ==
  ASSUME NEW r, Shaped(r), NEW p, NEW s, s = [r EXCEPT !.step = p]
  PROVE  /\ Shaped(s) /\ s.wallet = r.wallet /\ s.kind = r.kind
         /\ s.step = p /\ s.mint = r.mint /\ s.nonce = r.nonce /\ s.name = r.name
<1>1. PICK w, x, k, n, d, p0, m :
        r = [wallet |-> w, nonce |-> x, kind |-> k, name |-> n, dest |-> d,
             step |-> p0, mint |-> m]
  BY DEF Shaped
<1>2. s = [wallet |-> w, nonce |-> x, kind |-> k, name |-> n, dest |-> d,
           step |-> p, mint |-> m]
  BY <1>1
<1> QED  BY <1>1, <1>2 DEF Shaped

\* A claim that is about to be written after a success carries the mint of the
\* wallet's pass; a route past its look is one of a wallet with a pass, and one
\* that is about to be written after a success has its record.
RequestProven(r) ==
  /\ r.kind = "claim" /\ r.step = "write" =>
       r.wallet \in DOMAIN tollPasses /\ tollPasses[r.wallet].mint = r.mint
  /\ r.kind = "route" /\ r.step \notin {"init", "look"} => r.wallet \in DOMAIN tollPasses
  /\ r.kind = "route" /\ r.step = "write" => <<r.wallet, r.name>> \in DOMAIN anRoutes

\* The file of a route, of its wallet and name.
RouteFileProven(f) ==
  /\ f = <<f[1], f[2]>> /\ f[1] \in DOMAIN tollPasses
  /\ f \notin tbUnprovenRoutes => f \in DOMAIN anRoutes

FilesInv ==
  /\ PassportFilesProven
  /\ \A f \in DOMAIN tbRoutes : RouteFileProven(f)
  /\ \A r \in tbRequests : Shaped(r) /\ RequestProven(r)

\* Neither a pass nor a route record is ever removed.
RoutesKept == DOMAIN anRoutes \subseteq DOMAIN anRoutes'
AnchorKept == PassesKept /\ RoutesKept

LEMMA StillPasses == ASSUME UNCHANGED anVars PROVE PassesKept
BY DEF anVars, passVars, PassesKept

LEMMA StillAnchor == ASSUME UNCHANGED anVars PROVE AnchorKept
BY StillPasses DEF anVars, AnchorKept, RoutesKept

LEMMA OnlyRoutes ==
  ASSUME UNCHANGED tollPasses PROVE PassesKept
BY DEF PassesKept

LEMMA IssueKeepsAnchor ==
  ASSUME NEW k, NEW n, NEW m, IssueTollPass(k, n, m) PROVE AnchorKept
BY IssueKeepsPasses DEF IssueTollPass, AnchorKept, RoutesKept

LEMMA SetRouteKeepsAnchor ==
  ASSUME NEW k, NEW n, NEW d, NEW t, SetRoute(k, n, d, t)
  PROVE  AnchorKept /\ <<k, n>> \in DOMAIN anRoutes'
<1>1. DOMAIN anRoutes' = DOMAIN anRoutes \cup {<<k, n>>} /\ UNCHANGED passVars
  BY DEF SetRoute, Created
<1> QED  BY <1>1, OnlyRoutes DEF passVars, AnchorKept, RoutesKept

\* What keeps the chain and the files, and adds no request that is not proven.
LEMMA FilesKept ==
  ASSUME FilesInv, AnchorKept, UNCHANGED tbFiles,
         \A r \in tbRequests' : r \in tbRequests \/ (Shaped(r) /\ RequestProven(r)')
  PROVE  FilesInv'
<1>1. PassportFilesProven'
  BY DEF FilesInv, PassportFilesProven, AnchorKept, PassesKept, Exists, tbFiles
<1>2. ASSUME NEW f \in DOMAIN tbRoutes' PROVE RouteFileProven(f)'
  BY <1>2 DEF FilesInv, RouteFileProven, AnchorKept, PassesKept, RoutesKept, tbFiles
<1>3. ASSUME NEW r \in tbRequests' PROVE Shaped(r) /\ RequestProven(r)'
  BY <1>3 DEF FilesInv, RequestProven, AnchorKept, PassesKept, RoutesKept
<1> QED  BY <1>1, <1>2, <1>3 DEF FilesInv

LEMMA MovesKept ==
  ASSUME FilesInv, AnchorKept, UNCHANGED tbFiles, NEW r \in tbRequests, NEW s,
         TbMoves(r, s), Shaped(s), RequestProven(s)'
  PROVE  FilesInv'
BY FilesKept DEF TbMoves

LEMMA EndsKept ==
  ASSUME FilesInv, AnchorKept, UNCHANGED tbFiles, NEW r, TbEnds(r)
  PROVE  FilesInv'
BY FilesKept DEF TbEnds

\* A request goes on to step p, or ends.
LEMMA HearsKept ==
  ASSUME FilesInv, AnchorKept, UNCHANGED tbFiles, NEW r \in tbRequests, NEW p,
         TbHears(r, p),
         r.kind = "claim" /\ p = "write" =>
           r.wallet \in DOMAIN tollPasses' /\ tollPasses'[r.wallet].mint = r.mint,
         r.kind = "route" /\ p \notin {"init", "look"} => r.wallet \in DOMAIN tollPasses',
         r.kind = "route" /\ p = "write" => <<r.wallet, r.name>> \in DOMAIN anRoutes'
  PROVE  FilesInv'
<1>1. PICK s : s = [r EXCEPT !.step = p]
  OBVIOUS
<1>2. /\ Shaped(s) /\ s.wallet = r.wallet /\ s.kind = r.kind /\ s.step = p
      /\ s.mint = r.mint /\ s.name = r.name
  BY <1>1, StepIs DEF FilesInv
<1>3. RequestProven(s)'
  BY <1>2 DEF RequestProven
<1> QED  BY <1>1, <1>2, <1>3, MovesKept, EndsKept DEF TbHears

LEMMA LookedUp ==
  ASSUME NEW w, PassportOf(w) # None
  PROVE  w \in DOMAIN tollPasses /\ PassportOf(w) = tollPasses[w].mint
BY DEF PassportOf, Exists

\* One step of a request, or of the booth itself.
LEMMA TbNext_Files == FilesInv /\ TbNext => FilesInv'
<1> SUFFICES ASSUME FilesInv, TbNext PROVE FilesInv'
  OBVIOUS
<1>0. \A r \in tbRequests : Shaped(r) /\ RequestProven(r)
  BY DEF FilesInv
<1>1. ASSUME NEW w, TbChallenge(w) \/ TbExpire(w) PROVE FilesInv'
  BY <1>1, FilesKept, StillAnchor DEF TbChallenge, TbExpire
<1>2. ASSUME NEW w, NEW x, NEW s, NEW q, Shaped(q), q.step = "init", TbConsume(w, x, s, q)
      PROVE  FilesInv'
  <2>1. UNCHANGED <<anVars, tbFiles>>
    BY <1>2 DEF TbConsume
  <2>2. \A r \in tbRequests' : r \in tbRequests \/ r = q
    BY <1>2 DEF TbConsume
  <2>3. RequestProven(q)'
    BY <1>2 DEF RequestProven
  <2> QED  BY <1>2, <2>1, <2>2, <2>3, FilesKept, StillAnchor
<1>3. ASSUME NEW w, NEW x, NEW s, NEW n, NEW d,
             TbClaimPassport(w, x, s, n) \/ TbAssignRoute(w, x, s, n, d)
      PROVE  FilesInv'
  <2>1. ASSUME NEW kind, NEW to, TbConsume(w, x, s, TbRequest(w, x, kind, n, to))
        PROVE  FilesInv'
    <3>1. PICK q : q = TbRequest(w, x, kind, n, to)
      OBVIOUS
    <3>2. Shaped(q) /\ q.step = "init"
      BY <3>1 DEF TbRequest, Shaped
    <3> QED  BY <1>2, <2>1, <3>1, <3>2
  <2> QED  BY <1>3, <2>1 DEF TbClaimPassport, TbAssignRoute
<1>4. ASSUME NEW r \in tbRequests, TbEnsureInitialized(r) PROVE FilesInv'
  <2>1. AnchorKept /\ UNCHANGED tbFiles /\ TbHears(r, "look")
    BY <1>4, StillAnchor, OnlyRoutes
       DEF TbEnsureInitialized, TbOnly, Initialize, passVars, AnchorKept, RoutesKept
  <2> QED  BY <2>1, HearsKept
<1>5. ASSUME NEW r \in tbRequests, NEW m, TbLookForPass(r, m) PROVE FilesInv'
  <2>1. UNCHANGED <<anVars, tbFiles>>
    BY <1>5 DEF TbLookForPass, TbOnly
  <2>2. PICK mint : mint = PassportOf(r.wallet)
    OBVIOUS
  <2>3. PICK p, given : /\ TbMoves(r, [r EXCEPT !.step = p, !.mint = given])
                        /\ \/ p = "send"
                           \/ p = "write" /\ given = mint /\ mint # None
    BY <1>5, <2>2 DEF TbLookForPass
  <2>4. PICK s : s = [r EXCEPT !.step = p, !.mint = given]
    OBVIOUS
  <2>5. PICK w, x, k, n, d, p0, m0 :
          r = [wallet |-> w, nonce |-> x, kind |-> k, name |-> n, dest |-> d,
               step |-> p0, mint |-> m0]
    BY <1>0 DEF Shaped
  <2>6. s = [wallet |-> w, nonce |-> x, kind |-> k, name |-> n, dest |-> d,
             step |-> p, mint |-> given]
    BY <2>4, <2>5
  <2>7. /\ Shaped(s) /\ s.wallet = r.wallet /\ s.kind = "claim"
        /\ s.step = p /\ s.mint = given
    BY <1>5, <2>5, <2>6 DEF Shaped, TbLookForPass
  <2>8. RequestProven(s)'
    BY <2>1, <2>2, <2>3, <2>7, LookedUp DEF RequestProven, anVars
  <2> QED  BY <2>1, <2>3, <2>4, <2>7, <2>8, MovesKept, StillAnchor
<1>6. ASSUME NEW r \in tbRequests, TbLookForRoute(r) PROVE FilesInv'
  <2>1. UNCHANGED <<anVars, tbFiles>>
    BY <1>6 DEF TbLookForRoute, TbOnly
  <2>2. CASE TbEnds(r)
    BY <2>1, <2>2, EndsKept, StillAnchor
  <2>3. CASE PassportOf(r.wallet) # None /\ TbHears(r, "send")
    BY <2>1, <2>3, HearsKept, LookedUp, StillAnchor DEF anVars
  <2> QED  BY <1>6, <2>2, <2>3 DEF TbLookForRoute, TbHears
<1>7. ASSUME NEW r \in tbRequests, TbSend(r) \/ TbLocalFallback(r) PROVE FilesInv'
  <2>1. /\ UNCHANGED <<anVars, tbFiles>> /\ r.step = "send"
        /\ TbHears(r, "sent") \/ TbHears(r, "unproven")
    BY <1>7 DEF TbSend, TbLocalFallback, TbHears, TbOnly
  <2>2. r.kind = "route" => r.wallet \in DOMAIN tollPasses'
    BY <1>0, <2>1 DEF RequestProven, anVars
  <2> QED  BY <2>1, <2>2, HearsKept, StillAnchor
<1>8. ASSUME NEW r \in tbRequests, TbConfirmIssue(r) PROVE FilesInv'
  <2>1. UNCHANGED tbFiles /\ r.kind = "claim"
    BY <1>8 DEF TbConfirmIssue, TbOnly
  <2>2. CASE IssueTollPass(r.wallet, r.name, r.mint) /\ TbHears(r, "write")
    <3>1. PICK p : p = TollPass(r.name, r.mint)
      OBVIOUS
    <3>2. r.wallet \in DOMAIN tollPasses' /\ tollPasses'[r.wallet] = p
      BY <2>2, <3>1 DEF IssueTollPass, Created
    <3>3. p.mint = r.mint
      BY <3>1 DEF TollPass
    <3> QED  BY <2>1, <2>2, <3>2, <3>3, HearsKept, IssueKeepsAnchor
  <2>3. CASE UNCHANGED anVars /\ TbHears(r, "unproven")
    BY <2>1, <2>3, HearsKept, StillAnchor
  <2> QED  BY <1>8, <2>2, <2>3 DEF TbConfirmIssue
<1>9. ASSUME NEW r \in tbRequests, TbConfirmRoute(r) PROVE FilesInv'
  <2>1. UNCHANGED tbFiles /\ r.kind = "route" /\ r.wallet \in DOMAIN tollPasses
    BY <1>0, <1>9 DEF TbConfirmRoute, TbOnly, RequestProven
  <2>2. AnchorKept => r.wallet \in DOMAIN tollPasses'
    BY <2>1 DEF AnchorKept, PassesKept
  <2>3. CASE TbHears(r, "write") /\ \E t \in AnTtls : SetRoute(r.wallet, r.name, r.dest, t)
    <3>1. AnchorKept /\ <<r.wallet, r.name>> \in DOMAIN anRoutes'
      BY <2>3, SetRouteKeepsAnchor
    <3> QED  BY <2>1, <2>2, <2>3, <3>1, HearsKept
  <2>4. CASE UNCHANGED anVars /\ TbHears(r, "unproven")
    BY <2>1, <2>2, <2>4, HearsKept, StillAnchor
  <2> QED  BY <1>9, <2>3, <2>4 DEF TbConfirmRoute
<1>10. ASSUME NEW r \in tbRequests, TbRefused(r) PROVE FilesInv'
  BY <1>10, EndsKept, StillAnchor DEF TbRefused, TbOnly
<1>11. ASSUME NEW r \in tbRequests, TbWritePassport(r) PROVE FilesInv'
  <2>1. PICK p : p = TollPass(r.name, r.mint)
    OBVIOUS
  <2>2. p.mint = r.mint
    BY <2>1 DEF TollPass
  <2>3. /\ tbPassports' = Created(tbPassports, r.wallet, p)
        /\ tbUnprovenPassports' = TbMarked(tbUnprovenPassports, r, r.wallet)
        /\ UNCHANGED <<tbRoutes, tbUnprovenRoutes, tollPasses, anRoutes>>
    BY <1>11, <2>1 DEF TbWritePassport, anVars
  <2>4. r.wallet \in tbUnprovenPassports'
        \/ (r.wallet \in DOMAIN tollPasses /\ tollPasses[r.wallet].mint = r.mint)
    BY <1>0, <1>11, <2>3 DEF TbWritePassport, RequestProven, TbMarked
  <2>5. ASSUME NEW w \in DOMAIN tbPassports' \ tbUnprovenPassports'
        PROVE  w \in DOMAIN tollPasses /\ tbPassports'[w].mint = tollPasses[w].mint
    BY <2>2, <2>3, <2>4 DEF Created, FilesInv, PassportFilesProven, Exists, TbMarked
  <2>6. ASSUME NEW q \in tbRequests' PROVE Shaped(q) /\ RequestProven(q)'
    BY <1>0, <1>11, <2>3 DEF TbWritePassport, TbEnds, RequestProven
  <2>7. ASSUME NEW f \in DOMAIN tbRoutes' PROVE RouteFileProven(f)'
    BY <2>3 DEF FilesInv, RouteFileProven
  <2> QED  BY <2>3, <2>5, <2>6, <2>7 DEF FilesInv, PassportFilesProven, Exists
<1>12. ASSUME NEW r \in tbRequests, TbWriteRoute(r) PROVE FilesInv'
  <2>1. PICK at : at = <<r.wallet, r.name>>
    OBVIOUS
  <2>2. at = <<at[1], at[2]>> /\ at[1] = r.wallet
    BY <2>1
  <2>3. /\ DOMAIN tbRoutes' = DOMAIN tbRoutes \cup {at}
        /\ tbUnprovenRoutes' = TbMarked(tbUnprovenRoutes, r, at)
        /\ UNCHANGED <<tbPassports, tbUnprovenPassports, tollPasses, anRoutes>>
    BY <1>12, <2>1 DEF TbWriteRoute, anVars, Created
  <2>4. /\ r.kind = "route" /\ r.step \in {"write", "unproven"}
        /\ r.wallet \in DOMAIN tollPasses
        /\ r.step = "write" => at \in DOMAIN anRoutes
    BY <1>0, <1>12, <2>1 DEF TbWriteRoute, RequestProven
  <2>5. RouteFileProven(at)'
    BY <2>2, <2>3, <2>4 DEF RouteFileProven, TbMarked
  <2>6. ASSUME NEW f \in DOMAIN tbRoutes, f # at PROVE RouteFileProven(f)'
    BY <2>3, <2>6 DEF FilesInv, RouteFileProven, TbMarked
  <2>7. PassportFilesProven'
    BY <2>3 DEF FilesInv, PassportFilesProven, Exists
  <2>8. ASSUME NEW q \in tbRequests' PROVE Shaped(q) /\ RequestProven(q)'
    BY <1>0, <1>12, <2>3 DEF TbWriteRoute, TbEnds, RequestProven
  <2> QED  BY <2>3, <2>5, <2>6, <2>7, <2>8 DEF FilesInv
<1>13. CASE TbRestart
  BY <1>13, FilesKept, StillAnchor DEF TbRestart
<1> QED
  BY <1>1, <1>3, <1>4, <1>5, <1>6, <1>7, <1>8, <1>9, <1>10, <1>11, <1>12, <1>13 DEF TbNext

\* A passport in a file is the wallet's on the chain, whatever requests ran at
\* the same time, were cut off, or never heard of their transaction, but for the
\* files last written after a claim that failed on the chain: confirmTransaction
\* answers with the error, which solana.ts:381 does not look at.
THEOREM PassportFilesAreProven == TbSpec => []PassportFilesProven
<1>1. ChainInit /\ AnInit /\ TbInit => FilesInv
  BY DEF TbInit, NoAccounts, FilesInv, PassportFilesProven
<1>2. FilesInv /\ [TbNext /\ UNCHANGED <<slot, repVars, cacheHeads>>]_<<slot, anchorVars, tbVars>>
        => FilesInv'
  <2>1. ASSUME FilesInv, UNCHANGED <<anchorVars, tbVars>> PROVE FilesInv'
    BY <2>1, FilesKept, StillAnchor DEF anchorVars, tbVars
  <2> QED  BY <2>1, TbNext_Files
<1>3. FilesInv => PassportFilesProven
  BY DEF FilesInv
<1> QED  BY <1>1, <1>2, <1>3, PTL DEF TbSpec

-----------------------------------------------------------------------------
(***************************************************************************)
(* What is paid was paid in time: for any prices, any number of quotes and *)
(* checkouts and any length of time.                                       *)
(***************************************************************************)

CheckoutRecords ==
  [quote: PayQuoteIds \cup {0}, rail: PayRails \cup {"none"}, expires: Nat,
   status: {"none", "pending", "paid", "expired"}, paidAt: Nat \cup {-1}]

\* A checkout keeps the expiry of its quote and one of its rails, a quote that
\* was made is never made again, and one is marked expired only when it is.
PayInv ==
  /\ payNow \in Nat
  /\ quotes \in [PayQuoteIds ->
                  [rails: SUBSET PayRails, expires: Nat,
                   status: {"none", "pending", "expired"}]]
  /\ checkouts \in [PayCheckoutIds -> CheckoutRecords]
  /\ \A q \in PayQuoteIds : quotes[q].status = "expired" => quotes[q].expires <= payNow
  /\ \A c \in PayCheckoutIds :
       checkouts[c].status # "none" =>
         /\ checkouts[c].quote \in PayQuoteIds
         /\ quotes[checkouts[c].quote].status # "none"
         /\ checkouts[c].expires = quotes[checkouts[c].quote].expires
         /\ checkouts[c].rail \in quotes[checkouts[c].quote].rails
         /\ checkouts[c].status = "paid" => checkouts[c].paidAt < checkouts[c].expires

\* No quote and no checkout at the start.
LEMMA PayInit_Inv == PayInit => PayInv
<1> SUFFICES ASSUME PayInit PROVE PayInv
  OBVIOUS
<1> QED  BY DEF PayInit, PayInv, NoQuote, NoCheckout, CheckoutRecords

\* Every request and the clock keep the invariant.
LEMMA PayNext_Inv == PayInv /\ [PayNext]_payVars => PayInv'
<1> SUFFICES ASSUME PayInv, [PayNext]_payVars PROVE PayInv'
  OBVIOUS
<1>1. CASE CreateQuote
  <2>1. PICK q \in PayQuoteIds, rails \in SUBSET PayRails \ {{}} :
          /\ quotes[q].status = "none"
          /\ quotes' = [quotes EXCEPT ![q] =
               [rails |-> rails, expires |-> payNow + PayQuoteTtl, status |-> "pending"]]
    BY <1>1 DEF CreateQuote
  <2>2. payNow' = payNow /\ checkouts' = checkouts
    BY <1>1 DEF CreateQuote
  <2>3. payNow + PayQuoteTtl \in Nat
    BY PayAssumption DEF PayInv
  <2> QED  BY <2>1, <2>2, <2>3 DEF PayInv, CheckoutRecords
<1>2. CASE CreateCheckout
  <2>1. PICK c \in PayCheckoutIds, q \in PayQuoteIds, rail \in PayRails :
          /\ checkouts[c].status = "none" /\ quotes[q].status # "none"
          /\ rail \in quotes[q].rails
          /\ checkouts' = [checkouts EXCEPT ![c] =
               [quote |-> q, rail |-> rail, expires |-> quotes[q].expires,
                status |-> "pending", paidAt |-> -1]]
    BY <1>2 DEF CreateCheckout
  <2>2. payNow' = payNow /\ quotes' = quotes
    BY <1>2 DEF CreateCheckout
  <2>3. PICK r : r = [quote |-> q, rail |-> rail, expires |-> quotes[q].expires,
                      status |-> "pending", paidAt |-> -1]
    OBVIOUS
  <2>4. r \in CheckoutRecords /\ quotes[q].expires \in Nat
    BY <2>3 DEF PayInv, CheckoutRecords
  <2>5. checkouts' = [checkouts EXCEPT ![c] = r]
    BY <2>1, <2>3
  <2>6. r.status = "pending" /\ r.quote = q /\ r.rail = rail /\ r.expires = quotes[q].expires
    BY <2>3
  <2> QED  BY <2>1, <2>2, <2>4, <2>5, <2>6 DEF PayInv
<1>3. CASE CheckoutTooLate
  <2>1. PICK q \in PayQuoteIds :
          /\ quotes[q].status # "none" /\ quotes[q].expires <= payNow
          /\ quotes' = [quotes EXCEPT ![q].status = "expired"]
    BY <1>3 DEF CheckoutTooLate, IsExpired
  <2>2. payNow' = payNow /\ checkouts' = checkouts
    BY <1>3 DEF CheckoutTooLate
  <2> QED  BY <2>1, <2>2 DEF PayInv, CheckoutRecords
<1>4. CASE GetStatus
  <2>1. PICK c \in PayCheckoutIds :
          /\ checkouts[c].status # "none"
          /\ checkouts' = [checkouts EXCEPT ![c].status = StatusAfterAsking(c)]
    BY <1>4 DEF GetStatus
  <2>2. payNow' = payNow /\ quotes' = quotes
    BY <1>4 DEF GetStatus
  <2>3. \/ StatusAfterAsking(c) = checkouts[c].status
        \/ StatusAfterAsking(c) = "expired"
    BY DEF StatusAfterAsking, PayInv, CheckoutRecords
  <2> QED  BY <2>1, <2>2, <2>3 DEF PayInv, CheckoutRecords
<1>5. CASE MarkPaid
  <2>1. PICK c \in PayCheckoutIds :
          /\ checkouts[c].status # "none"
          /\ checkouts' = [checkouts EXCEPT ![c] =
               IF CanPay(c) THEN [@ EXCEPT !.status = "paid", !.paidAt = payNow]
                            ELSE [@ EXCEPT !.status = "expired"]]
    BY <1>5 DEF MarkPaid
  <2>2. payNow' = payNow /\ quotes' = quotes
    BY <1>5 DEF MarkPaid
  <2>3. checkouts[c] \in CheckoutRecords
    BY DEF PayInv
  <2>4. CASE CanPay(c)
    <3>1. payNow < checkouts[c].expires
      BY <2>4 DEF CanPay, IsExpired, PayInv, CheckoutRecords
    <3>2. PICK r : r = [checkouts[c] EXCEPT !.status = "paid", !.paidAt = payNow]
      OBVIOUS
    <3>3. checkouts' = [checkouts EXCEPT ![c] = r]
      BY <2>1, <2>4, <3>2
    <3>4. /\ r \in CheckoutRecords /\ r.status = "paid" /\ r.paidAt = payNow
          /\ r.quote = checkouts[c].quote /\ r.rail = checkouts[c].rail
          /\ r.expires = checkouts[c].expires
      BY <2>3, <3>2 DEF PayInv, CheckoutRecords
    <3> QED  BY <2>1, <2>2, <3>1, <3>3, <3>4 DEF PayInv
  <2>5. CASE ~CanPay(c)
    <3>1. PICK r : r = [checkouts[c] EXCEPT !.status = "expired"]
      OBVIOUS
    <3>2. checkouts' = [checkouts EXCEPT ![c] = r]
      BY <2>1, <2>5, <3>1
    <3>3. /\ r \in CheckoutRecords /\ r.status = "expired"
          /\ r.quote = checkouts[c].quote /\ r.rail = checkouts[c].rail
          /\ r.expires = checkouts[c].expires
      BY <2>3, <3>1 DEF CheckoutRecords
    <3>4. checkouts' \in [PayCheckoutIds -> CheckoutRecords]
      BY <2>1, <3>2, <3>3 DEF PayInv
    <3>5. ASSUME NEW d \in PayCheckoutIds, checkouts'[d].status # "none"
          PROVE  /\ checkouts'[d].quote \in PayQuoteIds
                 /\ quotes[checkouts'[d].quote].status # "none"
                 /\ checkouts'[d].expires = quotes[checkouts'[d].quote].expires
                 /\ checkouts'[d].rail \in quotes[checkouts'[d].quote].rails
                 /\ checkouts'[d].status = "paid"
                    => checkouts'[d].paidAt < checkouts'[d].expires
      <4>1. CASE d = c
        <5>1. checkouts'[d] = r
          BY <4>1, <3>2 DEF PayInv
        <5> QED  BY <5>1, <2>1, <3>3 DEF PayInv
      <4>2. CASE d # c
        <5>1. checkouts'[d] = checkouts[d]
          BY <4>2, <3>2 DEF PayInv
        <5> QED  BY <5>1, <3>5 DEF PayInv
      <4> QED  BY <4>1, <4>2
    <3> QED  BY <2>2, <3>4, <3>5 DEF PayInv
  <2> QED  BY <2>4, <2>5
<1>6. CASE PayTick
  BY <1>6 DEF PayTick, PayInv, CheckoutRecords
<1>7. CASE UNCHANGED payVars
  BY <1>7 DEF payVars, PayInv
<1> QED  BY <1>1, <1>2, <1>3, <1>4, <1>5, <1>6, <1>7 DEF PayNext

\* A paid checkout was paid on a rail of its quote before the quote ran out
\* (markPaid, createCheckout), and a quote marked expired by one checkout is
\* expired for all of them (isExpired).
THEOREM PaymentsInTime == PaySpec => []PaidInTime
<1>1. PayInv => PaidInTime
  <2> SUFFICES ASSUME PayInv, NEW c \in PayCheckoutIds
               PROVE LET quote == quotes[checkouts[c].quote]
                     IN /\ checkouts[c].status = "paid" =>
                             /\ checkouts[c].rail \in quote.rails
                             /\ checkouts[c].paidAt < quote.expires
                        /\ checkouts[c].status \notin {"none", "paid"} /\ quote.status = "expired"
                             => StatusAfterAsking(c) = "expired"
    BY DEF PaidInTime
  <2> QED  BY DEF PayInv, CheckoutRecords, StatusAfterAsking, IsExpired
<1> QED  BY PayInit_Inv, PayNext_Inv, <1>1, PTL DEF PaySpec

-----------------------------------------------------------------------------
(***************************************************************************)
(* Signing in to the coordinator, and its treasury: for any wallets,       *)
(* policies, times to live and configurations.                             *)
(***************************************************************************)

\* A sign-in, before its session: the challenge was answered in time, and it
\* waits for a passport only where passports are asked for.
LoginInTime(login) == login.signedAt <= login.challengeExpires
SignInProven(job) ==
  LoginInTime(job.login) /\ csConfig.passport /\ job.evm \in CsEvmWallets

\* A cached passport expires after its time.
PassportTimed(p) == p.seen \in Nat /\ p.expiresAt = p.seen + CsPassportTtl

SessionsInv ==
  /\ csNow \in Nat
  /\ SessionsProven
  /\ \A job \in csJobs : SignInProven(job)
  /\ \A e \in DOMAIN csPassports : PassportTimed(csPassports[e])

LEMMA CsInit_Sessions == CsInit => SessionsInv
BY DEF CsInit, SessionsInv, SessionsProven, CsNoMap

\* A session that is opened in time, with a passport seen in time, is proven.
LEMMA SessionOpened ==
  ASSUME SessionsProven, NEW w, NEW evm, NEW login, NEW seen,
         OpenSession(w, evm, login, seen), UNCHANGED csConfig, LoginInTime(login),
         csConfig.passport => evm \in CsEvmWallets /\ csNow <= seen + CsPassportTtl,
         ~csConfig.passport /\ evm \notin CsEvmWallets => w \in csConfig.allowlist
  PROVE  SessionsProven'
<1>1. PICK s : s = [id |-> Cardinality(csSessions) + 1, wallet |-> w, evm |-> evm,
                    at |-> csNow, expiresAt |-> csNow + CsTtl, seen |-> seen,
                    login |-> login]
  OBVIOUS
<1>2. s.wallet = w /\ s.evm = evm /\ s.at = csNow /\ s.seen = seen /\ s.login = login
  BY <1>1
<1>3. csSessions' = csSessions \cup {s}
  BY <1>1 DEF OpenSession
<1> QED  BY <1>2, <1>3 DEF SessionsProven, LoginInTime

LEMMA CsNext_Sessions == SessionsInv /\ [CsNext]_csVars => SessionsInv'
<1> SUFFICES ASSUME SessionsInv, [CsNext]_csVars PROVE SessionsInv'
  OBVIOUS
<1>0. csNow \in Nat /\ CsPassportTtl \in Nat
  BY CsAssumption DEF SessionsInv
\* Nothing is signed in, and no time passes.
<1>1. ASSUME UNCHANGED <<csNow, csConfig, csSessions, csPassports>>, csJobs' \subseteq csJobs
      PROVE  SessionsInv'
  BY <1>1 DEF SessionsInv, SessionsProven, SignInProven, PassportTimed
<1>2. ASSUME NEW w, AskLogin(w) \/ CommentChallenge(w) PROVE SessionsInv'
  BY <1>1, <1>2 DEF AskLogin, CommentChallenge
<1>3. ASSUME NEW w \in CsWallets, NEW signed, NEW evm \in CsWallets,
             VerifyLogin(w, signed, evm)
      PROVE  SessionsInv'
  <2>1. PICK login : login = [challenge |-> signed, signedAt |-> csNow,
                              challengeExpires |-> csChallenges[w].expiresAt,
                              before |-> Cardinality(csSessions)]
    OBVIOUS
  <2>2. LoginInTime(login)
    <3>1. login.signedAt = csNow /\ login.challengeExpires = csChallenges[w].expiresAt
      BY <2>1
    <3>2. csChallenges[w].expiresAt >= csNow
      BY <1>3 DEF VerifyLogin, ChallengeAnswered
    <3> QED  BY <3>1, <3>2 DEF LoginInTime
  <2>3. /\ evm \notin CsEvmWallets => ~csConfig.passport /\ w \in csConfig.allowlist
        /\ UNCHANGED <<csNow, csConfig, csPassports>>
    BY <1>3 DEF VerifyLogin, CsWallets
  <2>4. CASE /\ ~csConfig.passport /\ OpenSession(w, evm, login, csNow)
             /\ UNCHANGED csJobs
    <3>1. SessionsProven'
      BY <2>2, <2>3, <2>4, SessionOpened DEF SessionsInv
    <3> QED  BY <2>3, <2>4, <3>1 DEF SessionsInv, SignInProven, PassportTimed
  <2>5. CASE /\ csConfig.passport /\ PassportCached(evm)
             /\ IF csPassports[evm].ok
                THEN OpenSession(w, evm, login, csPassports[evm].seen)
                ELSE UNCHANGED <<csSessions, csChallenges>>
             /\ UNCHANGED csJobs
    <3>1. csNow <= csPassports[evm].seen + CsPassportTtl
      BY <1>0, <2>5 DEF PassportCached, SessionsInv, PassportTimed
    <3>2. SessionsProven'
      <4>1. CASE csPassports[evm].ok
        BY <2>2, <2>3, <2>5, <3>1, <4>1, SessionOpened DEF SessionsInv
      <4>2. CASE ~csPassports[evm].ok
        BY <2>3, <2>5, <4>2 DEF SessionsInv, SessionsProven
      <4> QED  BY <4>1, <4>2
    <3> QED  BY <2>3, <2>5, <3>2 DEF SessionsInv, SignInProven, PassportTimed
  <2>6. CASE /\ csConfig.passport
             /\ csJobs' = csJobs \cup {[id |-> FreshJob, wallet |-> w, evm |-> evm,
                                        login |-> login]}
             /\ UNCHANGED <<csSessions, csChallenges>>
    <3>1. PICK job : job = [id |-> FreshJob, wallet |-> w, evm |-> evm, login |-> login]
      OBVIOUS
    <3>2. job.evm = evm /\ job.login = login
      BY <3>1
    <3>3. csJobs' = csJobs \cup {job}
      BY <2>6, <3>1
    <3> QED  BY <2>2, <2>3, <2>6, <3>2, <3>3
             DEF SessionsInv, SessionsProven, SignInProven, PassportTimed
  <2> QED  BY <1>3, <2>1, <2>4, <2>5, <2>6 DEF VerifyLogin
<1>4. ASSUME NEW job \in csJobs, NEW owns, PassportAnswers(job, owns) PROVE SessionsInv'
  <2>1. SignInProven(job)
    BY DEF SessionsInv
  <2>2. PICK p : p = [ok |-> owns, seen |-> csNow, expiresAt |-> csNow + CsPassportTtl]
    OBVIOUS
  <2>3. PassportTimed(p)
    BY <1>0, <2>2 DEF PassportTimed
  <2>4. /\ csPassports' = CsSet(csPassports, job.evm, p)
        /\ UNCHANGED <<csNow, csConfig>> /\ csJobs' \subseteq csJobs
    BY <1>4, <2>2 DEF PassportAnswers
  <2>5. \A e \in DOMAIN csPassports' : PassportTimed(csPassports'[e])
    BY <2>3, <2>4 DEF CsSet, SessionsInv
  <2>6. SessionsProven'
    <3>1. CASE owns
      <4>1. OpenSession(job.wallet, job.evm, job.login, csNow)
        BY <1>4, <3>1 DEF PassportAnswers
      <4> QED  BY <1>0, <2>1, <2>4, <4>1, SessionOpened DEF SessionsInv, SignInProven
    <3>2. CASE ~owns
      BY <1>4, <2>4, <3>2 DEF PassportAnswers, SessionsInv, SessionsProven
    <3> QED  BY <3>1, <3>2
  <2> QED  BY <2>4, <2>5, <2>6 DEF SessionsInv, SignInProven, PassportTimed
<1>5. ASSUME NEW job, PassportCallFails(job) PROVE SessionsInv'
  BY <1>1, <1>5 DEF PassportCallFails
<1>6. ASSUME NEW w, NEW signed, CommentVerify(w, signed) PROVE SessionsInv'
  BY <1>1, <1>6 DEF CommentVerify, csSignIn
<1>7. ASSUME NEW p, NEW b, AllocateTreasury(p, b) PROVE SessionsInv'
  BY <1>1, <1>7 DEF AllocateTreasury, csSignIn
<1>8. CASE QueueAction \/ OtherSave
  BY <1>1, <1>8 DEF QueueAction, OtherSave, csSignIn
<1>9. CASE CsRestart
  BY <1>9 DEF CsRestart, SessionsInv, SessionsProven, CsNoMap
<1>10. CASE CsTick
  <2>1. csNow' = csNow + 1 /\ UNCHANGED <<csConfig, csSessions, csPassports, csJobs>>
    BY <1>10 DEF CsTick, csSignIn
  <2> QED  BY <2>1 DEF SessionsInv, SessionsProven, SignInProven, PassportTimed
<1>11. CASE UNCHANGED csVars
  BY <1>1, <1>11 DEF csVars
<1> QED  BY <1>2, <1>3, <1>4, <1>5, <1>6, <1>7, <1>8, <1>9, <1>10, <1>11 DEF CsNext

\* An answer to a challenge of wallet w, before its session: it came before any
\* session of its challenge, and the challenge is of no other wallet.
Answering(w, login) ==
  /\ login.before \in 0 .. Cardinality(csSessions) /\ login.challenge \in 1 .. csIssued
  /\ \A v \in DOMAIN csChallenges : csChallenges[v].id = login.challenge => v = w
  /\ \A s \in csSessions : s.login.challenge = login.challenge => login.before < s.id

\* A challenge is of one wallet, and the one behind a session is gone.
LoginsInv ==
  /\ csIssued \in Nat /\ IsFiniteSet(csSessions)
  /\ \A w \in DOMAIN csChallenges : csChallenges[w].id \in 1 .. csIssued
  /\ \A w, v \in DOMAIN csChallenges : csChallenges[w].id = csChallenges[v].id => w = v
  /\ \A job \in csJobs : Answering(job.wallet, job.login)
  /\ \A s \in csSessions :
       /\ s.id \in 1 .. Cardinality(csSessions) /\ s.login.challenge \in 1 .. csIssued
       /\ \A w \in DOMAIN csChallenges : csChallenges[w].id # s.login.challenge
  /\ SessionsCrossed

LEMMA CsInit_Logins == CsInit => LoginsInv
BY FS_EmptySet DEF CsInit, LoginsInv, SessionsCrossed, CsNoMap

\* The session of an answer.
LEMMA LoginOpens ==
  ASSUME LoginsInv, NEW w, NEW evm, NEW login, NEW seen, Answering(w, login),
         OpenSession(w, evm, login, seen), UNCHANGED csIssued, csJobs' \subseteq csJobs
  PROVE  LoginsInv'
<1>1. PICK n \in Nat : n = Cardinality(csSessions)
  BY FS_CardinalityType DEF LoginsInv
<1>2. PICK s : s = [id |-> n + 1, wallet |-> w, evm |-> evm, at |-> csNow,
                    expiresAt |-> csNow + CsTtl, seen |-> seen, login |-> login]
  OBVIOUS
<1>3. s.id = n + 1 /\ s.login = login
  BY <1>2
<1>4. csSessions' = csSessions \cup {s}
  BY <1>1, <1>2 DEF OpenSession
<1>5. s \notin csSessions
  BY <1>1, <1>3 DEF LoginsInv
<1>6. IsFiniteSet(csSessions') /\ Cardinality(csSessions') = n + 1
  BY <1>1, <1>4, <1>5, FS_AddElement DEF LoginsInv
<1>7. /\ DOMAIN csChallenges' = DOMAIN csChallenges \ {w}
      /\ \A v \in DOMAIN csChallenges' : csChallenges'[v] = csChallenges[v]
  BY DEF OpenSession, CsDrop
<1>8. /\ login.before \in 0 .. n /\ login.challenge \in 1 .. csIssued
      /\ \A t \in csSessions : t.login.challenge = login.challenge => login.before < t.id
  BY <1>1 DEF Answering
<1>9. \A t \in csSessions : t.id \in 1 .. n
  BY <1>1 DEF LoginsInv
<1>10. SessionsCrossed'
  <2>1. ASSUME NEW t \in csSessions', NEW u \in csSessions',
               t.login.challenge = u.login.challenge, t.id < u.id
        PROVE  u.login.before < t.id
    <3>1. t # s
      BY <1>3, <1>4, <1>9, <2>1
    <3>2. CASE u = s
      BY <1>3, <1>4, <1>8, <2>1, <3>1, <3>2
    <3>3. CASE u # s
      BY <1>4, <2>1, <3>1, <3>3 DEF LoginsInv, SessionsCrossed
    <3> QED  BY <3>2, <3>3
  <2> QED  BY <2>1 DEF SessionsCrossed
<1>11. ASSUME NEW job \in csJobs' PROVE Answering(job.wallet, job.login)'
  <2>1. Answering(job.wallet, job.login)
    BY DEF LoginsInv
  <2>2. job.login.before \in 0 .. n
    BY <1>1, <2>1 DEF Answering
  <2>3. \A t \in csSessions' : t.login.challenge = job.login.challenge => job.login.before < t.id
    BY <1>3, <1>4, <2>1, <2>2 DEF Answering
  <2> QED  BY <1>6, <1>7, <2>1, <2>2, <2>3 DEF Answering
<1>12. ASSUME NEW t \in csSessions'
       PROVE  /\ t.id \in 1 .. n + 1 /\ t.login.challenge \in 1 .. csIssued
              /\ \A v \in DOMAIN csChallenges' : csChallenges'[v].id # t.login.challenge
  <2>1. CASE t = s
    BY <1>1, <1>3, <1>7, <1>8, <2>1 DEF Answering
  <2>2. CASE t # s
    BY <1>1, <1>4, <1>7, <1>9, <2>2 DEF LoginsInv
  <2> QED  BY <2>1, <2>2
<1> QED  BY <1>6, <1>7, <1>10, <1>11, <1>12 DEF LoginsInv

LEMMA CsNext_Logins == LoginsInv /\ [CsNext]_csVars => LoginsInv'
<1> SUFFICES ASSUME LoginsInv, [CsNext]_csVars PROVE LoginsInv'
  OBVIOUS
\* Nothing is signed in.
<1>1. ASSUME UNCHANGED <<csChallenges, csIssued, csSessions>>, csJobs' \subseteq csJobs
      PROVE  LoginsInv'
  BY <1>1 DEF LoginsInv, SessionsCrossed, Answering
<1>2. ASSUME NEW w, AskLogin(w) PROVE LoginsInv'
  <2>1. /\ csIssued' = csIssued + 1 /\ UNCHANGED <<csSessions, csJobs>>
        /\ DOMAIN csChallenges' = DOMAIN csChallenges \cup {w}
        /\ csChallenges'[w].id = csIssued'
        /\ \A v \in DOMAIN csChallenges : v # w => csChallenges'[v] = csChallenges[v]
    BY <1>2 DEF AskLogin, CsSet
  <2>2. \A v \in DOMAIN csChallenges' : v # w => v \in DOMAIN csChallenges
                                               /\ csChallenges'[v].id \in 1 .. csIssued
    BY <2>1 DEF LoginsInv
  <2>3. \A job \in csJobs' : Answering(job.wallet, job.login)'
    <3>1. TAKE job \in csJobs'
    <3>2. Answering(job.wallet, job.login)
      BY <2>1 DEF LoginsInv
    <3>3. ASSUME NEW v \in DOMAIN csChallenges', csChallenges'[v].id = job.login.challenge
          PROVE  v = job.wallet
      BY <2>1, <2>2, <3>2, <3>3 DEF Answering, LoginsInv
    <3> QED  BY <2>1, <3>2, <3>3 DEF Answering, LoginsInv
  <2>4. ASSUME NEW s \in csSessions', NEW v \in DOMAIN csChallenges'
        PROVE  csChallenges'[v].id # s.login.challenge
    BY <2>1, <2>2 DEF LoginsInv
  <2>5. \A v, u \in DOMAIN csChallenges' : csChallenges'[v].id = csChallenges'[u].id => v = u
    BY <2>1, <2>2 DEF LoginsInv
  <2> QED  BY <2>1, <2>2, <2>3, <2>4, <2>5 DEF LoginsInv, SessionsCrossed
<1>3. ASSUME NEW w, NEW signed, NEW evm, VerifyLogin(w, signed, evm) PROVE LoginsInv'
  <2>1. PICK n \in Nat : n = Cardinality(csSessions)
    BY FS_CardinalityType DEF LoginsInv
  <2>2. PICK login : login = [challenge |-> signed, signedAt |-> csNow,
                              challengeExpires |-> csChallenges[w].expiresAt, before |-> n]
    OBVIOUS
  <2>3. login.challenge = signed /\ login.before = n
    BY <2>2
  <2>4. w \in DOMAIN csChallenges /\ csChallenges[w].id = signed
    BY <1>3 DEF VerifyLogin, ChallengeAnswered
  <2>5. Answering(w, login)
    BY <2>1, <2>3, <2>4 DEF Answering, LoginsInv
  <2>6. UNCHANGED csIssued
    BY <1>3 DEF VerifyLogin
  <2>7. CASE UNCHANGED csJobs /\ \E seen : OpenSession(w, evm, login, seen)
    BY <2>5, <2>6, <2>7, LoginOpens
  <2>8. CASE UNCHANGED <<csJobs, csSessions, csChallenges>>
    BY <1>1, <2>6, <2>8
  <2>9. CASE /\ csJobs' = csJobs \cup {[id |-> FreshJob, wallet |-> w, evm |-> evm,
                                        login |-> login]}
             /\ UNCHANGED <<csSessions, csChallenges>>
    <3>1. PICK job : job = [id |-> FreshJob, wallet |-> w, evm |-> evm, login |-> login]
      OBVIOUS
    <3>2. job.wallet = w /\ job.login = login /\ csJobs' = csJobs \cup {job}
      BY <2>9, <3>1
    <3>3. \A j \in csJobs' : Answering(j.wallet, j.login)
      BY <2>5, <3>2 DEF LoginsInv
    <3> QED  BY <2>6, <2>9, <3>3 DEF LoginsInv, SessionsCrossed, Answering
  <2> QED  BY <1>3, <2>1, <2>2, <2>7, <2>8, <2>9 DEF VerifyLogin
<1>4. ASSUME NEW job \in csJobs, NEW owns, PassportAnswers(job, owns) PROVE LoginsInv'
  <2>1. UNCHANGED csIssued /\ csJobs' \subseteq csJobs
    BY <1>4 DEF PassportAnswers
  <2>2. CASE OpenSession(job.wallet, job.evm, job.login, csNow)
    <3>1. Answering(job.wallet, job.login)
      BY DEF LoginsInv
    <3> QED  BY <2>1, <2>2, <3>1, LoginOpens
  <2>3. CASE UNCHANGED <<csSessions, csChallenges>>
    BY <1>1, <2>1, <2>3
  <2> QED  BY <1>4, <2>2, <2>3 DEF PassportAnswers
<1>5. ASSUME NEW job, PassportCallFails(job) PROVE LoginsInv'
  BY <1>1, <1>5 DEF PassportCallFails
<1>6. ASSUME NEW w, CommentChallenge(w) PROVE LoginsInv'
  BY <1>6 DEF CommentChallenge, LoginsInv, SessionsCrossed, Answering
<1>7. ASSUME NEW w, NEW signed, CommentVerify(w, signed) PROVE LoginsInv'
  BY <1>1, <1>7 DEF CommentVerify, csSignIn
<1>8. ASSUME NEW p, NEW b, AllocateTreasury(p, b) PROVE LoginsInv'
  BY <1>1, <1>8 DEF AllocateTreasury, csSignIn
<1>9. CASE QueueAction \/ OtherSave \/ CsTick \/ UNCHANGED csVars
  BY <1>1, <1>9 DEF QueueAction, OtherSave, CsTick, csVars, csSignIn
<1>10. CASE CsRestart
  BY <1>10, FS_EmptySet DEF CsRestart, LoginsInv, SessionsCrossed, CsNoMap
<1> QED  BY <1>2, <1>3, <1>4, <1>5, <1>6, <1>7, <1>8, <1>9, <1>10 DEF CsNext

-----------------------------------------------------------------------------
(***************************************************************************)
(* The challenges of the toll booth, and the answers of its resolver: for  *)
(* any wallets, any number of challenges and any requests at once.         *)
(***************************************************************************)

\* A challenge that was made and is not pending, with any wallet.
Spent(x) == x \in 1..tbNonce /\ \A w \in DOMAIN tbChallenges : tbChallenges[w] # x

\* A nonce is pending with one wallet, or it was used; and a used one is in one
\* request, however often the request has moved.
ChallengesInv ==
  /\ tbNonce \in Nat
  /\ \A w \in DOMAIN tbChallenges : tbChallenges[w] \in 1..tbNonce
  /\ \A w, v \in DOMAIN tbChallenges : tbChallenges[w] = tbChallenges[v] => w = v
  /\ \A a \in tbAccepted : Spent(a[2])
  /\ \A r \in tbRequests : Shaped(r) /\ Spent(r.nonce)
  /\ \A r, s \in tbRequests : r.nonce = s.nonce => r = s

LEMMA TbInit_Challenges == TbInit => ChallengesInv
BY DEF TbInit, ChallengesInv, NoAccounts

\* A request that moves keeps its nonce.
LEMMA NonceMoves ==
  ASSUME ChallengesInv, NEW r \in tbRequests, NEW s, TbMoves(r, s), Shaped(s),
         s.nonce = r.nonce, UNCHANGED <<tbNonce, tbChallenges, tbAccepted>>
  PROVE  ChallengesInv'
<1>1. \A q \in tbRequests' : q = s \/ (q \in tbRequests /\ q # r)
  BY DEF TbMoves
<1>2. ASSUME NEW q \in tbRequests'
      PROVE  Shaped(q) /\ Spent(q.nonce)'
  BY <1>1, <1>2 DEF ChallengesInv, Spent
<1>3. ASSUME NEW q \in tbRequests', NEW p \in tbRequests', q.nonce = p.nonce PROVE q = p
  BY <1>1, <1>3 DEF ChallengesInv
<1> QED  BY <1>2, <1>3 DEF ChallengesInv, Spent

\* Challenges are dropped, requests end, and none is used.
LEMMA NonceEnds ==
  ASSUME ChallengesInv, tbRequests' \subseteq tbRequests,
         UNCHANGED <<tbNonce, tbAccepted>>,
         DOMAIN tbChallenges' \subseteq DOMAIN tbChallenges,
         \A w \in DOMAIN tbChallenges' : tbChallenges'[w] = tbChallenges[w]
  PROVE  ChallengesInv'
BY DEF ChallengesInv, Spent

\* One step of a request, or of the booth itself.
LEMMA TbNext_Challenges == ChallengesInv /\ [TbNext]_tbVars => ChallengesInv'
<1> SUFFICES ASSUME ChallengesInv, [TbNext]_tbVars PROVE ChallengesInv'
  OBVIOUS
<1>0. \A r \in tbRequests : Shaped(r)
  BY DEF ChallengesInv
<1>1. ASSUME NEW w, TbChallenge(w) PROVE ChallengesInv'
  <2>1. /\ tbNonce' = tbNonce + 1
        /\ DOMAIN tbChallenges' = DOMAIN tbChallenges \cup {w}
        /\ tbChallenges'[w] = tbNonce'
        /\ \A v \in DOMAIN tbChallenges : v # w => tbChallenges'[v] = tbChallenges[v]
        /\ UNCHANGED <<tbRequests, tbAccepted>>
    BY <1>1 DEF TbChallenge, Created
  <2>2. ASSUME NEW x, Spent(x) PROVE Spent(x)'
    BY <2>1, <2>2 DEF Spent, ChallengesInv
  <2>3. \A v \in DOMAIN tbChallenges' : v # w => tbChallenges'[v] \in 1..tbNonce
    BY <2>1 DEF ChallengesInv
  <2> QED  BY <2>1, <2>2, <2>3 DEF ChallengesInv
<1>2. ASSUME NEW w, TbExpire(w) PROVE ChallengesInv'
  BY <1>2, NonceEnds DEF TbExpire, Without
<1>3. ASSUME NEW w, NEW x, NEW s, NEW q, Shaped(q), q.nonce = x, TbConsume(w, x, s, q)
      PROVE  ChallengesInv'
  <2>1. /\ w \in DOMAIN tbChallenges /\ tbChallenges[w] = x
        /\ DOMAIN tbChallenges' = DOMAIN tbChallenges \ {w}
        /\ \A v \in DOMAIN tbChallenges' : tbChallenges'[v] = tbChallenges[v]
        /\ UNCHANGED tbNonce
    BY <1>3 DEF TbConsume, Exists, Without
  <2>2. ASSUME NEW y, Spent(y) PROVE Spent(y)' /\ y # x
    BY <2>1, <2>2 DEF Spent
  <2>3. Spent(x)'
    BY <2>1 DEF Spent, ChallengesInv
  <2>4. \A r \in tbRequests' : r = q \/ r \in tbRequests
    BY <1>3 DEF TbConsume
  <2>5. \A a \in tbAccepted' : a[2] = x \/ a \in tbAccepted
    BY <1>3 DEF TbConsume
  <2>6. ASSUME NEW r \in tbRequests', NEW p \in tbRequests', r.nonce = p.nonce PROVE r = p
    BY <1>3, <2>2, <2>4, <2>6 DEF ChallengesInv
  <2> QED  BY <1>3, <2>1, <2>2, <2>3, <2>4, <2>5, <2>6 DEF ChallengesInv
<1>4. ASSUME NEW w, NEW x, NEW s, NEW n, NEW d,
             TbClaimPassport(w, x, s, n) \/ TbAssignRoute(w, x, s, n, d)
      PROVE  ChallengesInv'
  <2>1. ASSUME NEW kind, NEW to, TbConsume(w, x, s, TbRequest(w, x, kind, n, to))
        PROVE  ChallengesInv'
    <3>1. PICK q : q = TbRequest(w, x, kind, n, to)
      OBVIOUS
    <3>2. Shaped(q) /\ q.nonce = x
      BY <3>1 DEF TbRequest, Shaped
    <3> QED  BY <1>3, <2>1, <3>1, <3>2
  <2> QED  BY <1>4, <2>1 DEF TbClaimPassport, TbAssignRoute
\* A request moves to its next step, or to the next with a mint, or ends.
<1>5. ASSUME NEW r \in tbRequests, NEW p, TbMoves(r, [r EXCEPT !.step = p]), TbOnly
      PROVE  ChallengesInv'
  <2>1. PICK s : s = [r EXCEPT !.step = p]
    OBVIOUS
  <2>2. Shaped(s) /\ s.nonce = r.nonce
    BY <1>0, <2>1, StepIs
  <2> QED  BY <1>5, <2>1, <2>2, NonceMoves DEF TbOnly
<1>6. ASSUME NEW r \in tbRequests, NEW p, NEW m,
             TbMoves(r, [r EXCEPT !.step = p, !.mint = m]), TbOnly
      PROVE  ChallengesInv'
  <2>1. PICK s : s = [r EXCEPT !.step = p, !.mint = m]
    OBVIOUS
  <2>2. PICK w, x, k, n, d, p0, m0 :
          r = [wallet |-> w, nonce |-> x, kind |-> k, name |-> n, dest |-> d,
               step |-> p0, mint |-> m0]
    BY <1>0 DEF Shaped
  <2>3. s = [wallet |-> w, nonce |-> x, kind |-> k, name |-> n, dest |-> d,
             step |-> p, mint |-> m]
    BY <2>1, <2>2
  <2>4. Shaped(s) /\ s.nonce = r.nonce
    BY <2>2, <2>3 DEF Shaped
  <2> QED  BY <1>6, <2>1, <2>4, NonceMoves DEF TbOnly
<1>7. ASSUME NEW r \in tbRequests, TbEnds(r), UNCHANGED <<tbNonce, tbChallenges, tbAccepted>>
      PROVE  ChallengesInv'
  BY <1>7, NonceEnds DEF TbEnds
<1>8. ASSUME NEW r \in tbRequests,
             \/ TbEnsureInitialized(r) \/ TbLookForRoute(r) \/ TbLocalFallback(r)
             \/ TbSend(r) \/ TbRefused(r)
      PROVE  ChallengesInv'
  BY <1>5, <1>7, <1>8 DEF TbEnsureInitialized, TbLookForRoute, TbLocalFallback, TbSend,
                          TbRefused, TbHears, TbOnly
<1>9. ASSUME NEW r \in tbRequests, NEW m, TbLookForPass(r, m) PROVE ChallengesInv'
  BY <1>6, <1>9 DEF TbLookForPass
<1>10. ASSUME NEW r \in tbRequests, TbConfirmIssue(r) \/ TbConfirmRoute(r)
       PROVE  ChallengesInv'
  <2>1. PICK p : TbHears(r, p) /\ TbOnly
    BY <1>10 DEF TbConfirmIssue, TbConfirmRoute
  <2> QED  BY <1>5, <1>7, <2>1 DEF TbHears, TbOnly
<1>11. ASSUME NEW r \in tbRequests, TbWritePassport(r) \/ TbWriteRoute(r)
       PROVE  ChallengesInv'
  BY <1>7, <1>11 DEF TbWritePassport, TbWriteRoute
<1>12. CASE TbRestart
  BY <1>12, NonceEnds DEF TbRestart, NoAccounts
<1>13. CASE UNCHANGED tbVars
  BY <1>13, NonceEnds DEF tbVars
<1> QED  BY <1>1, <1>2, <1>4, <1>8, <1>9, <1>10, <1>11, <1>12, <1>13 DEF TbNext

LEMMA ChallengesInvUsedOnce == ChallengesInv => ChallengesUsedOnce
BY DEF ChallengesInv, ChallengesUsedOnce, Spent, Exists

-----------------------------------------------------------------------------
\* A file and a record that disagree answer nothing.
LEMMA FilesTellTruth == FilesInv => PassportFilesProven /\ RouteFilesBacked
<1> SUFFICES ASSUME FilesInv, NEW f \in DOMAIN tbRoutes
             PROVE  /\ Exists(tollPasses, f[1])
                    /\ f \notin tbUnprovenRoutes =>
                         /\ Exists(anRoutes, f)
                         /\ TbResolve(f[1], f[2]) \in {None, anRoutes[f].dest}
  BY DEF FilesInv, RouteFilesBacked
<1>1. RouteFileProven(f)
  BY DEF FilesInv
<1> QED  BY <1>1 DEF RouteFileProven, TbResolve, Vacant, Exists

-----------------------------------------------------------------------------
(***************************************************************************)
(* The services together: a step is of one service, and of the programs    *)
(* and services that it runs with.                                         *)
(***************************************************************************)

LEMMA ServiceSteps ==
  ASSUME [Next]_Vars
  PROVE  /\ [CsNext]_csVars
         /\ TbNext \/ (UNCHANGED tbVars /\ (AnNext \/ RpNext \/ UNCHANGED anVars))
<1>1. CASE UNCHANGED Vars
  BY <1>1 DEF Vars, anchorVars
<1>2. CASE Next
  <2>1. [CsNext]_csVars
    BY <1>2 DEF Next, Alone
  <2>2. TbNext \/ (UNCHANGED tbVars /\ (AnNext \/ RpNext \/ UNCHANGED anVars))
    BY <1>2 DEF Next, Alone
  <2> QED  BY <2>1, <2>2
<1> QED  BY <1>1, <1>2

\* Whoever opens a session answered a challenge in time, with a passport seen
\* within the life of the cache (/auth/verify, passportOwns), and an answer that
\* comes once a session of its challenge is open opens no other, whatever sign-ins
\* cross in passportOwns; and a challenge of the toll booth lets one request in,
\* however long its steps take and whatever requests run between them (consume).
THEOREM SigningInIsProven == Spec => []SignInsProven
<1> DEFINE Inv == SessionsInv /\ LoginsInv /\ ChallengesInv
<1>1. Init => Inv
  BY CsInit_Sessions, CsInit_Logins, TbInit_Challenges DEF Init
<1>2. Inv /\ [Next]_Vars => Inv'
  <2> SUFFICES ASSUME Inv, [Next]_Vars PROVE Inv'
    OBVIOUS
  <2>1. [CsNext]_csVars /\ [TbNext]_tbVars
    BY ServiceSteps
  <2> QED  BY <2>1, CsNext_Sessions, CsNext_Logins, TbNext_Challenges
<1>3. Inv => SignInsProven
  BY ChallengesInvUsedOnce DEF SessionsInv, LoginsInv, SignInsProven
<1> QED  BY <1>1, <1>2, <1>3, PTL DEF Spec

\* No service takes a route record away.
LEMMA AnNext_Routes == AnNext => RoutesKept
<1> SUFFICES ASSUME AnNext PROVE RoutesKept
  OBVIOUS
<1>1. CASE UNCHANGED anRoutes
  BY <1>1 DEF RoutesKept
<1>2. ASSUME NEW k, NEW n, NEW d, NEW t, SetRoute(k, n, d, t) PROVE RoutesKept
  BY <1>2, SetRouteKeepsAnchor DEF AnchorKept
<1> QED  BY <1>1, <1>2 DEF AnNext, Initialize, SetVersion, IssueTollPass, LockTokens, UnlockTokens

LEMMA RpNext_Routes == RpNext => RoutesKept
<1> SUFFICES ASSUME RpNext PROVE RoutesKept
  OBVIOUS
<1>1. CASE UNCHANGED anRoutes
  BY <1>1 DEF RoutesKept
<1>2. ASSUME NEW k, RouteSent(k) PROVE RoutesKept
  <2>1. CASE UNCHANGED anVars
    BY <2>1, StillAnchor DEF AnchorKept
  <2>2. CASE \E t \in AnTtls : SetRoute(k, rpJobs[k].name, rpJobs[k].dest, t)
    BY <2>2, SetRouteKeepsAnchor DEF AnchorKept
  <2> QED  BY <1>2, <2>1, <2>2 DEF RouteSent
<1> QED  BY <1>1, <1>2 DEF RpNext, Initialize, RouteCreate, RouteSignWitness, MintTollPass,
                           IssueTollPass, SetRouteStart, BoothStores, BoothRefuses,
                           BoothCrashes, anVars

\* No other service takes a pass away either.
LEMMA AnNext_Passes == AnNext => PassesKept
<1>1. ASSUME NEW k, NEW v, Initialize(k, v) \/ SetVersion(k, v) PROVE PassesKept
  BY <1>1, OnlyRoutes DEF Initialize, SetVersion, passVars
<1>2. ASSUME NEW k, NEW n, NEW d, NEW t, SetRoute(k, n, d, t) PROVE PassesKept
  BY <1>2, OnlyRoutes DEF SetRoute, passVars
<1>3. ASSUME NEW k, NEW a, NEW d, NEW v, LockTokens(k, a, d, v) \/ UnlockTokens(k)
      PROVE  PassesKept
  BY <1>3, OnlyRoutes DEF LockTokens, UnlockTokens, passVars
<1> QED  BY <1>1, <1>2, <1>3, IssueKeepsPasses DEF AnNext

LEMMA RpNext_Passes == RpNext => PassesKept
<1> SUFFICES ASSUME RpNext PROVE PassesKept
  OBVIOUS
<1>1. ASSUME NEW k, Initialize(k, 1) PROVE PassesKept
  BY <1>1, OnlyRoutes DEF Initialize, passVars
<1>2. ASSUME NEW r, RouteCreate(r) \/ \E w \in RpWitnesses : RouteSignWitness(r, w)
      PROVE  PassesKept
  BY <1>2, StillPasses DEF RouteCreate, RouteSignWitness
<1>3. ASSUME NEW k, NEW n, NEW m, NEW answers, MintTollPass(k, n, m, answers)
      PROVE  PassesKept
  BY <1>3, IssueKeepsPasses DEF MintTollPass
<1>4. ASSUME NEW k, NEW n, NEW d, NEW mode, NEW answers, SetRouteStart(k, n, d, mode, answers)
      PROVE  PassesKept
  BY <1>4, StillPasses DEF SetRouteStart
<1>5. ASSUME NEW k, BoothStores(k) \/ BoothRefuses(k) \/ BoothCrashes PROVE PassesKept
  BY <1>5, StillPasses DEF BoothStores, BoothRefuses, BoothCrashes
<1>6. ASSUME NEW k, RouteSent(k) PROVE PassesKept
  <2>1. CASE UNCHANGED anVars
    BY <2>1, StillPasses
  <2>2. CASE \E t \in AnTtls : SetRoute(k, rpJobs[k].name, rpJobs[k].dest, t)
    BY <2>2, OnlyRoutes DEF SetRoute, passVars
  <2> QED  BY <1>6, <2>1, <2>2 DEF RouteSent
<1> QED  BY <1>1, <1>2, <1>3, <1>4, <1>5, <1>6 DEF RpNext

\* What the booth keeps in its files and answers agrees with the chain: passports
\* (TbWritePassport) and destinations (/v1/resolve), also where the command line
\* and other wallets use the anchor program at the same time, but for the files
\* that were last written without a transaction that succeeded; and those are of
\* wallets with a pass too, where they are routes.
THEOREM BoothAnswersAgree == Spec => []BoothTellsTruth
<1>1. Init => FilesInv
  BY DEF Init, TbInit, NoAccounts, FilesInv, PassportFilesProven
<1>2. FilesInv /\ [Next]_Vars => FilesInv'
  <2> SUFFICES ASSUME FilesInv, [Next]_Vars PROVE FilesInv'
    OBVIOUS
  <2>1. TbNext \/ (UNCHANGED tbVars /\ (AnNext \/ RpNext \/ UNCHANGED anVars))
    BY ServiceSteps
  <2>2. CASE UNCHANGED tbVars /\ AnchorKept
    BY <2>2, FilesKept DEF tbVars
  <2> QED  BY <2>1, <2>2, TbNext_Files, AnNext_Passes, RpNext_Passes, AnNext_Routes,
              RpNext_Routes, StillAnchor DEF AnchorKept
<1>3. FilesInv => BoothTellsTruth
  BY FilesTellTruth DEF BoothTellsTruth
<1> QED  BY <1>1, <1>2, <1>3, PTL DEF Spec

\* Of the booth's steps only a claim that lands makes passes.
LEMMA TbNext_Passes == TbNext => PassesKept
<1> SUFFICES ASSUME TbNext PROVE PassesKept
  OBVIOUS
<1>1. ASSUME NEW w, TbChallenge(w) \/ TbExpire(w) PROVE PassesKept
  BY <1>1, StillPasses DEF TbChallenge, TbExpire
<1>2. ASSUME NEW w, NEW x, NEW s, NEW n, NEW d,
             TbClaimPassport(w, x, s, n) \/ TbAssignRoute(w, x, s, n, d)
      PROVE  PassesKept
  BY <1>2, StillPasses DEF TbClaimPassport, TbAssignRoute, TbConsume
<1>3. ASSUME NEW r, TbEnsureInitialized(r) PROVE PassesKept
  BY <1>3, StillPasses, OnlyRoutes DEF TbEnsureInitialized, Initialize, passVars
<1>4. ASSUME NEW r, NEW m,
             \/ TbLookForPass(r, m) \/ TbLookForRoute(r) \/ TbSend(r) \/ TbRefused(r)
             \/ TbLocalFallback(r) \/ TbWritePassport(r) \/ TbWriteRoute(r) \/ TbRestart
      PROVE  PassesKept
  BY <1>4, StillPasses DEF TbLookForPass, TbLookForRoute, TbSend, TbRefused, TbLocalFallback,
                           TbWritePassport, TbWriteRoute, TbRestart
<1>5. ASSUME NEW r, TbConfirmIssue(r) PROVE PassesKept
  BY <1>5, IssueKeepsPasses, StillPasses DEF TbConfirmIssue
<1>6. ASSUME NEW r, TbConfirmRoute(r) PROVE PassesKept
  BY <1>6, SetRouteKeepsAnchor, StillPasses DEF TbConfirmRoute, AnchorKept
<1> QED  BY <1>1, <1>2, <1>3, <1>4, <1>5, <1>6 DEF TbNext

\* A pass is for good: no step of the booth, of a wallet or of set_route.ts
\* changes or removes one that was issued (issue_toll_pass only creates accounts,
\* and two claims of one wallet that cross cannot both land).
THEOREM PassesAreForGood == Spec => [][PassesKept]_Vars
<1>1. [Next]_Vars => PassesKept
  <2> SUFFICES ASSUME [Next]_Vars PROVE PassesKept
    OBVIOUS
  <2>1. TbNext \/ AnNext \/ RpNext \/ UNCHANGED anVars
    BY ServiceSteps
  <2> QED  BY <2>1, TbNext_Passes, AnNext_Passes, RpNext_Passes, StillPasses
<1> QED  BY <1>1, PTL DEF Spec

-----------------------------------------------------------------------------
(***************************************************************************)
(* The evidence behind cache heads and receipts: for any entries, batches  *)
(* and roll-ups, and any receipts and flushes.                             *)
(***************************************************************************)

\* A sequence, of whatever it holds.
IsSeq(s) == s \in Seq({s[i] : i \in DOMAIN s})

LEMMA EmptyIsSeq == IsSeq(<<>>)
BY DEF IsSeq

LEMMA AppendIsSeq ==
  ASSUME NEW s, IsSeq(s), NEW e
  PROVE  IsSeq(Append(s, e)) /\ ToSet(Append(s, e)) = ToSet(s) \cup {e}
<1> DEFINE S == {s[i] : i \in DOMAIN s} \cup {e}
           t == Append(s, e)
<1>1. s \in Seq(S) /\ e \in S
  <2>1. DOMAIN s = 1..Len(s) /\ Len(s) \in Nat
    BY DEF IsSeq
  <2>2. s = [i \in 1..Len(s) |-> s[i]]
    BY DEF IsSeq
  <2> QED  BY <2>1, <2>2
<1> HIDE DEF S
<1>2. /\ t \in Seq(S) /\ DOMAIN t = 1 .. Len(s) + 1 /\ Len(s) \in Nat
      /\ DOMAIN s = 1 .. Len(s)
      /\ t[Len(s) + 1] = e /\ \A i \in 1 .. Len(s) : t[i] = s[i]
  BY <1>1
<1> HIDE DEF t
<1>3. t \in Seq({t[i] : i \in DOMAIN t})
  <2>1. t = [i \in 1 .. Len(t) |-> t[i]] /\ Len(t) \in Nat /\ DOMAIN t = 1 .. Len(t)
    BY <1>2
  <2> QED  BY <2>1
<1>4. {t[i] : i \in DOMAIN t} = {s[i] : i \in DOMAIN s} \cup {e}
  BY <1>2
<1> QED  BY <1>3, <1>4 DEF IsSeq, ToSet, t

LEMMA ConcatIsSeq ==
  ASSUME NEW s, IsSeq(s), NEW t, IsSeq(t)
  PROVE  /\ IsSeq(s \o t) /\ Len(s \o t) = Len(s) + Len(t)
         /\ DOMAIN s = 1 .. Len(s) /\ DOMAIN t = 1 .. Len(t)
         /\ DOMAIN (s \o t) = 1 .. Len(s) + Len(t)
         /\ Len(s) \in Nat /\ Len(t) \in Nat
         /\ \A i \in 1 .. Len(s) : (s \o t)[i] = s[i]
         /\ \A i \in 1 .. Len(t) : (s \o t)[Len(s) + i] = t[i]
<1> DEFINE S == {s[i] : i \in DOMAIN s} \cup {t[i] : i \in DOMAIN t}
           u == s \o t
<1>1. s \in Seq(S) /\ t \in Seq(S)
  <2>1. /\ DOMAIN s = 1..Len(s) /\ Len(s) \in Nat /\ s = [i \in 1..Len(s) |-> s[i]]
        /\ DOMAIN t = 1..Len(t) /\ Len(t) \in Nat /\ t = [i \in 1..Len(t) |-> t[i]]
    BY DEF IsSeq
  <2> QED  BY <2>1
<1> HIDE DEF S
<1>2. /\ u \in Seq(S) /\ Len(u) = Len(s) + Len(t)
      /\ DOMAIN s = 1 .. Len(s) /\ DOMAIN t = 1 .. Len(t)
      /\ DOMAIN u = 1 .. Len(s) + Len(t)
      /\ Len(s) \in Nat /\ Len(t) \in Nat
      /\ \A i \in 1 .. Len(s) : u[i] = s[i]
      /\ \A i \in 1 .. Len(t) : u[Len(s) + i] = t[i]
  BY <1>1
<1>3. u \in Seq({u[i] : i \in DOMAIN u})
  <2> HIDE DEF u
  <2>1. u = [i \in 1 .. Len(u) |-> u[i]] /\ Len(u) \in Nat /\ DOMAIN u = 1 .. Len(u)
    BY <1>2
  <2> QED  BY <2>1
<1> QED  BY <1>2, <1>3 DEF IsSeq

-----------------------------------------------------------------------------
\* While a flush is between its two writes, the spool is in a batch.
ReceiptsInv ==
  /\ IsSeq(wgSpool)
  /\ wgFlushing => \E b \in wgBatches : b.receipts = wgSpool
  /\ ReceiptsKept

LEMMA WgInit_Receipts == WgInit => ReceiptsInv
BY EmptyIsSeq DEF WgInit, ReceiptsInv, ReceiptsKept

LEMMA WgNext_Receipts == ReceiptsInv /\ [WgNext]_wgVars => ReceiptsInv'
<1> SUFFICES ASSUME ReceiptsInv, [WgNext]_wgVars PROVE ReceiptsInv'
  OBVIOUS
<1>1. ASSUME UNCHANGED <<wgSpool, wgBatches, wgSigned>>, wgFlushing' => wgFlushing
      PROVE  ReceiptsInv'
  BY <1>1 DEF ReceiptsInv, ReceiptsKept
<1>2. ASSUME NEW n, NEW ttl, WitnessResolve(n, ttl) PROVE ReceiptsInv'
  <2>1. PICK r : r = ReceiptFor(n, WgTtlOf(ttl))
    OBVIOUS
  <2>2. /\ wgSpool' = Append(wgSpool, r) /\ wgSigned' = wgSigned \cup {r}
        /\ ~wgFlushing' /\ UNCHANGED wgBatches
    BY <1>2, <2>1 DEF WitnessResolve
  <2>3. IsSeq(wgSpool)' /\ ToSet(wgSpool') = ToSet(wgSpool) \cup {r}
    BY <2>2, AppendIsSeq DEF ReceiptsInv
  <2> QED  BY <2>2, <2>3 DEF ReceiptsInv, ReceiptsKept
<1>3. CASE FlushWrite
  <2>1. PICK b : b = [at |-> wgNow, receipts |-> wgSpool]
    OBVIOUS
  <2>2. b.receipts = wgSpool
    BY <2>1
  <2>3. wgBatches' = wgBatches \cup {b} /\ UNCHANGED <<wgSpool, wgSigned>>
    BY <1>3, <2>1 DEF FlushWrite
  <2> QED  BY <2>2, <2>3 DEF ReceiptsInv, ReceiptsKept
<1>4. CASE FlushRemove
  <2>1. /\ wgSpool' = <<>> /\ ~wgFlushing' /\ UNCHANGED <<wgBatches, wgSigned>>
        /\ wgFlushing
    BY <1>4 DEF FlushRemove
  <2>2. PICK b \in wgBatches : b.receipts = wgSpool
    BY <2>1 DEF ReceiptsInv
  <2>3. ReceiptsKept'
    BY <2>1, <2>2 DEF ReceiptsInv, ReceiptsKept
  <2> QED  BY <2>1, <2>3, EmptyIsSeq DEF ReceiptsInv
<1>5. ASSUME NEW n, ShowReceipts(n) PROVE ReceiptsInv'
  BY <1>1, <1>5 DEF ShowReceipts
<1>6. ASSUME NEW routes, WgRestart(routes) PROVE ReceiptsInv'
  BY <1>1, <1>6 DEF WgRestart
<1>7. CASE WgTick \/ UNCHANGED wgVars
  BY <1>1, <1>7 DEF WgTick, wgVars
<1> QED  BY <1>2, <1>3, <1>4, <1>5, <1>6, <1>7 DEF WgNext

-----------------------------------------------------------------------------
\* These entries are the first that were kept for the parent.
FirstKept(p, entries) ==
  \E len \in 1 .. Len(crKept[p]) : entries = SubSeq(crKept[p], 1, len)

\* A roll-up under way works on what was kept when it started.
JobOfKept(job) ==
  job.stage # "none" =>
    /\ job = [stage |-> job.stage, parent |-> job.parent, epoch |-> job.epoch,
              entries |-> job.entries, left |-> job.left]
    /\ job.parent \in AnNames /\ FirstKept(job.parent, job.entries)

RollupInv ==
  /\ \A p \in AnNames : IsSeq(crKept[p])
  /\ \A j \in DOMAIN crJobs : JobOfKept(crJobs[j])
  /\ DOMAIN cacheHeads \subseteq AnNames
  /\ HeadRootOfKept

LEMMA RollupInit == CrInit /\ AnInit => RollupInv
<1> SUFFICES ASSUME CrInit, AnInit PROVE RollupInv
  OBVIOUS
<1>1. NoJob.stage = "none"
  BY DEF NoJob
<1> QED  BY <1>1, EmptyIsSeq
         DEF CrInit, AnInit, RollupInv, JobOfKept, NoAccounts, HeadRootOfKept

\* What is appended leaves the first entries as they were.
LEMMA KeptGrows ==
  ASSUME RollupInv, NEW p \in AnNames, NEW t, IsSeq(t), crKept'[p] = crKept[p] \o t
  PROVE  /\ IsSeq(crKept[p])'
         /\ \A len \in 1 .. Len(crKept[p]) :
              /\ len \in 1 .. Len(crKept'[p])
              /\ SubSeq(crKept'[p], 1, len) = SubSeq(crKept[p], 1, len)
<1>1. PICK s : s = crKept[p]
  OBVIOUS
<1>2. IsSeq(s)
  BY <1>1 DEF RollupInv
<1>3. /\ IsSeq(s \o t) /\ Len(s \o t) = Len(s) + Len(t)
      /\ Len(s) \in Nat /\ Len(t) \in Nat
      /\ \A i \in 1 .. Len(s) : (s \o t)[i] = s[i]
  BY <1>2, ConcatIsSeq
<1>4. PICK u : u = s \o t
  OBVIOUS
<1>5. ASSUME NEW len \in 1 .. Len(s)
      PROVE  len \in 1 .. Len(u) /\ SubSeq(u, 1, len) = SubSeq(s, 1, len)
  <2>1. len \in 1 .. Len(u) /\ \A i \in 1 .. Len(s) : u[i] = s[i]
    BY <1>3, <1>4
  <2>2. SubSeq(u, 1, len) = [i \in 1 .. len |-> u[i]]
    <3>1. u \in Seq({u[i] : i \in DOMAIN u})
      BY <1>3, <1>4 DEF IsSeq
    <3> QED  BY <2>1, <3>1
  <2>3. SubSeq(s, 1, len) = [i \in 1 .. len |-> s[i]]
    <3>1. s \in Seq({s[i] : i \in DOMAIN s})
      BY <1>2 DEF IsSeq
    <3> QED  BY <1>3, <3>1
  <2> QED  BY <1>3, <2>1, <2>2, <2>3
<1>6. crKept'[p] = u
  BY <1>1, <1>4
<1> QED  BY <1>1, <1>3, <1>4, <1>5, <1>6

\* The entries of a batch at some of its places.
LEMMA EntriesIsSeq ==
  ASSUME NEW batch, NEW places, places \subseteq DOMAIN batch, IsFiniteSet(DOMAIN batch)
  PROVE  IsSeq(EntriesAt(batch, places))
<1>1. PICK n \in Nat : n = Cardinality(places)
  BY FS_Subset, FS_CardinalityType
<1>2. PICK t : t = EntriesAt(batch, places)
  OBVIOUS
<1>3. DOMAIN t = 1 .. n /\ t = [k \in 1 .. n |-> t[k]]
  BY <1>1, <1>2 DEF EntriesAt
<1>4. t \in Seq({t[k] : k \in DOMAIN t})
  BY <1>3
<1> QED  BY <1>2, <1>4 DEF IsSeq

\* A batch that is kept.
LEMMA BatchKept ==
  ASSUME RollupInv, NEW batch, IsFiniteSet(DOMAIN batch), crKept' = Kept(batch),
         UNCHANGED <<crJobs, cacheHeads>>
  PROVE  RollupInv'
<1>1. ASSUME NEW p \in AnNames PROVE \E t : IsSeq(t) /\ crKept'[p] = crKept[p] \o t
  <2>1. PICK places : places = {i \in DOMAIN batch : batch[i].ok /\ batch[i].entry.parent = p}
    OBVIOUS
  <2>2. IsSeq(EntriesAt(batch, places))
    BY <2>1, EntriesIsSeq
  <2>3. crKept'[p] = crKept[p] \o EntriesAt(batch, places)
    BY <2>1 DEF Kept
  <2> QED  BY <2>2, <2>3
<1>2. ASSUME NEW p \in AnNames
      PROVE  /\ IsSeq(crKept[p])'
             /\ \A len \in 1 .. Len(crKept[p]) :
                  /\ len \in 1 .. Len(crKept'[p])
                  /\ SubSeq(crKept'[p], 1, len) = SubSeq(crKept[p], 1, len)
  <2>1. PICK t : IsSeq(t) /\ crKept'[p] = crKept[p] \o t
    BY <1>1
  <2> QED  BY <2>1, KeptGrows
<1>3. ASSUME NEW p \in AnNames, NEW entries, FirstKept(p, entries) PROVE FirstKept(p, entries)'
  <2>1. PICK len \in 1 .. Len(crKept[p]) : entries = SubSeq(crKept[p], 1, len)
    BY <1>3 DEF FirstKept
  <2>2. len \in 1 .. Len(crKept'[p]) /\ entries = SubSeq(crKept'[p], 1, len)
    BY <1>2, <2>1
  <2> QED  BY <2>2 DEF FirstKept
<1>4. ASSUME NEW n \in DOMAIN cacheHeads', cacheHeads[n].owner = RollupSigner,
             cacheHeads[n].root # None
      PROVE  \E len \in 1 .. Len(crKept'[n]) :
               cacheHeads[n].root = CacheRoot(SubSeq(crKept'[n], 1, len))
  <2>1. PICK len \in 1 .. Len(crKept[n]) :
          cacheHeads[n].root = CacheRoot(SubSeq(crKept[n], 1, len))
    BY <1>4 DEF RollupInv, HeadRootOfKept
  <2>2. n \in AnNames
    BY DEF RollupInv
  <2>3. /\ len \in 1 .. Len(crKept'[n])
        /\ cacheHeads[n].root = CacheRoot(SubSeq(crKept'[n], 1, len))
    BY <1>2, <2>1, <2>2
  <2> QED  BY <2>3
<1> QED  BY <1>2, <1>3, <1>4 DEF RollupInv, JobOfKept, HeadRootOfKept

\* A roll-up under way takes a step with its entries, or ends.
LEMMA JobsStay ==
  ASSUME RollupInv, UNCHANGED crKept, DOMAIN crJobs' = DOMAIN crJobs,
         \A j \in DOMAIN crJobs : crJobs'[j] = crJobs[j] \/ JobOfKept(crJobs'[j])
  PROVE  \A j \in DOMAIN crJobs' : JobOfKept(crJobs[j])'
BY DEF RollupInv, JobOfKept, FirstKept

LEMMA JobsKept ==
  ASSUME RollupInv, UNCHANGED <<crKept, cacheHeads>>, DOMAIN crJobs' = DOMAIN crJobs,
         \A j \in DOMAIN crJobs : crJobs'[j] = crJobs[j] \/ JobOfKept(crJobs'[j])
  PROVE  RollupInv'
BY DEF RollupInv, JobOfKept, FirstKept, HeadRootOfKept

LEMMA StageOf ==
  ASSUME NEW job, job.stage # "none", JobOfKept(job), NEW s,
         NEW l, NEW next, \/ next = [job EXCEPT !.stage = s]
                          \/ next = [job EXCEPT !.left = l]
  PROVE  JobOfKept(next) /\ next.parent = job.parent /\ next.entries = job.entries
<1>1. PICK s0, p, e, entries, l0 :
        job = [stage |-> s0, parent |-> p, epoch |-> e, entries |-> entries, left |-> l0]
  BY DEF JobOfKept
<1>2. PICK s1, l1 :
        next = [stage |-> s1, parent |-> p, epoch |-> e, entries |-> entries, left |-> l1]
  BY <1>1
<1> QED  BY <1>1, <1>2 DEF JobOfKept

\* What is done to heads that are not the service's, or not set.
LEMMA HeadsKept ==
  ASSUME RollupInv, UNCHANGED <<crKept, crJobs>>, DOMAIN cacheHeads' \subseteq AnNames,
         \A n \in DOMAIN cacheHeads' :
           \/ n \in DOMAIN cacheHeads /\ cacheHeads'[n] = cacheHeads[n]
           \/ cacheHeads'[n].owner # RollupSigner \/ cacheHeads'[n].root = None
  PROVE  RollupInv'
BY DEF RollupInv, JobOfKept, FirstKept, HeadRootOfKept

LEMMA CrNext_Rollup == RollupInv /\ CrNext => RollupInv'
<1> SUFFICES ASSUME RollupInv, CrNext PROVE RollupInv'
  OBVIOUS
<1>0. NoJob.stage = "none" /\ JobOfKept(NoJob)
  BY DEF NoJob, JobOfKept
<1>1. ASSUME NEW b \in CrBatches, Ingest(b), UNCHANGED cacheHeads PROVE RollupInv'
  <2>1. IsFiniteSet(DOMAIN b)
    <3>1. DOMAIN b = 1 .. Len(b) /\ Len(b) \in Nat
      BY CrAssumption
    <3> QED  BY <3>1, FS_Interval
  <2> QED  BY <1>1, <2>1, BatchKept DEF Ingest
<1>2. ASSUME NEW e, NEW d, LogEntry(e, d), UNCHANGED cacheHeads PROVE RollupInv'
  <2>1. PICK batch : batch = <<[ok |-> TRUE, entry |-> e]>>
    OBVIOUS
  <2>2. IsFiniteSet(DOMAIN batch)
    <3>1. DOMAIN batch = {1}
      BY <2>1
    <3> QED  BY <3>1, FS_Singleton
  <2>3. (crKept' = Kept(batch) \/ crKept' = crKept) /\ UNCHANGED crJobs
    BY <1>2, <2>1 DEF LogEntry
  <2> QED  BY <1>2, <2>2, <2>3, BatchKept, JobsKept
<1>3. ASSUME RollupRestart, UNCHANGED cacheHeads PROVE RollupInv'
  BY <1>0, <1>3, JobsKept DEF RollupRestart
<1>4. ASSUME NEW j \in DOMAIN crJobs, NEW p \in AnNames, NEW e, StartRollup(j, p, e),
             UNCHANGED cacheHeads
      PROVE  RollupInv'
  <2>1. PICK job : job = [stage |-> "publish", parent |-> p, epoch |-> e,
                          entries |-> crKept[p],
                          left |-> {crKept[p][i].witness : i \in DOMAIN crKept[p]}]
    OBVIOUS
  <2>2. /\ crJobs' = [crJobs EXCEPT ![j] = job] /\ UNCHANGED crKept /\ crKept[p] # <<>>
    BY <1>4, <2>1 DEF StartRollup
  <2>3. FirstKept(p, crKept[p])
    <3>1. PICK s : s = crKept[p]
      OBVIOUS
    <3>2. s \in Seq({s[i] : i \in DOMAIN s}) /\ s # <<>>
      BY <2>2, <3>1 DEF RollupInv, IsSeq
    <3>3. Len(s) \in 1 .. Len(s) /\ s = SubSeq(s, 1, Len(s))
      BY <3>2
    <3> QED  BY <3>1, <3>3 DEF FirstKept
  <2>4. JobOfKept(job)
    BY <2>1, <2>3 DEF JobOfKept
  <2> QED  BY <1>4, <2>2, <2>4, JobsKept
<1>5. ASSUME NEW j \in DOMAIN crJobs, NEW works, Publish(j, works), UNCHANGED cacheHeads
      PROVE  RollupInv'
  <2>1. /\ crJobs[j].stage # "none" /\ JobOfKept(crJobs[j])
        /\ UNCHANGED crKept
    BY <1>5 DEF Publish, RollupInv
  <2>2. PICK next : crJobs' = [crJobs EXCEPT ![j] = next]
                    /\ (next = NoJob \/ \E s : next = [crJobs[j] EXCEPT !.stage = s])
    BY <1>5 DEF Publish
  <2>3. JobOfKept(next)
    BY <1>0, <2>1, <2>2, StageOf
  <2> QED  BY <1>5, <2>1, <2>2, <2>3, JobsKept
<1>6. ASSUME NEW j \in DOMAIN crJobs, RollupDone(j), UNCHANGED cacheHeads PROVE RollupInv'
  BY <1>0, <1>6, JobsKept DEF RollupDone
<1>7. ASSUME NEW j \in DOMAIN crJobs, NEW w, AwardWitness(j, w), UNCHANGED cacheHeads
      PROVE  RollupInv'
  <2>1. /\ crJobs[j].stage # "none" /\ JobOfKept(crJobs[j])
        /\ UNCHANGED crKept
    BY <1>7 DEF AwardWitness, RollupInv
  <2>2. PICK next : crJobs' = [crJobs EXCEPT ![j] = next]
                    /\ \E l : next = [crJobs[j] EXCEPT !.left = l]
    BY <1>7 DEF AwardWitness
  <2>3. JobOfKept(next)
    BY <2>1, <2>2, StageOf
  <2> QED  BY <1>7, <2>1, <2>2, <2>3, JobsKept
<1>8. ASSUME NEW j \in DOMAIN crJobs, MoveHead(j) PROVE RollupInv'
  <2>1. CASE crJobs' = [crJobs EXCEPT ![j] = NoJob] /\ UNCHANGED cacheHeads
    BY <1>0, <1>8, <2>1, JobsKept DEF MoveHead
  <2>2. CASE /\ SetCacheHead(crJobs[j].parent, RollupSigner,
                             CacheRoot(crJobs[j].entries), crJobs[j].epoch)
             /\ crJobs' = [crJobs EXCEPT ![j].stage = "award"]
    <3>1. PICK job : job = crJobs[j]
      OBVIOUS
    <3>2. job.stage # "none" /\ JobOfKept(job) /\ UNCHANGED crKept
      BY <1>8, <3>1 DEF MoveHead, RollupInv
    <3>3. PICK next : next = [job EXCEPT !.stage = "award"]
      OBVIOUS
    <3>4. crJobs' = [crJobs EXCEPT ![j] = next]
      BY <2>2, <3>1, <3>3
    <3>5. JobOfKept(next)
      BY <3>2, <3>3, StageOf
    <3>6. job.parent \in AnNames /\ FirstKept(job.parent, job.entries)
      BY <3>2 DEF JobOfKept
    <3>7. PICK head : head = DomainCacheHead(RollupSigner, CacheRoot(job.entries), job.epoch, TRUE)
      OBVIOUS
    <3>8. head.root = CacheRoot(job.entries)
      BY <3>7 DEF DomainCacheHead
    <3>9. cacheHeads' = [cacheHeads EXCEPT ![job.parent] = head]
      BY <2>2, <3>1, <3>7 DEF SetCacheHead
    <3>10. PICK len \in 1 .. Len(crKept[job.parent]) :
             job.entries = SubSeq(crKept[job.parent], 1, len)
      BY <3>6 DEF FirstKept
    <3>11. HeadRootOfKept'
      <4> SUFFICES ASSUME NEW n \in DOMAIN cacheHeads', cacheHeads'[n].owner = RollupSigner,
                          cacheHeads'[n].root # None
                   PROVE  \E l \in 1 .. Len(crKept[n]) :
                            cacheHeads'[n].root = CacheRoot(SubSeq(crKept[n], 1, l))
        BY <3>2 DEF HeadRootOfKept
      <4>1. CASE n = job.parent
        BY <3>8, <3>9, <3>10, <4>1
      <4>2. CASE n # job.parent
        BY <3>9, <4>2 DEF RollupInv, HeadRootOfKept
      <4> QED  BY <4>1, <4>2
    <3>12. \A i \in DOMAIN crJobs' : crJobs'[i] = crJobs[i] \/ JobOfKept(crJobs'[i])
      BY <3>4, <3>5
    <3>13. \A i \in DOMAIN crJobs' : JobOfKept(crJobs[i])'
      <4>1. DOMAIN crJobs' = DOMAIN crJobs
        BY <3>4
      <4> QED  BY <3>2, <3>12, <4>1, JobsStay
    <3>14. DOMAIN cacheHeads' = DOMAIN cacheHeads
      BY <3>9
    <3> QED  BY <3>2, <3>11, <3>13, <3>14 DEF RollupInv
  <2>3. CASE crJobs' = [crJobs EXCEPT ![j].stage = "award"] /\ UNCHANGED cacheHeads
    <3>1. PICK job : job = crJobs[j]
      OBVIOUS
    <3>2. job.stage # "none" /\ JobOfKept(job) /\ UNCHANGED crKept
      BY <1>8, <3>1 DEF MoveHead, RollupInv
    <3>3. PICK next : next = [job EXCEPT !.stage = "award"]
      OBVIOUS
    <3>4. crJobs' = [crJobs EXCEPT ![j] = next]
      BY <2>3, <3>1, <3>3
    <3>5. JobOfKept(next)
      BY <3>2, <3>3, StageOf
    <3> QED  BY <2>3, <3>2, <3>4, <3>5, JobsKept
  <2> QED  BY <1>8, <2>1, <2>2, <2>3 DEF MoveHead
<1>9. ASSUME NEW n \in AnNames, NEW k, CliInitHead(n, k), UNCHANGED crVars PROVE RollupInv'
  <2>1. PICK head : head = DomainCacheHead(k, None, 0, TRUE)
    OBVIOUS
  <2>2. head.root = None
    BY <2>1 DEF DomainCacheHead
  <2>3. cacheHeads' = Created(cacheHeads, n, head) /\ UNCHANGED <<crKept, crJobs>>
    BY <1>9, <2>1 DEF CliInitHead, InitCacheHead, crVars
  <2>4. /\ DOMAIN cacheHeads' = DOMAIN cacheHeads \cup {n} /\ cacheHeads'[n] = head
        /\ \A m \in DOMAIN cacheHeads : m # n => cacheHeads'[m] = cacheHeads[m]
    BY <2>3 DEF Created
  <2>5. DOMAIN cacheHeads \subseteq AnNames
    BY DEF RollupInv
  <2> QED  BY <2>2, <2>3, <2>4, <2>5, HeadsKept
<1>10. ASSUME NEW n, NEW k, NEW root, NEW e, CliSetHead(n, k, root, e), UNCHANGED crVars
       PROVE  RollupInv'
  <2>1. PICK head : head = DomainCacheHead(k, root, e, TRUE)
    OBVIOUS
  <2>2. head.owner = k /\ k # RollupSigner
    BY <1>10, <2>1 DEF DomainCacheHead, CliSetHead
  <2>3. cacheHeads' = [cacheHeads EXCEPT ![n] = head] /\ UNCHANGED <<crKept, crJobs>>
    BY <1>10, <2>1 DEF CliSetHead, SetCacheHead, crVars
  <2>4. DOMAIN cacheHeads \subseteq AnNames
    BY DEF RollupInv
  <2> QED  BY <2>2, <2>3, <2>4, HeadsKept
<1>11. ASSUME NEW c, InitRepConfig(RollupSigner, c), UNCHANGED <<crVars, cacheHeads>>
       PROVE  RollupInv'
  BY <1>11, JobsKept DEF crVars
<1> QED  BY <1>1, <1>2, <1>3, <1>4, <1>5, <1>6, <1>7, <1>8, <1>9, <1>10, <1>11 DEF CrNext

LEMMA RollupSteps ==
  ASSUME [Next]_Vars
  PROVE  /\ service' = service
         /\ service = "rollup" => CrNext \/ UNCHANGED <<crVars, cacheHeads>>
         /\ [WgNext]_wgVars
<1>1. CASE UNCHANGED Vars
  BY <1>1 DEF Vars, anchorVars
<1>2. CASE Next
  <2>1. service' = service
    BY <1>2 DEF Next, Alone
  <2>2. service = "rollup" => CrNext
    BY <1>2 DEF Next
  <2>3. [WgNext]_wgVars
    BY <1>2 DEF Next, Alone
  <2> QED  BY <2>1, <2>2, <2>3
<1> QED  BY <1>1, <1>2

\* The head that the roll-up service keeps is the root of what it kept at some
\* time, whatever roll-ups, new entries and restarts came in between
\* (/v1/rollup, setCacheHeadOnChain); and a receipt the witness gateway signed
\* is in the spool or in a batch, wherever a flush was cut off (/v1/flush).
THEOREM EvidenceIsKept == Spec => []EvidenceKept
<1> DEFINE Inv == (service = "rollup" => RollupInv) /\ ReceiptsInv
<1>1. Init => Inv
  BY RollupInit, WgInit_Receipts DEF Init
<1>2. Inv /\ [Next]_Vars => Inv'
  <2> SUFFICES ASSUME Inv, [Next]_Vars PROVE Inv'
    OBVIOUS
  <2>1. ASSUME service = "rollup" PROVE RollupInv'
    <3>1. CASE CrNext
      BY <2>1, <3>1, CrNext_Rollup
    <3>2. CASE UNCHANGED <<crVars, cacheHeads>>
      BY <2>1, <3>2, JobsKept DEF crVars
    <3> QED  BY <2>1, <3>1, <3>2, RollupSteps
  <2> QED  BY <2>1, RollupSteps, WgNext_Receipts
<1>3. Inv => EvidenceKept
  BY DEF RollupInv, ReceiptsInv, EvidenceKept
<1> QED  BY <1>1, <1>2, <1>3, PTL DEF Spec

-----------------------------------------------------------------------------
(***************************************************************************)
(* Points for hosting: for any users, domains, zones and record kinds, any *)
(* number of requests at once, and any restarts.                           *)
(***************************************************************************)

HpReasons == {"install", "ns_verified", "dns_actions", "worker_template"}

LEMMA PointsForNat == \A reason \in HpReasons : PointsFor(reason) \in Nat
BY DEF HpReasons, PointsFor

\* The points of two logs, one after the other, are those of both.
LEMMA PointsOfConcat ==
  ASSUME NEW s, IsSeq(s), NEW t, IsSeq(t), NEW u, NEW D,
         \A i \in DOMAIN s : s[i].reason \in HpReasons,
         \A i \in DOMAIN t : t[i].reason \in HpReasons
  PROVE  PointsOf(s \o t, u, D) = PointsOf(s, u, D) + PointsOf(t, u, D)
<1> DEFINE Worth1(g) == IF g.user = u /\ g.domain \in D THEN PointsFor(g.reason) ELSE 0
           st == s \o t
           f == [i \in DOMAIN s |-> Worth1(s[i])]
           g == [i \in DOMAIN t |-> Worth1(t[i])]
           w == [i \in DOMAIN st |-> Worth1(st[i])]
           n == Len(s)
           h == [i \in DOMAIN t |-> n + i]
           A == 1 .. n
           B == {h[i] : i \in DOMAIN t}
<1>1. /\ n \in Nat /\ Len(t) \in Nat /\ DOMAIN s = A /\ DOMAIN t = 1 .. Len(t)
      /\ DOMAIN st = 1 .. n + Len(t)
      /\ \A i \in DOMAIN s : st[i] = s[i]
      /\ \A i \in DOMAIN t : st[n + i] = t[i]
  <2> HIDE DEF st
  <2>1. /\ IsSeq(st) /\ Len(st) = Len(s) + Len(t)
        /\ DOMAIN s = 1 .. Len(s) /\ DOMAIN t = 1 .. Len(t)
        /\ DOMAIN st = 1 .. Len(s) + Len(t)
        /\ Len(s) \in Nat /\ Len(t) \in Nat
        /\ \A i \in 1 .. Len(s) : st[i] = s[i]
        /\ \A i \in 1 .. Len(t) : st[Len(s) + i] = t[i]
    BY ConcatIsSeq DEF st
  <2> QED  BY <2>1
<1>2. /\ PointsOf(s, u, D) = SumFunction(f) /\ PointsOf(t, u, D) = SumFunction(g)
      /\ PointsOf(st, u, D) = SumFunction(w)
  BY DEF PointsOf
<1>3. /\ \A i \in DOMAIN s : f[i] \in Int /\ w[i] = f[i]
      /\ \A i \in DOMAIN t : g[i] \in Int /\ w[n + i] = g[i]
  <2>1. ASSUME NEW x, x.reason \in HpReasons PROVE Worth1(x) \in Int
    BY <2>1, PointsForNat
  <2> HIDE DEF Worth1, st
  <2>2. \A i \in DOMAIN s : i \in DOMAIN st /\ w[i] = Worth1(st[i])
    BY <1>1
  <2>3. \A i \in DOMAIN t : n + i \in DOMAIN st /\ w[n + i] = Worth1(st[n + i])
    BY <1>1
  <2>4. \A i \in DOMAIN s : f[i] = Worth1(s[i]) /\ f[i] \in Int
    BY <2>1
  <2>5. \A i \in DOMAIN t : g[i] = Worth1(t[i]) /\ g[i] \in Int
    BY <2>1
  <2> HIDE DEF w, f, g, n
  <2> QED  BY <1>1, <2>2, <2>3, <2>4, <2>5
<1>4. DOMAIN f = A /\ DOMAIN g = DOMAIN t /\ DOMAIN w = DOMAIN st
  BY <1>1
<1>5. /\ \A i \in DOMAIN t : h[i] = n + i
      /\ \A i, j \in DOMAIN t : h[i] = h[j] => i = j
  BY <1>1
<1>6. A \cup B = DOMAIN st /\ A \cap B = {} /\ IsFiniteSet(A) /\ IsFiniteSet(DOMAIN t)
  <2> HIDE DEF st, n
  <2>1. IsFiniteSet(A) /\ IsFiniteSet(DOMAIN t)
    BY <1>1, FS_Interval
  <2>2. B = {n + i : i \in 1 .. Len(t)}
    BY <1>1
  <2> HIDE DEF B
  <2>3. A \cap B = {}
    BY <1>1, <2>2
  <2>4. ASSUME NEW k \in 1 .. n + Len(t) PROVE k \in A \cup B
    <3>1. CASE k > n
      <4>1. k - n \in 1 .. Len(t) /\ k = n + (k - n)
        BY <1>1, <3>1
      <4> QED  BY <2>2, <4>1
    <3> QED  BY <1>1, <3>1
  <2>5. A \cup B \subseteq 1 .. n + Len(t)
    BY <1>1, <2>2
  <2> QED  BY <1>1, <2>1, <2>3, <2>4, <2>5
<1> HIDE DEF f, g, w, n, h, st, A
<1>7. IsFiniteSet(B) /\ SumFunctionOnSet(w, B) = SumFunctionOnSet(g, DOMAIN t)
  <2>1. \A i \in DOMAIN t : w[h[i]] = g[i] /\ g[i] \in Int
    BY <1>3, <1>5
  <2> QED  BY <1>5, <1>6, <2>1, SumImage
<1>8. SumFunctionOnSet(w, A) = SumFunctionOnSet(f, A)
  BY <1>1, <1>3, <1>6, SumSame
<1>9. \A k \in A \cup B : w[k] \in Int
  BY <1>1, <1>3, <1>5
<1> HIDE DEF B
<1>10. SumFunctionOnSet(w, A \cup B) = SumFunctionOnSet(w, A) + SumFunctionOnSet(w, B)
  BY <1>6, <1>7, <1>9, SumUnion
<1>11. /\ SumFunction(f) = SumFunctionOnSet(f, A)
       /\ SumFunction(g) = SumFunctionOnSet(g, DOMAIN t)
       /\ SumFunction(w) = SumFunctionOnSet(w, A \cup B)
  BY <1>4, <1>6, SumAll
<1> QED  BY <1>2, <1>7, <1>8, <1>10, <1>11 DEF st

-----------------------------------------------------------------------------
\* Every event has one of the reasons and its key is used.
EventsInv ==
  /\ IsSeq(hpEvents)
  /\ \A i \in DOMAIN hpEvents : hpEvents[i].reason \in HpReasons /\ hpEvents[i] \in hpPaidKeys
  /\ PointsReconcile

\* Grants that may be added: different from each other and from those before.
Addable(grants) ==
  /\ IsSeq(grants) /\ IsInjective(grants)
  /\ \A i \in DOMAIN grants : grants[i].reason \in HpReasons /\ grants[i] \notin hpPaidKeys

LEMMA PointsAdded ==
  ASSUME EventsInv, NEW grants, Addable(grants), AddPoints(grants)
  PROVE  /\ EventsInv'
         /\ \A i \in DOMAIN hpEvents' :
              (i \in DOMAIN hpEvents /\ hpEvents'[i] = hpEvents[i])
              \/ \E k \in DOMAIN grants : hpEvents'[i] = grants[k]
<1>1. /\ IsSeq(hpEvents) /\ IsSeq(grants) /\ hpEvents' = hpEvents \o grants
  BY DEF EventsInv, Addable, AddPoints
<1>2. PICK s : s = hpEvents
  OBVIOUS
<1>3. PICK st : st = s \o grants
  OBVIOUS
<1>4. /\ IsSeq(st) /\ Len(st) = Len(s) + Len(grants)
      /\ DOMAIN s = 1 .. Len(s) /\ DOMAIN grants = 1 .. Len(grants)
      /\ DOMAIN st = 1 .. Len(s) + Len(grants)
      /\ Len(s) \in Nat /\ Len(grants) \in Nat
      /\ \A i \in 1 .. Len(s) : st[i] = s[i]
      /\ \A i \in 1 .. Len(grants) : st[Len(s) + i] = grants[i]
  BY <1>1, <1>2, <1>3, ConcatIsSeq
<1>5. ASSUME NEW i \in DOMAIN st
      PROVE  \/ (i \in DOMAIN s /\ st[i] = s[i])
             \/ (i > Len(s) /\ i - Len(s) \in DOMAIN grants /\ st[i] = grants[i - Len(s)])
  <2>1. CASE i > Len(s)
    <3>1. i - Len(s) \in 1 .. Len(grants) /\ i = Len(s) + (i - Len(s))
      BY <1>4, <2>1
    <3> QED  BY <1>4, <2>1, <3>1
  <2>2. CASE ~(i > Len(s))
    BY <1>4, <2>2
  <2> QED  BY <2>1, <2>2
<1>6. hpEvents' = st /\ hpPaidKeys' = hpPaidKeys \cup ToSet(grants)
  BY <1>1, <1>2, <1>3 DEF AddPoints
<1>7. \A i \in DOMAIN st : st[i].reason \in HpReasons /\ st[i] \in hpPaidKeys'
  BY <1>2, <1>5, <1>6 DEF EventsInv, Addable, ToSet
<1>8. IsInjective(st)
  <2> SUFFICES ASSUME NEW i \in DOMAIN st, NEW j \in DOMAIN st, st[i] = st[j] PROVE i = j
    BY DEF IsInjective
  <2>1. \A k \in DOMAIN s : s[k] \in hpPaidKeys
    BY <1>2 DEF EventsInv
  <2>2. \A k, l \in DOMAIN s : s[k] = s[l] => k = l
    BY <1>2 DEF EventsInv, PointsReconcile, IsInjective
  <2>3. /\ \A k \in DOMAIN grants : grants[k] \notin hpPaidKeys
        /\ \A k, l \in DOMAIN grants : grants[k] = grants[l] => k = l
    BY DEF Addable, IsInjective
  <2> QED  BY <1>4, <1>5, <2>1, <2>2, <2>3
<1>9. ASSUME NEW u, NEW D
      PROVE  PointsOf(st, u, D) = PointsOf(hpEvents, u, D) + PointsOf(grants, u, D)
  BY <1>1, <1>2, <1>3, PointsOfConcat DEF EventsInv, Addable
<1>10. ASSUME NEW u \in HpUsers
       PROVE  /\ hpTotals'[u] = PointsOf(st, u, HpDomains)
              /\ \A d \in HpDomains : hpByDomain'[u][d] = PointsOf(st, u, {d})
  BY <1>9 DEF AddPoints, EventsInv, PointsReconcile
<1>11. PointsReconcile'
  BY <1>6, <1>8, <1>10 DEF PointsReconcile
<1> QED  BY <1>2, <1>4, <1>5, <1>6, <1>7, <1>11 DEF EventsInv

LEMMA NothingAddable == Addable(<<>>)
BY EmptyIsSeq DEF Addable, IsInjective

\* GrantsOf, of one grant and of two.
LEMMA GrantAddable ==
  ASSUME NEW g, g.reason \in HpReasons
  PROVE  /\ Addable(GrantsOf(g)) /\ \A i \in DOMAIN GrantsOf(g) : GrantsOf(g)[i] = g
<1>1. <<g>> = Append(<<>>, g)
  OBVIOUS
<1>2. IsSeq(<<g>>)
  BY <1>1, EmptyIsSeq, AppendIsSeq
<1>3. CASE g \in hpPaidKeys
  BY <1>3, NothingAddable DEF GrantsOf
<1>4. CASE g \notin hpPaidKeys
  BY <1>2, <1>4 DEF Addable, GrantsOf, IsInjective
<1> QED  BY <1>3, <1>4

LEMMA GrantsAddable ==
  ASSUME NEW g, NEW h, g.reason \in HpReasons, h.reason \in HpReasons, g # h
  PROVE  LET both == GrantsOf(g) \o GrantsOf(h)
         IN  Addable(both) /\ \A i \in DOMAIN both : both[i] = g \/ both[i] = h
<1>1. PICK s : s = GrantsOf(g)
  OBVIOUS
<1>2. PICK t : t = GrantsOf(h)
  OBVIOUS
<1>3. PICK u : u = s \o t
  OBVIOUS
<1>4. /\ IsSeq(s) /\ IsSeq(t) /\ IsInjective(s) /\ IsInjective(t)
      /\ \A i \in DOMAIN s : s[i] = g /\ s[i] \notin hpPaidKeys
      /\ \A i \in DOMAIN t : t[i] = h /\ t[i] \notin hpPaidKeys
  BY <1>1, <1>2, GrantAddable DEF Addable
<1>5. /\ IsSeq(u) /\ DOMAIN s = 1 .. Len(s) /\ DOMAIN t = 1 .. Len(t)
      /\ DOMAIN u = 1 .. Len(s) + Len(t) /\ Len(s) \in Nat /\ Len(t) \in Nat
      /\ \A i \in 1 .. Len(s) : u[i] = s[i]
      /\ \A i \in 1 .. Len(t) : u[Len(s) + i] = t[i]
  BY <1>3, <1>4, ConcatIsSeq
<1>6. ASSUME NEW i \in DOMAIN u
      PROVE  \/ (i \in DOMAIN s /\ u[i] = s[i])
             \/ (i > Len(s) /\ i - Len(s) \in DOMAIN t /\ u[i] = t[i - Len(s)])
  <2>1. CASE i > Len(s)
    <3>1. i - Len(s) \in 1 .. Len(t) /\ i = Len(s) + (i - Len(s))
      BY <1>5, <2>1
    <3> QED  BY <1>5, <2>1, <3>1
  <2>2. CASE ~(i > Len(s))
    BY <1>5, <2>2
  <2> QED  BY <2>1, <2>2
<1>7. \A i \in DOMAIN u : (u[i] = g \/ u[i] = h) /\ u[i] \notin hpPaidKeys
  BY <1>4, <1>6
<1>8. IsInjective(u)
  <2> SUFFICES ASSUME NEW i \in DOMAIN u, NEW j \in DOMAIN u, u[i] = u[j] PROVE i = j
    BY DEF IsInjective
  <2>1. /\ \A k, l \in DOMAIN s : s[k] = s[l] => k = l
        /\ \A k, l \in DOMAIN t : t[k] = t[l] => k = l
    BY <1>4 DEF IsInjective
  <2> QED  BY <1>4, <1>5, <1>6, <2>1
<1> QED  BY <1>1, <1>2, <1>3, <1>5, <1>7, <1>8 DEF Addable

-----------------------------------------------------------------------------
\* The rows and the requests, in the form the handlers give them, and what a
\* look at the zone that found a record says: it is still there.
HpRow ==
  [user : HpUsers, zone : HpZones \cup {HpNone}, domain : HpDomains \cup {HpNone},
   token : HpTokens, verified : BOOLEAN, txt : HpTxts \cup {HpNone}]
HpVerifies(id) ==
  [id : {id}, kind : {"verify"}, conn : HpConns, row : HpRow, domain : HpDomains,
   txt : HpTxts \cup {HpNone}]
HpActions(id) ==
  [id : {id}, kind : {"actions"}, conn : HpConns, row : HpRow, domain : HpDomains,
   worker : BOOLEAN, steps : [HpRecordKinds -> {"look", "put", "post", "done", "failed"}]]

RecordFound(job) ==
  /\ job.row.zone \in HpZones
  /\ \A r \in HpRecordKinds :
       job.steps[r] \in {"put", "done"} => hpZoneRecords[job.row.zone][<<job.domain, r>>] > 0
HpJobOK(job) ==
  \E id : job \in HpVerifies(id) \/ (job \in HpActions(id) /\ RecordFound(job))

HostingInv ==
  /\ EventsInv /\ \A i \in DOMAIN hpEvents : hpEvents[i].domain \in HpDomains
  /\ DOMAIN hpConns \subseteq HpConns /\ \A c \in DOMAIN hpConns : hpConns[c] \in HpRow
  /\ \A job \in hpJobs : HpJobOK(job)
  /\ hpZoneRecords \in [HpZones -> [HpDomains \X HpRecordKinds -> Nat]]
  /\ ActionPointsEarned

LEMMA HpInit_Hosting == HpInit => HostingInv
<1> SUFFICES ASSUME HpInit PROVE HostingInv
  OBVIOUS
<1>1. ASSUME NEW u, NEW D PROVE PointsOf(<<>>, u, D) = 0
  BY SumNone DEF PointsOf
<1>2. PointsReconcile
  <2>1. hpEvents = <<>>
    BY DEF HpInit
  <2>2. IsInjective(hpEvents)
    BY <2>1 DEF IsInjective
  <2>3. \A u \in HpUsers : /\ hpTotals[u] = 0 /\ \A d \in HpDomains : hpByDomain[u][d] = 0
    BY DEF HpInit
  <2> QED  BY <1>1, <2>1, <2>2, <2>3 DEF PointsReconcile
<1>3. EventsInv
  BY <1>2, EmptyIsSeq DEF EventsInv, HpInit
<1>4. hpZoneRecords \in [HpZones -> [HpDomains \X HpRecordKinds -> Nat]]
  BY DEF HpInit
<1> QED  BY <1>3, <1>4 DEF HostingInv, HpInit, ActionPointsEarned

\* The records of a zone never become fewer, so what was found stays.
RecordsStay ==
  \A z \in HpZones, d \in HpDomains, r \in HpRecordKinds :
    hpZoneRecords[z][<<d, r>>] > 0 => hpZoneRecords'[z][<<d, r>>] > 0

LEMMA HpJobStays ==
  ASSUME RecordsStay, NEW job, HpJobOK(job)
  PROVE  /\ job.kind = "actions" => RecordFound(job)' /\ job.domain \in HpDomains
         /\ HpJobOK(job)'
<1>1. CASE \E id : job \in HpVerifies(id)
  BY <1>1 DEF HpVerifies, HpJobOK
<1>2. CASE \E id : job \in HpActions(id) /\ RecordFound(job)
  <2>1. job.domain \in HpDomains
    BY <1>2 DEF HpActions
  <2>2. \A r \in HpRecordKinds :
           job.steps[r] \in {"put", "done"} => hpZoneRecords'[job.row.zone][<<job.domain, r>>] > 0
    BY <1>2, <2>1 DEF RecordFound, RecordsStay
  <2> QED  BY <1>2, <2>1, <2>2 DEF RecordFound, HpJobOK
<1> QED  BY <1>1, <1>2 DEF HpJobOK

LEMMA EarnedStays ==
  ASSUME RecordsStay, ActionPointsEarned, UNCHANGED hpEvents,
         \A i \in DOMAIN hpEvents : hpEvents[i].domain \in HpDomains
  PROVE  ActionPointsEarned'
BY DEF RecordsStay, ActionPointsEarned

\* A grant that adds points for records names a domain whose records stand.
GrantEarned(g) ==
  /\ g.domain \in HpDomains
  /\ g.reason \in {"dns_actions", "worker_template"} =>
       \E z \in HpZones : \A r \in HpRecordKinds : hpZoneRecords[z][<<g.domain, r>>] > 0

LEMMA HostingAdds ==
  ASSUME HostingInv, UNCHANGED hpZoneRecords, NEW grants, Addable(grants), AddPoints(grants),
         \A k \in DOMAIN grants : GrantEarned(grants[k])
  PROVE  /\ EventsInv' /\ ActionPointsEarned'
         /\ \A i \in DOMAIN hpEvents' : hpEvents'[i].domain \in HpDomains
<1>1. /\ EventsInv'
      /\ \A i \in DOMAIN hpEvents' :
              (i \in DOMAIN hpEvents /\ hpEvents'[i] = hpEvents[i])
              \/ \E k \in DOMAIN grants : hpEvents'[i] = grants[k]
  BY PointsAdded DEF HostingInv
<1>2. \A i \in DOMAIN hpEvents : GrantEarned(hpEvents[i])
  BY DEF HostingInv, GrantEarned, ActionPointsEarned
<1>3. PICK e : e = hpEvents'
  OBVIOUS
<1>4. \A i \in DOMAIN e : GrantEarned(e[i])
  BY <1>1, <1>2, <1>3
<1>5. PICK z : z = hpZoneRecords
  OBVIOUS
<1> QED  BY <1>1, <1>3, <1>4 DEF GrantEarned, ActionPointsEarned

LEMMA HostingSaves ==
  ASSUME HostingInv, NEW c \in HpConns, NEW row \in HpRow, NEW tokens,
         SaveConnection(c, row, tokens)
  PROVE  /\ DOMAIN hpConns' \subseteq HpConns
         /\ \A x \in DOMAIN hpConns' : hpConns'[x] \in HpRow
BY DEF HostingInv, SaveConnection

\* One step of a record of an action.
LEMMA HpJobMoves ==
  ASSUME NEW job \in hpJobs, HpJobOK(job), job.kind = "actions", NEW r \in HpRecordKinds,
         NEW step \in {"look", "put", "post", "done", "failed"}, RecordsStay,
         step \in {"put", "done"} => hpZoneRecords'[job.row.zone][<<job.domain, r>>] > 0
  PROVE  HpJobOK([job EXCEPT !.steps[r] = step])'
<1>1. PICK id : job \in HpActions(id) /\ RecordFound(job)
  BY DEF HpJobOK, HpVerifies
<1>2. PICK q : q = [job EXCEPT !.steps[r] = step]
  OBVIOUS
<1>3. /\ q \in HpActions(id) /\ q.row = job.row /\ q.domain = job.domain
      /\ \A s \in HpRecordKinds : q.steps[s] = IF s = r THEN step ELSE job.steps[s]
  BY <1>1, <1>2 DEF HpActions
<1>4. job.domain \in HpDomains
  BY <1>1 DEF HpActions
<1>5. \A s \in HpRecordKinds :
        q.steps[s] \in {"put", "done"} => hpZoneRecords'[q.row.zone][<<q.domain, s>>] > 0
  BY <1>1, <1>3, <1>4 DEF RecordFound, RecordsStay
<1>6. RecordFound(q)'
  BY <1>1, <1>3, <1>5 DEF RecordFound
<1>7. HpJobOK(q)'
  BY <1>3, <1>6 DEF HpJobOK
<1> QED  BY <1>2, <1>7

LEMMA HpNext_Hosting == HostingInv /\ [HpNext]_hpVars => HostingInv'
<1> SUFFICES ASSUME HostingInv, [HpNext]_hpVars PROVE HostingInv'
  OBVIOUS
<1> DEFINE ConnsOK == /\ DOMAIN hpConns \subseteq HpConns
                      /\ \A c \in DOMAIN hpConns : hpConns[c] \in HpRow
           JobsOK == \A job \in hpJobs : HpJobOK(job)
           RecordsOK == hpZoneRecords \in [HpZones -> [HpDomains \X HpRecordKinds -> Nat]]
           EventsOK == /\ EventsInv /\ ActionPointsEarned
                       /\ \A i \in DOMAIN hpEvents : hpEvents[i].domain \in HpDomains
<1>1. ConnsOK /\ JobsOK /\ RecordsOK /\ EventsOK
  BY DEF HostingInv
<1>2. ConnsOK' /\ JobsOK' /\ RecordsOK' /\ EventsOK' => HostingInv'
  BY DEF HostingInv
<1>3. UNCHANGED hpConns => ConnsOK'
  BY <1>1
<1>4. UNCHANGED hpZoneRecords => RecordsOK' /\ RecordsStay
  BY <1>1 DEF RecordsStay
<1>5. RecordsStay /\ UNCHANGED hpPoints => EventsOK'
  <2> SUFFICES ASSUME RecordsStay, UNCHANGED hpPoints PROVE EventsOK'
    OBVIOUS
  <2>1. ActionPointsEarned'
    BY <1>1, EarnedStays DEF hpPoints
  <2>2. EventsInv'
    BY <1>1 DEF hpPoints, EventsInv, PointsReconcile
  <2> QED  BY <1>1, <2>1, <2>2 DEF hpPoints
<1>6. RecordsStay /\ hpJobs' \subseteq hpJobs => JobsOK'
  BY <1>1, HpJobStays
<1> HIDE DEF ConnsOK, RecordsOK, EventsOK
<1>7. CASE UNCHANGED hpVars
  BY <1>2, <1>3, <1>4, <1>5, <1>6, <1>7 DEF hpVars, hpPoints
<1>8. CASE OauthStart \/ OauthExpires
  BY <1>2, <1>3, <1>4, <1>5, <1>6, <1>8 DEF OauthStart, OauthExpires
<1>9. ASSUME NEW c \in HpConns, NEW u \in HpUsers, NEW t \in HpTokens, Connect(c, u, t)
      PROVE  HostingInv'
  <2>1. PICK row : row = [user |-> u, zone |-> HpNone, domain |-> HpNone, token |-> t,
                          verified |-> FALSE, txt |-> HpNone]
    OBVIOUS
  <2>2. row \in HpRow
    BY <2>1 DEF HpRow
  <2>3. SaveConnection(c, row, hpTokens \cup {t})
    BY <1>9, <2>1 DEF Connect
  <2>4. ConnsOK'
    BY <2>2, <2>3, HostingSaves DEF ConnsOK
  <2> QED  BY <1>2, <1>4, <1>5, <1>6, <1>9, <2>4 DEF Connect
<1>10. ASSUME NEW c \in HpConns, NEW z \in HpZones, SelectZone(c, z) PROVE HostingInv'
  <2>1. PICK row : row = [hpConns[c] EXCEPT !.zone = z]
    OBVIOUS
  <2>2. row \in HpRow
    BY <1>1, <1>10, <2>1 DEF HpRow, SelectZone, ConnsOK
  <2>3. SaveConnection(c, row, hpTokens)
    BY <1>10, <2>1 DEF SelectZone
  <2>4. ConnsOK'
    BY <2>2, <2>3, HostingSaves DEF ConnsOK
  <2> QED  BY <1>2, <1>4, <1>5, <1>6, <1>10, <2>4 DEF SelectZone
<1>11. ASSUME NEW c \in HpConns, NEW d \in HpDomains \cup {HpNone}, NEW t \in HpTxts,
              VerifyStart(c, d, t)
       PROVE  HostingInv'
  <2>1. PICK job : job = [id |-> Min(FreeIds), kind |-> "verify", conn |-> c,
                          row |-> hpConns[c], domain |-> DomainOf(d, c),
                          txt |-> IF hpConns[c].txt # HpNone THEN hpConns[c].txt ELSE t]
    OBVIOUS
  <2>2. hpJobs' = hpJobs \cup {job}
    BY <1>11, <2>1 DEF VerifyStart
  <2>3. hpConns[c] \in HpRow
    BY <1>1, <1>11 DEF VerifyStart, ConnsOK
  <2>4. DomainOf(d, c) \in HpDomains
    BY <1>11, <2>3 DEF VerifyStart, DomainOf, HpRow
  <2>5. job \in HpVerifies(Min(FreeIds))
    BY <2>1, <2>3, <2>4 DEF HpVerifies, HpRow
  <2>6. HpJobOK(job)
    BY <2>5 DEF HpJobOK
  <2>7. RecordsStay /\ RecordsOK' /\ ConnsOK' /\ EventsOK'
    BY <1>3, <1>4, <1>5, <1>11 DEF VerifyStart
  <2>8. JobsOK'
    BY <1>1, <2>2, <2>6, <2>7, HpJobStays
  <2> QED  BY <1>2, <2>7, <2>8
<1>12. ASSUME NEW c \in HpConns, NEW d \in HpDomains \cup {HpNone}, NEW h \in BOOLEAN,
              NEW w \in BOOLEAN, ActionsStart(c, d, h, w)
       PROVE  HostingInv'
  <2>1. PICK job : job = [id |-> Min(FreeIds), kind |-> "actions", conn |-> c,
                          row |-> hpConns[c], domain |-> DomainOf(d, c),
                          worker |-> w, steps |-> [r \in HpRecordKinds |-> "look"]]
    OBVIOUS
  <2>2. hpJobs' = hpJobs \cup {job}
    BY <1>12, <2>1 DEF ActionsStart
  <2>3. hpConns[c] \in HpRow
    BY <1>1, <1>12 DEF ActionsStart, ConnsOK
  <2>4. DomainOf(d, c) \in HpDomains /\ hpConns[c].zone \in HpZones
    BY <1>12, <2>3 DEF ActionsStart, DomainOf, HpRow
  <2>5. job \in HpActions(Min(FreeIds))
    BY <2>1, <2>3, <2>4 DEF HpActions
  <2>6. RecordFound(job)
    BY <2>1, <2>4 DEF RecordFound
  <2>7. HpJobOK(job)
    BY <2>5, <2>6 DEF HpJobOK
  <2>8. RecordsStay /\ RecordsOK' /\ ConnsOK' /\ EventsOK'
    BY <1>3, <1>4, <1>5, <1>12 DEF ActionsStart
  <2>9. JobsOK'
    BY <1>1, <2>2, <2>7, <2>8, HpJobStays
  <2> QED  BY <1>2, <2>8, <2>9
<1>13. ASSUME NEW job \in hpJobs, NEW txt \in BOOLEAN, NEW ns \in BOOLEAN,
              VerifyEnd(job, txt, ns)
       PROVE  HostingInv'
  <2>1. PICK id : job \in HpVerifies(id)
    BY <1>1, <1>13 DEF VerifyEnd, HpJobOK, HpActions
  <2>2. PICK row : row = [job.row EXCEPT !.domain = job.domain, !.txt = job.txt,
                                         !.verified = @ \/ (txt /\ ns)]
    OBVIOUS
  <2>3. row \in HpRow /\ job.conn \in HpConns /\ job.domain \in HpDomains
    <3>1. PICK old : old = job.row
      OBVIOUS
    <3>2. /\ old \in HpRow /\ job.domain \in HpDomains /\ job.txt \in HpTxts \cup {HpNone}
          /\ job.conn \in HpConns
      BY <2>1, <3>1 DEF HpVerifies
    <3>3. (old.verified \/ (txt /\ ns)) \in BOOLEAN
      OBVIOUS
    <3>4. row = [[[old EXCEPT !.domain = job.domain] EXCEPT !.txt = job.txt]
                   EXCEPT !.verified = (old.verified \/ (txt /\ ns))]
      BY <2>2, <3>1, <3>2 DEF HpRow
    <3> QED  BY <3>2, <3>3, <3>4 DEF HpRow
  <2>4. SaveConnection(job.conn, row, hpTokens)
    BY <1>13, <2>2 DEF VerifyEnd
  <2>5. ConnsOK'
    BY <2>3, <2>4, HostingSaves DEF ConnsOK
  <2>6. PICK g : g = Grant(job.row.user, job.domain, "ns_verified", HpNone)
    OBVIOUS
  <2>7. GrantEarned(g) /\ g.reason \in HpReasons
    BY <2>3, <2>6 DEF GrantEarned, Grant, HpReasons
  <2>8. PICK grants : grants = IF txt /\ ns THEN GrantsOf(g) ELSE <<>>
    OBVIOUS
  <2>9. AddPoints(grants)
    BY <1>13, <2>6, <2>8 DEF VerifyEnd
  <2>10. Addable(grants) /\ \A k \in DOMAIN grants : GrantEarned(grants[k])
    BY <2>7, <2>8, GrantAddable, NothingAddable
  <2>11. UNCHANGED hpZoneRecords /\ hpJobs' \subseteq hpJobs
    BY <1>13 DEF VerifyEnd
  <2>12. EventsOK'
    BY <2>9, <2>10, <2>11, HostingAdds DEF EventsOK
  <2> QED  BY <1>2, <1>4, <1>6, <2>5, <2>11, <2>12
<1>14. ASSUME NEW job \in hpJobs, NEW r \in HpRecordKinds, LookUp(job, r) PROVE HostingInv'
  <2>1. PICK step : step = IF hpZoneRecords[job.row.zone][<<job.domain, r>>] > 0
                           THEN "put" ELSE "post"
    OBVIOUS
  <2>2. hpJobs' = (hpJobs \ {job}) \cup {[job EXCEPT !.steps[r] = step]}
    BY <1>14, <2>1 DEF LookUp
  <2>3. RecordsStay /\ RecordsOK' /\ ConnsOK' /\ EventsOK'
    BY <1>3, <1>4, <1>5, <1>14 DEF LookUp
  <2>4. HpJobOK([job EXCEPT !.steps[r] = step])'
    <3>1. step = "put" => hpZoneRecords'[job.row.zone][<<job.domain, r>>] > 0
      BY <1>14, <2>1 DEF LookUp
    <3>2. HpJobOK(job) /\ job.kind = "actions" /\ step \in {"put", "post"}
      BY <1>1, <1>14, <2>1 DEF LookUp
    <3> QED  BY <2>3, <3>1, <3>2, HpJobMoves
  <2>5. JobsOK'
    BY <1>1, <2>2, <2>3, <2>4, HpJobStays
  <2> QED  BY <1>2, <2>3, <2>5
<1>15. ASSUME NEW job \in hpJobs, NEW r \in HpRecordKinds, WriteRecord(job, r)
       PROVE  HostingInv'
  <2>1. HpJobOK(job) /\ job.kind = "actions" /\ job.steps[r] \in {"put", "post"}
    BY <1>1, <1>15 DEF WriteRecord
  <2>2. PICK id : job \in HpActions(id) /\ RecordFound(job)
    BY <2>1 DEF HpJobOK, HpVerifies
  <2>3. PICK z, d : z = job.row.zone /\ d = job.domain
    OBVIOUS
  <2>4. z \in HpZones /\ d \in HpDomains /\ <<d, r>> \in HpDomains \X HpRecordKinds
    BY <2>2, <2>3 DEF RecordFound, HpActions
  <2>5. RecordsOK' /\ RecordsStay /\ hpZoneRecords'[z][<<d, r>>] > 0
    <3>1. CASE job.steps[r] = "put"
      <4>1. hpZoneRecords[z][<<d, r>>] > 0
        BY <2>2, <2>3, <3>1 DEF RecordFound
      <4> QED  BY <1>4, <1>15, <3>1, <4>1 DEF WriteRecord
    <3>2. CASE job.steps[r] # "put"
      <4>1. hpZoneRecords' = [hpZoneRecords EXCEPT ![z][<<d, r>>] = @ + 1]
        BY <1>15, <2>3, <3>2 DEF WriteRecord
      <4>2. \A y \in HpZones, p \in HpDomains \X HpRecordKinds :
              /\ hpZoneRecords[y][p] \in Nat
              /\ hpZoneRecords'[y][p] = IF y = z /\ p = <<d, r>>
                                        THEN hpZoneRecords[y][p] + 1 ELSE hpZoneRecords[y][p]
        BY <1>1, <2>4, <4>1 DEF RecordsOK
      <4>3. RecordsOK'
        <5>1. PICK p : p = <<d, r>>
          OBVIOUS
        <5>2. PICK f : f = hpZoneRecords[z]
          OBVIOUS
        <5>3. PICK g : g = [f EXCEPT ![p] = f[p] + 1]
          OBVIOUS
        <5>4. f \in [HpDomains \X HpRecordKinds -> Nat] /\ f[p] \in Nat
          BY <1>1, <2>4, <5>1, <5>2 DEF RecordsOK
        <5>5. g \in [HpDomains \X HpRecordKinds -> Nat]
          <6>1. PICK n : n = f[p] + 1
            OBVIOUS
          <6>2. n \in Nat
            BY <5>4, <6>1
          <6>3. g = [f EXCEPT ![p] = n]
            BY <5>3, <6>1
          <6> QED  BY <5>4, <6>2, <6>3
        <5>6. hpZoneRecords' = [hpZoneRecords EXCEPT ![z] = g]
          <6>1. [hpZoneRecords EXCEPT ![z] = g] = [hpZoneRecords EXCEPT ![z][p] = @ + 1]
            BY <5>2, <5>3
          <6> QED  BY <4>1, <5>1, <6>1
        <5> QED  BY <1>1, <5>5, <5>6 DEF RecordsOK
      <4> QED  BY <2>4, <4>2, <4>3 DEF RecordsStay
    <3> QED  BY <3>1, <3>2
  <2>6. HpJobOK([job EXCEPT !.steps[r] = "done"])'
    BY <2>1, <2>3, <2>5, HpJobMoves
  <2>7. hpJobs' = (hpJobs \ {job}) \cup {[job EXCEPT !.steps[r] = "done"]}
    BY <1>15 DEF WriteRecord
  <2>8. JobsOK'
    BY <1>1, <2>5, <2>6, <2>7, HpJobStays
  <2>9. ConnsOK' /\ EventsOK'
    BY <1>3, <1>5, <1>15, <2>5 DEF WriteRecord
  <2> QED  BY <1>2, <2>5, <2>8, <2>9
<1>16. ASSUME NEW job \in hpJobs, NEW r \in HpRecordKinds, CallFails(job, r)
       PROVE  HostingInv'
  <2>1. hpJobs' = (hpJobs \ {job}) \cup {[job EXCEPT !.steps[r] = "failed"]}
    BY <1>16 DEF CallFails
  <2>2. RecordsStay /\ RecordsOK' /\ ConnsOK' /\ EventsOK'
    BY <1>3, <1>4, <1>5, <1>16 DEF CallFails
  <2>3. HpJobOK([job EXCEPT !.steps[r] = "failed"])'
    BY <1>1, <1>16, <2>2, HpJobMoves DEF CallFails
  <2>4. JobsOK'
    BY <1>1, <2>1, <2>2, <2>3, HpJobStays
  <2> QED  BY <1>2, <2>2, <2>4
<1>17. ASSUME NEW job \in hpJobs, ActionsEnd(job) PROVE HostingInv'
  <2>1. PICK id : job \in HpActions(id) /\ RecordFound(job)
    BY <1>1, <1>17 DEF ActionsEnd, HpJobOK, HpVerifies
  <2>2. UNCHANGED <<hpConns, hpZoneRecords>> /\ hpJobs' \subseteq hpJobs
    BY <1>17 DEF ActionsEnd
  <2>3. PICK g : g = Grant(job.row.user, job.domain, "dns_actions", HpNone)
    OBVIOUS
  <2>4. PICK h : h = Grant(job.row.user, job.domain, "worker_template", HpNone)
    OBVIOUS
  <2>5. g.reason \in HpReasons /\ h.reason \in HpReasons /\ g # h
    BY <2>3, <2>4 DEF Grant, HpReasons
  <2>6. CASE \E r \in HpRecordKinds : job.steps[r] = "failed"
    <3>1. AddPoints(<<>>)
      BY <1>17, <2>6 DEF ActionsEnd
    <3>2. EventsOK'
      BY <2>2, <3>1, NothingAddable, HostingAdds DEF EventsOK
    <3> QED  BY <1>2, <1>3, <1>4, <1>6, <2>2, <3>2
  <2>7. CASE ~(\E r \in HpRecordKinds : job.steps[r] = "failed")
    <3>1. GrantEarned(g) /\ GrantEarned(h)
      <4>1. \A r \in HpRecordKinds : job.steps[r] = "done"
        BY <1>17, <2>7 DEF ActionsEnd
      <4>2. job.domain \in HpDomains /\ job.row.zone \in HpZones
        BY <2>1 DEF HpActions, RecordFound
      <4>3. \A r \in HpRecordKinds : hpZoneRecords[job.row.zone][<<job.domain, r>>] > 0
        BY <2>1, <4>1 DEF RecordFound
      <4> QED  BY <2>3, <2>4, <4>2, <4>3 DEF GrantEarned, Grant
    <3>2. PICK grants : grants = GrantsOf(g) \o (IF job.worker THEN GrantsOf(h) ELSE <<>>)
      OBVIOUS
    <3>3. AddPoints(grants)
      BY <1>17, <2>3, <2>4, <2>7, <3>2 DEF ActionsEnd
    <3>4. Addable(grants) /\ \A k \in DOMAIN grants : grants[k] = g \/ grants[k] = h
      <4>1. CASE job.worker
        BY <2>5, <3>2, <4>1, GrantsAddable
      <4>2. CASE ~job.worker
        <5>1. GrantsOf(g) \o <<>> = GrantsOf(g)
          BY DEF GrantsOf
        <5> QED  BY <2>5, <3>2, <4>2, <5>1, GrantAddable
      <4> QED  BY <4>1, <4>2
    <3>5. EventsOK'
      BY <2>2, <3>1, <3>3, <3>4, HostingAdds DEF EventsOK
    <3> QED  BY <1>2, <1>3, <1>4, <1>6, <2>2, <3>5
  <2> QED  BY <2>6, <2>7
<1>18. ASSUME NEW u \in HpUsers, NEW d \in HpDomains, NEW i \in HpInstalls \cup {HpNone},
              PointsInstall(u, d, i)
       PROVE  HostingInv'
  <2>1. PICK g : g = Grant(u, d, "install", i)
    OBVIOUS
  <2>2. GrantEarned(g) /\ g.reason \in HpReasons
    BY <2>1 DEF GrantEarned, Grant, HpReasons
  <2>3. AddPoints(GrantsOf(g)) /\ UNCHANGED <<hpConns, hpJobs, hpZoneRecords>>
    BY <1>18, <2>1 DEF PointsInstall
  <2>4. EventsOK'
    BY <2>2, <2>3, GrantAddable, HostingAdds DEF EventsOK
  <2> QED  BY <1>2, <1>3, <1>4, <1>6, <2>3, <2>4
<1>19. ASSUME NEW key \in HpKeys, HpRestart(key) PROVE HostingInv'
  BY <1>2, <1>3, <1>4, <1>5, <1>6, <1>19 DEF HpRestart
<1> QED
  BY <1>7, <1>8, <1>9, <1>10, <1>11, <1>12, <1>13, <1>14, <1>15, <1>16, <1>17, <1>18, <1>19
  DEF HpNext

LEMMA HostingSteps == ASSUME [Next]_Vars PROVE [HpNext]_hpVars
<1>1. CASE UNCHANGED Vars
  BY <1>1 DEF Vars
<1>2. CASE Next
  BY <1>2 DEF Next, Alone
<1> QED  BY <1>1, <1>2

\* The points of every user are those of the events, and no deed earns twice,
\* whatever requests cross and however often the service restarts (addPoints);
\* and points for DNS records come only to a domain with a record of each kind
\* in a zone (the handler of /actions).
THEOREM PointsAreEarned == Spec => []PointsEarned
<1>1. Init => HostingInv
  BY HpInit_Hosting DEF Init
<1>2. HostingInv /\ [Next]_Vars => HostingInv'
  BY HostingSteps, HpNext_Hosting
<1>3. HostingInv => PointsEarned
  BY DEF HostingInv, EventsInv, PointsEarned
<1> QED  BY <1>1, <1>2, <1>3, PTL DEF Spec

-----------------------------------------------------------------------------
(***************************************************************************)
(* The relay and the publication of routes: for any routes, witnesses,     *)
(* quorum, attestations and number of submissions at once.                 *)
(***************************************************************************)

\* A submission that passed the checks of /v1/route/submit.
Attested(w) ==
  w.route \in RrRoutes /\ Cardinality(ValidWitnesses(w.route, w.with)) >= RrQuorum

RelayInv ==
  /\ \A w \in rrWaiting \cup rrStored : Attested(w)
  /\ \A w \in rrStored : RrOwnerOf[w.route] \in RrAllowed \cup rrPasses
  /\ rrPoints \in [RrOwners -> Nat]
  /\ \A o \in RrOwners : rrPoints[o] > 0 => \E w \in rrStored : RrOwnerOf[w.route] = o

LEMMA RrInit_Relay == RrInit => RelayInv
BY DEF RrInit, RelayInv

LEMMA RelayStores ==
  ASSUME RelayInv, NEW w, Attested(w), HasPass(RrOwnerOf[w.route]),
         Store(w) \/ UNCHANGED rrStored, UNCHANGED rrPasses, rrWaiting' \subseteq rrWaiting,
         UNCHANGED rrPoints \/ (Store(w) /\ Reward(RrOwnerOf[w.route]))
  PROVE  RelayInv'
<1> DEFINE o == RrOwnerOf[w.route]
<1>1. o \in RrOwners
  BY DEF Attested, RrOwners
<1>2. \A x \in rrStored' : x \in rrStored \/ (x = w /\ Store(w))
  BY DEF Store
<1>3. \A x \in rrStored : \E y \in rrStored' : y.route = x.route
  BY DEF Store
<1>4. Store(w) => \E y \in rrStored' : RrOwnerOf[y.route] = o
  BY DEF Store
<1> HIDE DEF o
<1>5. Attested(w)'
  BY DEF Attested, ValidWitnesses, ValidAttestation
<1>6. \A x \in rrWaiting' \cup rrStored' : Attested(x)
  BY <1>2 DEF RelayInv
<1>7. \A x \in rrStored' : RrOwnerOf[x.route] \in RrAllowed \cup rrPasses'
  BY <1>2 DEF RelayInv, HasPass
<1>8. CASE UNCHANGED rrPoints
  <2>1. \A p \in RrOwners : rrPoints[p] > 0 => \E x \in rrStored' : RrOwnerOf[x.route] = p
    BY <1>3 DEF RelayInv
  <2> QED  BY <1>6, <1>7, <1>8, <2>1 DEF RelayInv, Attested, ValidWitnesses, ValidAttestation
<1>9. CASE Store(w) /\ rrPoints' = [rrPoints EXCEPT ![o] = @ + 1]
  <2>1. rrPoints' \in [RrOwners -> Nat]
    BY <1>1, <1>9 DEF RelayInv
  <2>2. \A p \in RrOwners : p # o => rrPoints'[p] = rrPoints[p]
    BY <1>9 DEF RelayInv
  <2>3. \A p \in RrOwners : rrPoints'[p] > 0 => \E x \in rrStored' : RrOwnerOf[x.route] = p
    BY <1>3, <1>4, <1>9, <2>2 DEF RelayInv
  <2> QED  BY <1>6, <1>7, <2>1, <2>3 DEF RelayInv, Attested, ValidWitnesses, ValidAttestation
<1> QED  BY <1>8, <1>9 DEF Reward, o

LEMMA RelaySubmits ==
  ASSUME RelayInv, NEW r \in RrRoutes, NEW a, SubmitRoute(r, a)
  PROVE  RelayInv' /\ Attested([route |-> r, with |-> a])
<1>1. PICK w : w = [route |-> r, with |-> a]
  OBVIOUS
<1>2. Attested(w)
  BY <1>1 DEF Attested, SubmitRoute
<1>3. rrWaiting' = rrWaiting \cup {w} /\ UNCHANGED <<rrPasses, rrStored, rrPoints>>
  BY <1>1 DEF SubmitRoute
<1>4. \A x \in rrWaiting' \cup rrStored' : Attested(x)
  BY <1>2, <1>3 DEF RelayInv
<1> QED
  BY <1>1, <1>2, <1>3, <1>4 DEF RelayInv, Attested, ValidWitnesses, ValidAttestation

LEMMA RelayStays ==
  ASSUME RelayInv, UNCHANGED <<rrStored, rrPoints>>, rrWaiting' \subseteq rrWaiting,
         rrPasses \subseteq rrPasses'
  PROVE  RelayInv'
BY DEF RelayInv, Attested, ValidWitnesses, ValidAttestation

LEMMA CrashRelay == ASSUME RelayInv, RrCrash PROVE RelayInv'
<1>1. CASE UNCHANGED rrStored
  BY <1>1, RelayStays DEF RrCrash
<1>2. CASE \E w \in rrWaiting : HasPass(RrOwnerOf[w.route]) /\ Store(w)
  <2>1. PICK w \in rrWaiting : HasPass(RrOwnerOf[w.route]) /\ Store(w)
    BY <1>2
  <2>2. Attested(w) /\ rrWaiting' \subseteq rrWaiting /\ UNCHANGED <<rrPasses, rrPoints>>
    BY <2>1 DEF RelayInv, RrCrash
  <2> QED  BY <2>1, <2>2, RelayStores
<1> QED  BY <1>1, <1>2 DEF RrCrash

\* The booth's answer to a submission it waits for, or a job holds.
LEMMA AnswerRelay ==
  ASSUME RelayInv, NEW w, Attested(w), StoredOf(w) \/ RefusedOf(w) \/ FailedOf(w)
  PROVE  RelayInv'
<1>1. CASE StoredOf(w)
  BY <1>1, RelayStores DEF StoredOf
<1>2. CASE RefusedOf(w)
  BY <1>2, RelayStays DEF RefusedOf
<1>3. CASE FailedOf(w)
  BY <1>3, RelayStores DEF FailedOf
<1> QED  BY <1>1, <1>2, <1>3

LEMMA RrNext_Relay == RelayInv /\ [RrNext]_rrVars => RelayInv'
<1> SUFFICES ASSUME RelayInv, [RrNext]_rrVars PROVE RelayInv'
  OBVIOUS
<1>1. CASE UNCHANGED rrVars
  BY <1>1, RelayStays DEF rrVars
<1>2. CASE Submit
  BY <1>2, RelaySubmits DEF Submit
<1>3. CASE RrCrash
  BY <1>3, CrashRelay
<1>4. CASE \E w \in rrWaiting : StoredOf(w) \/ RefusedOf(w) \/ FailedOf(w)
  BY <1>4, AnswerRelay DEF RelayInv
<1>5. CASE \E o \in RrOwners : PassIssuedTo(o)
  BY <1>5, RelayStays DEF PassIssuedTo
<1> QED  BY <1>1, <1>2, <1>3, <1>4, <1>5 DEF RrNext

LEMMA RelayWitnessed == RelayInv => StoredRoutesWitnessed
<1> SUFFICES ASSUME RelayInv PROVE StoredRoutesWitnessed
  OBVIOUS
<1>1. ASSUME NEW w \in rrStored
      PROVE  \E W \in SUBSET RrTrusted :
               /\ Cardinality(W) = RrQuorum
               /\ \A x \in W : \E i \in DOMAIN w.with :
                    w.with[i].witness = x /\ w.with[i].route = w.route /\ w.with[i].genuine
  <2> DEFINE V == ValidWitnesses(w.route, w.with)
  <2>1. Cardinality(V) >= RrQuorum
    BY DEF RelayInv, Attested
  <2>2. /\ V \subseteq RrTrusted
        /\ \A x \in V : \E i \in DOMAIN w.with :
             w.with[i].witness = x /\ w.with[i].route = w.route /\ w.with[i].genuine
    BY DEF ValidWitnesses, ValidAttestation
  <2> HIDE DEF V
  <2>3. IsFiniteSet(V) /\ Cardinality(V) \in Nat
    BY <2>2, RpAssumption, FS_Subset, FS_CardinalityType
  <2>4. PICK W \in SUBSET V : Cardinality(W) = RrQuorum
    BY <2>1, <2>3, RpAssumption, SubsetOfSize
  <2> QED  BY <2>2, <2>4
<1> QED  BY <1>1 DEF RelayInv, StoredRoutesWitnessed

-----------------------------------------------------------------------------
\* A stored route is written over by one of the same id only.
RoutesStay == \A x \in rrStored : \E y \in rrStored' : y.route = x.route

LEMMA AnswerKeepsRoutes ==
  ASSUME NEW w
  PROVE  /\ StoredOf(w) \/ RefusedOf(w) \/ FailedOf(w) => RoutesStay
         /\ StoredOf(w) => \E y \in rrStored' : y.route = w.route
BY DEF StoredOf, RefusedOf, FailedOf, Store, RoutesStay

LEMMA CrashKeepsRoutes == RrCrash => RoutesStay
BY DEF RrCrash, Store, RoutesStay

StoredFor(k, n, dest) ==
  \E w \in rrStored : RrOwnerOf[w.route] = k /\ RpFields[w.route] = <<n, dest>>

JobAttested(k, j) ==
  /\ j = [name |-> j.name, dest |-> j.dest, step |-> j.step, waiting |-> j.waiting]
  /\ Attested(j.waiting) /\ RrOwnerOf[j.waiting.route] = k
  /\ RpFields[j.waiting.route] = <<j.name, j.dest>>
  /\ j.step = "chain" => \E x \in rrStored : x.route = j.waiting.route

PublishedInv ==
  /\ RelayInv
  /\ rpRoutes \subseteq RrRoutes
  /\ \A k \in DOMAIN rpJobs : JobAttested(k, rpJobs[k])
  /\ \A at \in DOMAIN anRoutes : StoredFor(at[1], at[2], anRoutes[at].dest)

LEMMA StoredForStays ==
  ASSUME RoutesStay, NEW k, NEW n, NEW dest, StoredFor(k, n, dest)
  PROVE  StoredFor(k, n, dest)'
BY DEF RoutesStay, StoredFor

LEMMA JobAttestedStays ==
  ASSUME RoutesStay, NEW k, NEW j, JobAttested(k, j)
  PROVE  JobAttested(k, j)'
<1>1. Attested(j.waiting)'
  BY DEF JobAttested, Attested, ValidWitnesses, ValidAttestation
<1>2. (\E x \in rrStored : x.route = j.waiting.route)
      => (\E x \in rrStored' : x.route = j.waiting.route)
  BY DEF RoutesStay
<1> QED  BY <1>1, <1>2 DEF JobAttested

\* The first of the directory is one of those with the fields.
LEMMA FoundByFields ==
  ASSUME NEW k, NEW n, NEW dest, rpRoutes \subseteq RrRoutes, RoutesOf(k, n, dest) # {}
  PROVE  FindRouteIdByFields(k, n, dest) \in RoutesOf(k, n, dest)
<1>1. PICK S : S = RoutesOf(k, n, dest)
  OBVIOUS
<1>2. \A r \in S : RpOrder[r] \in Nat
  BY <1>1, RpAssumption DEF RoutesOf
<1>3. \E r \in S : \A s \in S : RpOrder[r] <= RpOrder[s]
  BY <1>1, <1>2, LeastMember
<1>4. FindRouteIdByFields(k, n, dest) = CHOOSE r \in S : \A s \in S : RpOrder[r] <= RpOrder[s]
  BY <1>1 DEF FindRouteIdByFields
<1> QED  BY <1>1, <1>3, <1>4

LEMMA PublishedStays ==
  ASSUME PublishedInv, RelayInv', RoutesStay, rpRoutes' \subseteq RrRoutes, UNCHANGED anRoutes,
         \A k \in DOMAIN rpJobs' : k \in DOMAIN rpJobs /\ rpJobs'[k] = rpJobs[k]
  PROVE  PublishedInv'
<1>1. \A k \in DOMAIN rpJobs : JobAttested(k, rpJobs[k])
  BY DEF PublishedInv
<1>2. PICK jobs : jobs = rpJobs
  OBVIOUS
<1>3. \A k \in DOMAIN jobs : JobAttested(k, jobs[k])'
  BY <1>1, <1>2, JobAttestedStays
<1>4. PICK new : new = rpJobs'
  OBVIOUS
<1>5. \A k \in DOMAIN new : JobAttested(k, new[k])'
  BY <1>2, <1>3, <1>4
<1>6. PICK routes : routes = anRoutes
  OBVIOUS
<1>7. \A at \in DOMAIN routes : StoredFor(at[1], at[2], routes[at].dest)'
  BY <1>6, StoredForStays DEF PublishedInv
<1> QED  BY <1>4, <1>5, <1>6, <1>7 DEF PublishedInv

LEMMA RpInit_Published == AnInit /\ RrInit /\ RpInit => PublishedInv
BY RrInit_Relay DEF AnInit, RpInit, PublishedInv, NoAccounts

LEMMA PublishedKeeps ==
  ASSUME PublishedInv, UNCHANGED <<anRoutes, rpVars, rrVars>>
  PROVE  PublishedInv'
<1>1. RelayInv'
  BY RelayStays DEF PublishedInv, rrVars
<1> QED  BY <1>1, PublishedStays DEF PublishedInv, RoutesStay, rpVars, rrVars

LEMMA RpNext_Published == PublishedInv /\ RpNext => PublishedInv'
<1> SUFFICES ASSUME PublishedInv, RpNext PROVE PublishedInv'
  OBVIOUS
<1>1. RelayInv /\ rpRoutes \subseteq RrRoutes /\ \A k \in DOMAIN rpJobs : JobAttested(k, rpJobs[k])
  BY DEF PublishedInv
<1>2. UNCHANGED rrVars => RelayInv' /\ RoutesStay
  BY <1>1, RelayStays DEF rrVars, RoutesStay
<1>3. ASSUME NEW k \in Keys, Initialize(k, 1), UNCHANGED <<rpVars, rrVars>> PROVE PublishedInv'
  BY <1>3, PublishedKeeps DEF Initialize
<1>4. ASSUME NEW r \in RrRoutes, RouteCreate(r) PROVE PublishedInv'
  BY <1>1, <1>2, <1>4, PublishedStays DEF RouteCreate, anVars
<1>5. ASSUME NEW r, NEW w, RouteSignWitness(r, w) PROVE PublishedInv'
  BY <1>1, <1>2, <1>5, PublishedStays DEF RouteSignWitness, anVars
<1>6. ASSUME NEW k, NEW n, NEW m, NEW answers, MintTollPass(k, n, m, answers)
      PROVE  PublishedInv'
  <2>1. RelayInv' /\ RoutesStay
    BY <1>1, <1>6, RelayStays DEF MintTollPass, PassIssuedTo, RoutesStay
  <2> QED  BY <1>1, <1>6, <2>1, PublishedStays DEF MintTollPass, IssueTollPass, rpVars
<1>7. ASSUME NEW k, NEW n, NEW dest, NEW mode, NEW answers,
             SetRouteStart(k, n, dest, mode, answers)
      PROVE  PublishedInv'
  <2>1. PICK r : r = FindRouteIdByFields(k, n, dest)
    OBVIOUS
  <2>2. r \in RrRoutes /\ RrOwnerOf[r] = k /\ RpFields[r] = <<n, dest>>
    BY <1>1, <1>7, <2>1, FoundByFields DEF SetRouteStart, RoutesOf
  <2>3. PICK a : a = rpSigned[r]
    OBVIOUS
  <2>4. PICK w : w = [route |-> r, with |-> a]
    OBVIOUS
  <2>5. SubmitRoute(r, a)
    BY <1>7, <2>1, <2>3 DEF SetRouteStart
  <2>6. RelayInv' /\ Attested(w)
    BY <1>1, <2>2, <2>4, <2>5, RelaySubmits
  <2>7. RoutesStay
    BY <2>5 DEF SubmitRoute, RoutesStay
  <2>8. PICK j : j = [name |-> n, dest |-> dest, step |-> "booth", waiting |-> w]
    OBVIOUS
  <2>9. JobAttested(k, j)
    BY <2>2, <2>4, <2>6, <2>8 DEF JobAttested
  <2>10. rpJobs' = Created(rpJobs, k, j) /\ UNCHANGED <<rpRoutes, anRoutes>>
    BY <1>7, <2>1, <2>3, <2>4, <2>8 DEF SetRouteStart, anVars
  <2>11. PICK jobs : jobs = Created(rpJobs, k, j)
    OBVIOUS
  <2>12. \A i \in DOMAIN jobs : JobAttested(i, jobs[i])
    BY <1>1, <2>9, <2>11 DEF Created
  <2>13. \A i \in DOMAIN jobs : JobAttested(i, jobs[i])'
    BY <2>7, <2>12, JobAttestedStays
  <2>14. PICK routes : routes = anRoutes
    OBVIOUS
  <2>15. \A at \in DOMAIN routes : StoredFor(at[1], at[2], routes[at].dest)'
    BY <2>7, <2>14, StoredForStays DEF PublishedInv
  <2> QED  BY <1>1, <2>6, <2>10, <2>11, <2>13, <2>14, <2>15 DEF PublishedInv
<1>8. ASSUME NEW k \in DOMAIN rpJobs, BoothStores(k) PROVE PublishedInv'
  <2>1. PICK w : w = rpJobs[k].waiting
    OBVIOUS
  <2>2. StoredOf(w) /\ JobAttested(k, rpJobs[k])
    BY <1>1, <1>8, <2>1 DEF BoothStores
  <2>3. RelayInv' /\ RoutesStay /\ \E y \in rrStored' : y.route = w.route
    BY <1>1, <2>1, <2>2, AnswerRelay, AnswerKeepsRoutes DEF JobAttested
  <2>4. PICK old : old = rpJobs[k]
    OBVIOUS
  <2>5. PICK j : j = [old EXCEPT !.step = "chain"]
    OBVIOUS
  <2>6. JobAttested(k, old)'
    BY <2>2, <2>3, <2>4, JobAttestedStays
  <2>7. /\ j = [name |-> old.name, dest |-> old.dest, step |-> "chain", waiting |-> old.waiting]
        /\ j.waiting = w /\ j.name = old.name /\ j.dest = old.dest
    BY <2>1, <2>4, <2>5, <2>6 DEF JobAttested
  <2>8. JobAttested(k, j)'
    BY <2>1, <2>3, <2>4, <2>6, <2>7 DEF JobAttested
  <2>9. UNCHANGED <<rpRoutes, anRoutes>> /\ rpJobs' = [rpJobs EXCEPT ![k] = j]
    BY <1>8, <2>4, <2>5 DEF BoothStores, anVars
  <2>10. PICK jobs : jobs = rpJobs
    OBVIOUS
  <2>11. PICK new : new = [jobs EXCEPT ![k] = j]
    OBVIOUS
  <2>12. \A i \in DOMAIN new : JobAttested(i, new[i])'
    <3>1. \A i \in DOMAIN jobs : JobAttested(i, jobs[i])'
      BY <1>1, <2>3, <2>10, JobAttestedStays
    <3>2. \A i \in DOMAIN new : (i = k /\ new[i] = j) \/ (i \in DOMAIN jobs /\ new[i] = jobs[i])
      BY <2>11
    <3> QED  BY <2>8, <3>1, <3>2
  <2>13. PICK routes : routes = anRoutes
    OBVIOUS
  <2>14. \A at \in DOMAIN routes : StoredFor(at[1], at[2], routes[at].dest)'
    BY <2>3, <2>13, StoredForStays DEF PublishedInv
  <2> QED  BY <1>1, <2>3, <2>9, <2>10, <2>11, <2>12, <2>13, <2>14 DEF PublishedInv
<1>9. ASSUME NEW k \in DOMAIN rpJobs, BoothRefuses(k) PROVE PublishedInv'
  <2>1. PICK w : w = rpJobs[k].waiting
    OBVIOUS
  <2>2. RefusedOf(w) \/ FailedOf(w)
    BY <1>9, <2>1 DEF BoothRefuses
  <2>3. RelayInv' /\ RoutesStay
    BY <1>1, <2>1, <2>2, AnswerRelay, AnswerKeepsRoutes DEF JobAttested
  <2>4. \A i \in DOMAIN rpJobs' : i \in DOMAIN rpJobs /\ rpJobs'[i] = rpJobs[i]
    BY <1>9 DEF BoothRefuses, RpEnds
  <2> QED  BY <1>1, <1>9, <2>3, <2>4, PublishedStays DEF BoothRefuses, anVars
<1>10. ASSUME BoothCrashes PROVE PublishedInv'
  <2>1. RelayInv' /\ RoutesStay
    BY <1>1, <1>10, CrashRelay, CrashKeepsRoutes DEF BoothCrashes
  <2>2. \A i \in DOMAIN rpJobs' : i \in DOMAIN rpJobs /\ rpJobs'[i] = rpJobs[i]
    BY <1>10 DEF BoothCrashes
  <2> QED  BY <1>1, <1>10, <2>1, <2>2, PublishedStays DEF BoothCrashes, anVars
<1>11. ASSUME NEW k \in DOMAIN rpJobs, RouteSent(k) PROVE PublishedInv'
  <2>1. RelayInv' /\ RoutesStay /\ UNCHANGED <<rpRoutes, rrStored>>
    BY <1>2, <1>11 DEF RouteSent, rrVars
  <2>2. /\ rpJobs[k].step = "chain"
        /\ \A i \in DOMAIN rpJobs' : i \in DOMAIN rpJobs /\ rpJobs'[i] = rpJobs[i]
    BY <1>11 DEF RouteSent, RpEnds
  <2>3. CASE UNCHANGED anVars
    BY <1>1, <2>1, <2>2, <2>3, PublishedStays DEF anVars
  <2>4. ASSUME NEW t \in AnTtls, SetRoute(k, rpJobs[k].name, rpJobs[k].dest, t)
        PROVE  PublishedInv'
    <3>1. PICK j : j = rpJobs[k]
      OBVIOUS
    <3>2. StoredFor(k, j.name, j.dest)
      <4>1. JobAttested(k, j) /\ j.step = "chain"
        BY <1>1, <2>2, <3>1
      <4>2. PICK x \in rrStored : x.route = j.waiting.route
        BY <4>1 DEF JobAttested
      <4> QED  BY <4>1, <4>2 DEF JobAttested, StoredFor
    <3>3. PICK at : at = <<k, j.name>>
      OBVIOUS
    <3>4. PICK rec : rec = RouteRecord(j.dest, t)
      OBVIOUS
    <3>5. anRoutes' = Created(anRoutes, at, rec)
      BY <2>4, <3>1, <3>3, <3>4 DEF SetRoute
    <3>6. PICK routes : routes = Created(anRoutes, at, rec)
      OBVIOUS
    <3>7. at[1] = k /\ at[2] = j.name /\ rec.dest = j.dest
      BY <3>3, <3>4 DEF RouteRecord
    <3>8. \A x \in DOMAIN routes :
            (x = at /\ routes[x] = rec) \/ (x \in DOMAIN anRoutes /\ routes[x] = anRoutes[x])
      BY <3>6 DEF Created
    <3>9. \A x \in DOMAIN routes : StoredFor(x[1], x[2], routes[x].dest)
      BY <3>2, <3>7, <3>8 DEF PublishedInv
    <3>10. \A x \in DOMAIN routes : StoredFor(x[1], x[2], routes[x].dest)'
      BY <2>1, <3>9, StoredForStays
    <3>11. PICK jobs : jobs = rpJobs
      OBVIOUS
    <3>12. PICK new : new = rpJobs'
      OBVIOUS
    <3>13. \A i \in DOMAIN jobs : JobAttested(i, jobs[i])'
      BY <1>1, <2>1, <3>11, JobAttestedStays
    <3>14. \A i \in DOMAIN new : JobAttested(i, new[i])'
      BY <2>2, <3>11, <3>12, <3>13
    <3> QED  BY <1>1, <2>1, <3>5, <3>6, <3>10, <3>12, <3>14 DEF PublishedInv
  <2> QED  BY <1>11, <2>3, <2>4 DEF RouteSent
<1> QED
  BY <1>3, <1>4, <1>5, <1>6, <1>7, <1>8, <1>9, <1>10, <1>11 DEF RpNext

-----------------------------------------------------------------------------
LEMMA RouteSteps ==
  ASSUME [Next]_Vars
  PROVE  /\ service' = service
         /\ service = "routes" => RpNext \/ UNCHANGED <<anRoutes, rpVars, rrVars>>
         /\ service # "routes" => [RrNext]_rrVars
<1>1. CASE UNCHANGED Vars
  BY <1>1 DEF Vars, anchorVars, anVars
<1>2. CASE Next
  <2>1. service' = service
    BY <1>2 DEF Next, Alone
  <2>2. service = "routes" => RpNext
    BY <1>2 DEF Next
  <2>3. service # "routes" => [RrNext]_rrVars
    BY <1>2 DEF Next, Alone
  <2> QED  BY <2>1, <2>2, <2>3
<1> QED  BY <1>1, <1>2

\* A route in the store of the relay has a quorum of different trusted
\* witnesses behind it, and points are those of owners of stored routes
\* (/v1/route/submit); and a route that set_route.ts brought on the chain is one
\* the store has, for its owner, name and destination: whatever was signed or
\* written in between, and whenever the booth died.
THEOREM RoutesAreWitnessed == Spec => []RoutesWitnessed
<1> DEFINE Inv == RelayInv /\ (service = "routes" => PublishedInv)
<1>1. Init => Inv
  BY RpInit_Published, RrInit_Relay DEF Init
<1>2. Inv /\ [Next]_Vars => Inv'
  <2> SUFFICES ASSUME Inv, [Next]_Vars PROVE Inv'
    OBVIOUS
  <2>1. CASE service = "routes"
    <3>1. PublishedInv'
      BY <2>1, RouteSteps, RpNext_Published, PublishedKeeps
    <3> QED  BY <3>1 DEF PublishedInv
  <2>2. CASE service # "routes"
    BY <2>2, RouteSteps, RrNext_Relay
  <2> QED  BY <2>1, <2>2
<1>3. Inv => RoutesWitnessed
  <2>1. PublishedInv => PublishedRoutesWitnessed
    BY DEF PublishedInv, RelayInv, Attested, StoredFor, PublishedRoutesWitnessed
  <2> QED  BY <2>1, RelayWitnessed DEF RoutesWitnessed
<1> QED  BY <1>1, <1>2, <1>3, PTL DEF Spec

-----------------------------------------------------------------------------
(***************************************************************************)
(* The miner witness: for any wallets, batches and window.                 *)
(***************************************************************************)

FloodOf(window) ==
  window.total >= AmMinSample /\ window.invalid * 100 > 5 * window.total

\* No more receipts are invalid than there are.
WindowOK(window) ==
  window.total \in Nat /\ window.invalid \in Nat /\ window.invalid <= window.total

\* Nothing isolates this service, which has no other source to disagree with.
MinerInv ==
  /\ WindowOK(mwWindow) /\ mwMode \in AttackModes \ {"ISOLATED"}
  /\ mwEnabled /\ FloodOf(mwWindow) => mwMode = "UNDER_ATTACK"

LEMMA ModeUpdated ==
  ASSUME NEW from, from.mode \in AttackModes \ {"ISOLATED"}, NEW window, WindowOK(window)
  PROVE  LET next == UpdateMode(from, window)
         IN  /\ next.mode \in AttackModes \ {"ISOLATED"}
             /\ mwEnabled /\ FloodOf(window) => next.mode = "UNDER_ATTACK"
<1>1. CASE ~mwEnabled
  BY <1>1 DEF UpdateMode, AttackModes
<1>2. CASE mwEnabled
  <2>1. PICK share : share = Share(window.invalid, window.total)
    OBVIOUS
  <2>2. PICK signals : signals = [QuietSignals EXCEPT !.invalid = share, !.sample = window.total]
    OBVIOUS
  <2>3. /\ signals.rpcFail = Share(0, 0) /\ signals.flips = 0 /\ signals.ipfsFail = Share(0, 0)
        /\ signals.gatewayErr = Share(0, 0) /\ signals.disagreement = FALSE
        /\ signals.invalid = share /\ signals.sample = window.total
    BY <2>2 DEF QuietSignals
  <2>4. PICK score : score = AttackScore(signals)
    OBVIOUS
  <2>5. score = IF window.total >= AmMinSample /\ AbovePct(share, 5) THEN 70 ELSE 0
    <3>1. ~AbovePct(Share(0, 0), 30) /\ ~AbovePct(Share(0, 0), 50) /\ ~AbovePct(Share(0, 0), 20)
      BY DEF AbovePct, Share
    <3> QED  BY <2>3, <2>4, <3>1 DEF AttackScore
  <2>6. FloodOf(window) => score = 70
    <3> SUFFICES ASSUME FloodOf(window) PROVE score = 70
      OBVIOUS
    <3>1. window.total > 0
      BY DEF FloodOf, WindowOK
    <3>2. AbovePct(share, 5)
      BY <2>1, <3>1 DEF FloodOf, AbovePct, Share
    <3> QED  BY <2>5, <3>2 DEF FloodOf
  <2>7. PICK next : next = UpdateMode(from, window)
    OBVIOUS
  <2>8. next.mode = NextMode(from.mode, score, mwNow, from.memory)
    BY <1>2, <2>1, <2>2, <2>3, <2>4, <2>7 DEF UpdateMode, EvaluateAttackMode
  <2>9. score \in {0, 70}
    BY <2>5
  <2>10. ModeOfScore(70) = "UNDER_ATTACK" /\ ModeOfScore(0) = "NORMAL"
    BY DEF ModeOfScore
  <2>11. score = 70 => next.mode = "UNDER_ATTACK"
    BY <2>8, <2>10 DEF NextMode, Severe, AttackModes
  <2>12. score = 0 => next.mode \in AttackModes \ {"ISOLATED"}
    BY <2>8, <2>10 DEF NextMode, Severe, AttackModes
  <2> QED  BY <2>6, <2>7, <2>9, <2>11, <2>12 DEF AttackModes
<1>3. mwEnabled \/ ~mwEnabled
  OBVIOUS
<1> QED  BY <1>1, <1>2, <1>3

LEMMA MwNext_Miner == MinerInv /\ [MwNext]_mwVars => MinerInv'
<1> SUFFICES ASSUME MinerInv, [MwNext]_mwVars PROVE MinerInv'
  OBVIOUS
<1>1. CASE UNCHANGED mwVars
  BY <1>1 DEF mwVars, MinerInv, WindowOK, FloodOf
<1>2. WindowOK(FreshWindow) /\ Here.mode \in AttackModes \ {"ISOLATED"}
  BY DEF MinerInv, WindowOK, FreshWindow, Here
<1>3. ASSUME NEW from, from.mode \in AttackModes \ {"ISOLATED"}, NEW window, WindowOK(window),
             NEW severe, Adopt(UpdateMode(from, window), severe),
             mwWindow' = window, UNCHANGED mwEnabled
      PROVE  MinerInv'
  <2>1. PICK next : next = UpdateMode(from, window)
    OBVIOUS
  <2>2. mwMode' = next.mode
    BY <1>3, <2>1 DEF Adopt
  <2> QED  BY <1>3, <2>1, <2>2, ModeUpdated DEF MinerInv, WindowOK, FloodOf
<1>4. CASE Health
  BY <1>2, <1>3, <1>4 DEF Health
<1>5. CASE SubmitReceipts
  <2>1. PICK batch \in MwBatches :
          LET before == UpdateMode(Here, FreshWindow)
              invalid == Cardinality({i \in 1 .. Len(batch) : ~batch[i].valid})
              window == [FreshWindow EXCEPT !.total = @ + Len(batch), !.invalid = @ + invalid]
          IN  /\ mwWindow' = window /\ UNCHANGED mwEnabled
              /\ Adopt(UpdateMode(before, window), before.mode \in Severe)
    BY <1>5 DEF SubmitReceipts
  <2>2. PICK fresh : fresh = FreshWindow
    OBVIOUS
  <2>3. PICK before : before = UpdateMode(Here, fresh)
    OBVIOUS
  <2>4. PICK bad : bad = {i \in 1 .. Len(batch) : ~batch[i].valid}
    OBVIOUS
  <2>5. PICK window : window = [fresh EXCEPT !.total = fresh.total + Len(batch),
                                             !.invalid = fresh.invalid + Cardinality(bad)]
    OBVIOUS
  <2>6. Len(batch) \in Nat /\ Cardinality(bad) \in Nat /\ Cardinality(bad) <= Len(batch)
    <3>1. Len(batch) \in Nat
      BY MwAssumption
    <3>2. IsFiniteSet(bad) /\ Cardinality(bad) <= Len(batch)
      <4>1. PICK n \in Nat : n = Len(batch)
        BY <3>1
      <4>2. IsFiniteSet(1 .. n) /\ Cardinality(1 .. n) = n
        BY FS_Interval
      <4>3. bad \subseteq 1 .. n
        BY <2>4, <4>1
      <4> QED  BY <4>1, <4>2, <4>3, FS_Subset
    <3> QED  BY <3>1, <3>2, FS_CardinalityType
  <2>7. before.mode \in AttackModes \ {"ISOLATED"}
    BY <1>2, <2>2, <2>3, ModeUpdated
  <2>8. WindowOK(window)
    BY <1>2, <2>2, <2>5, <2>6 DEF WindowOK
  <2>9. /\ mwWindow' = window /\ UNCHANGED mwEnabled
        /\ Adopt(UpdateMode(before, window), before.mode \in Severe)
    BY <2>1, <2>2, <2>3, <2>4, <2>5
  <2> QED  BY <1>3, <2>7, <2>8, <2>9
<1>6. CASE MwTick
  BY <1>6 DEF MwTick, MinerInv, WindowOK, FloodOf
<1> QED  BY <1>1, <1>4, <1>5, <1>6 DEF MwNext

LEMMA MinerSteps == ASSUME [Next]_Vars PROVE [MwNext]_mwVars
<1>1. CASE UNCHANGED Vars
  BY <1>1 DEF Vars
<1>2. CASE Next
  BY <1>2 DEF Next, Alone
<1> QED  BY <1>1, <1>2

\* A window with enough receipts of which more than five in a hundred are invalid
\* finds the miner witness under attack, whatever the mode was and however the
\* batches come (/v1/submit-receipts computes the mode again after the batch).
THEOREM FloodsFlipTheMode == Spec => []FloodFlipsMode
<1>1. Init => MinerInv
  BY MwAssumption DEF Init, MwInit, MinerInv, WindowOK, FloodOf, AttackModes
<1>2. MinerInv /\ [Next]_Vars => MinerInv'
  BY MinerSteps, MwNext_Miner
<1>3. MinerInv => FloodFlipsMode
  BY DEF MinerInv, FloodOf, FloodFlipsMode
<1> QED  BY <1>1, <1>2, <1>3, PTL DEF Spec

-----------------------------------------------------------------------------
(***************************************************************************)
(* Answers of the gateways.                                                *)
(***************************************************************************)

LEMMA MinOfNaturals == ASSUME NEW S \in SUBSET Nat, S # {} PROVE Min(S) \in S
<1>1. PICK id : id = [x \in S |-> x]
  OBVIOUS
<1>2. \A x \in S : id[x] = x /\ id[x] \in Nat
  BY <1>1
<1>3. PICK x \in S : \A y \in S : id[x] <= id[y]
  BY <1>2, LeastMember
<1>4. \A y \in S : x =< y
  <2>1. TAKE y \in S
  <2>2. id[x] = x /\ id[y] = y /\ id[x] <= id[y]
    BY <1>2, <1>3
  <2> QED  BY <2>2
<1> QED  BY <1>4 DEF Min

LEMMA PreferredTextIsOne ==
  ASSUME NEW texts, SelectPreferredText(texts) # {}
  PROVE  \A d \in SelectPreferredText(texts) : d \in {texts[k] : k \in DOMAIN texts}
<1>1. PICK hits : hits = {i \in DOMAIN TextOrder : TextOrder[i] \in DOMAIN texts}
  OBVIOUS
<1>2. hits # {} /\ SelectPreferredText(texts) = {texts[TextOrder[Min(hits)]]}
  BY <1>1 DEF SelectPreferredText
<1>3. hits \in SUBSET Nat
  BY <1>1 DEF TextOrder
<1>4. PICK m : m = Min(hits)
  OBVIOUS
<1>5. m \in hits
  BY <1>2, <1>3, <1>4, MinOfNaturals
<1>6. TextOrder[m] \in DOMAIN texts
  BY <1>1, <1>5
<1> QED  BY <1>2, <1>4, <1>6

\* What leads to content is a record of the name.
FromRecords(dest) ==
  \A d \in dest :
    \/ \E f \in NaEns : f.resolver /\ d \in f.content \cup {f.texts[k] : k \in DOMAIN f.texts}
    \/ \E f \in NaSns : f.parses /\ d \in {f.texts[k] : k \in DOMAIN f.texts}

LEMMA ContentIsOfRecords ==
  ASSUME NEW suffix \in {".eth", ".sol"}, NEW dest \in NaFound(suffix),
         UNION {ParseHostingTarget(d) : d \in dest} # {}
  PROVE  FromRecords(dest)
<1>1. \E d \in dest : d.kind \in {"ipfs", "ar"}
  BY DEF ParseHostingTarget
<1>2. CASE suffix = ".eth"
  <2>1. NaFound(suffix) = {IF EnsHasRecords(f) THEN EnsDest(f) ELSE {} : f \in NaEns}
    BY <1>2 DEF NaFound, AdapterOf
  <2>2. PICK f \in NaEns : dest = IF EnsHasRecords(f) THEN EnsDest(f) ELSE {}
    BY <2>1
  <2>3. EnsHasRecords(f) /\ dest = EnsDest(f) /\ f.resolver
    BY <1>1, <2>2 DEF EnsHasRecords
  <2>4. PICK content : content = UNION {ParseHostingTarget(c) : c \in f.content}
    OBVIOUS
  <2>5. PICK text : text = SelectPreferredText(f.texts)
    OBVIOUS
  <2>6. content \subseteq f.content
    BY <2>4 DEF ParseHostingTarget
  <2>7. dest = IF content # {} THEN content ELSE IF text # {} THEN text
               ELSE IF f.addr = {} THEN {EnsRecords} ELSE f.addr
    BY <2>3, <2>4, <2>5 DEF EnsDest
  <2>8. ~(content = {} /\ text = {})
    BY <1>1, <2>7, NaAssumption DEF EnsRecords
  <2>9. CASE content # {}
    BY <2>3, <2>6, <2>7, <2>9 DEF FromRecords
  <2>10. CASE content = {} /\ text # {}
    BY <2>3, <2>5, <2>7, <2>10, PreferredTextIsOne DEF FromRecords
  <2> QED  BY <2>8, <2>9, <2>10
<1>3. CASE suffix = ".sol"
  <2>1. NaFound(suffix) = {SnsDest(f) : f \in NaSns}
    BY <1>3 DEF NaFound, AdapterOf
  <2>2. PICK f \in NaSns : dest = SnsDest(f)
    BY <2>1
  <2>3. PICK text : text = SelectPreferredText(f.texts)
    OBVIOUS
  <2>4. dest = IF f.parses /\ text # {} THEN text ELSE IF f.parses THEN f.owner ELSE f.program
    BY <2>2, <2>3 DEF SnsDest
  <2>5. f.parses /\ text # {}
    BY <1>1, <2>4, NaAssumption
  <2> QED  BY <2>2, <2>3, <2>4, <2>5, PreferredTextIsOne DEF FromRecords
<1> QED  BY <1>2, <1>3

LEMMA NaNext_Sites == SitesFromRecords /\ [NaNext]_naAnswer => SitesFromRecords'
<1> SUFFICES ASSUME SitesFromRecords, [NaNext]_naAnswer PROVE SitesFromRecords'
  OBVIOUS
<1>1. CASE UNCHANGED naAnswer
  BY <1>1 DEF SitesFromRecords
<1>2. CASE RouteAnswered \/ RouteAskedFor
  <2>1. PICK suffix, dest, up : naAnswer' = RouteOf(suffix, dest, up)
    BY <1>2 DEF RouteAnswered, RouteAskedFor
  <2>2. naAnswer'.kind # "site"
    BY <2>1 DEF RouteOf, NoNaAnswer, AdapterOf
  <2> QED  BY <2>2 DEF SitesFromRecords
<1>3. CASE SiteServed
  <2>1. PICK suffix \in {".eth", ".sol"} : \E dest \in NaFound(suffix) :
          /\ naAnswer'.dest = dest
          /\ UNION {ParseHostingTarget(d) : d \in dest} = {} => naAnswer'.status # 200
    BY <1>3 DEF SiteServed, NoNaAnswer
  <2>2. PICK dest \in NaFound(suffix) :
          /\ naAnswer'.dest = dest
          /\ UNION {ParseHostingTarget(d) : d \in dest} = {} => naAnswer'.status # 200
    BY <2>1
  <2>3. naAnswer'.status = 200 => FromRecords(dest)
    BY <2>2, ContentIsOfRecords
  <2>4. PICK found : found = naAnswer'
    OBVIOUS
  <2> QED  BY <2>2, <2>3, <2>4 DEF SitesFromRecords, FromRecords
<1> QED  BY <1>1, <1>2, <1>3 DEF NaNext

-----------------------------------------------------------------------------
(* The gateway's resolution: for any requests, configuration and chain. *)

\* What a request carries over its waits: a time to live that was clamped, and
\* a route the chain held at the slot it was read at.
RequestOK(q, chain) ==
  /\ q.at = "nodes" => q.ttl \in Nat /\ q.ttl <= LongestLife(q.records)
  /\ q.at = "witness" => /\ q.canonical.slot \in DOMAIN chain
                         /\ q.canonical.dest = chain[q.canonical.slot]

LifeOK(kept, now) ==
  kept.expires \in Nat /\ kept.expires <= now + LongestLife(kept.records)

ResolveInv ==
  /\ grNow \in Nat /\ grChain \in Seq(GrDests)
  /\ \A n \in DOMAIN grCache : LifeOK(grCache[n], grNow)
  /\ DOMAIN grInFlight = GrRequests
  /\ \A r \in GrRequests : RequestOK(grInFlight[r], grChain)
  /\ VerifiedAtSlot

LEMMA LifeIsANumber == \A records : LongestLife(records) \in Nat
  BY GrAssumption DEF LongestLife

LEMMA DohTtlBounded ==
  ASSUME NEW records, NEW ttl \in GrTtls
  PROVE  /\ Clamped(DohTtl(records, ttl)) \in Nat
         /\ Clamped(DohTtl(records, ttl)) <= LongestLife(records)
<1>1. ttl \in Nat /\ GrTtlMax \in Nat
  BY GrAssumption
<1>2. PICK t : t = DohTtl(records, ttl)
  OBVIOUS
<1>3. t \in Nat /\ t <= LongestLife(records)
  BY <1>1, <1>2 DEF DohTtl, LongestLife
<1>4. PICK clamp : clamp = PolicyForMode(CurrentAttack.mode).ttlClamp
  OBVIOUS
<1>5. clamp \in Nat
  BY <1>4 DEF PolicyForMode
<1>6. Clamped(t) = IF clamp > 0 /\ clamp < t THEN clamp ELSE t
  BY <1>4 DEF Clamped
<1> QED  BY <1>1, <1>2, <1>3, <1>5, <1>6, LifeIsANumber

\* A step that reads the chain and moves neither it nor the time.
LEMMA ResolveKeeps ==
  ASSUME ResolveInv, UNCHANGED <<grNow, grChain>>,
         \A n \in DOMAIN grCache' : LifeOK(grCache'[n], grNow),
         DOMAIN grInFlight' = GrRequests,
         \A r \in GrRequests : RequestOK(grInFlight'[r], grChain),
         grAnswer'.kind = "dns" => /\ grAnswer'.slot \in DOMAIN grChain
                                   /\ grAnswer'.verified <=> grAnswer'.dest = {grChain[grAnswer'.slot]}
  PROVE  ResolveInv'
<1>1. VerifiedAtSlot'
  BY DEF VerifiedAtSlot
<1>2. \A n \in DOMAIN grCache' : LifeOK(grCache'[n], grNow')
  OBVIOUS
<1>3. \A r \in GrRequests : RequestOK(grInFlight[r], grChain)'
  BY DEF RequestOK
<1> QED  BY <1>1, <1>2, <1>3 DEF ResolveInv, LifeOK

LEMMA IdleOK == RequestOK(Idle, grChain)
  BY DEF RequestOK, Idle

\* cacheSet with a request that was clamped.
LEMMA AnsweredKeeps ==
  ASSUME ResolveInv, NEW r \in GrRequests, NEW q, RequestOK(q, grChain), q.at = "nodes",
         Answered(r, q), UNCHANGED <<grNow, grChain>>
  PROVE  ResolveInv'
<1>1. PICK kept : kept = [records |-> q.records, expires |-> grNow + q.ttl]
  OBVIOUS
<1>2. LifeOK(kept, grNow)
  <2>1. q.ttl \in Nat /\ q.ttl <= LongestLife(q.records) /\ grNow \in Nat
    BY DEF RequestOK, ResolveInv
  <2>2. /\ LongestLife(q.records) \in Nat
        /\ kept.expires = grNow + q.ttl /\ kept.records = q.records
    BY <1>1, LifeIsANumber
  <2> QED  BY <2>1, <2>2 DEF LifeOK
<1>3. grCache' = [n \in DOMAIN grCache \union {q.name} |->
                   IF n # q.name THEN grCache[n] ELSE kept]
  BY <1>1 DEF Answered
<1>4. \A n \in DOMAIN grCache' : LifeOK(grCache'[n], grNow)
  BY <1>2, <1>3 DEF ResolveInv
<1>5. DOMAIN grInFlight' = GrRequests /\ \A i \in GrRequests : RequestOK(grInFlight'[i], grChain)
  BY IdleOK DEF ResolveInv, Answered
<1>6. grAnswer'.kind # "dns"
  BY DEF Answered
<1> QED  BY <1>4, <1>5, <1>6, ResolveKeeps

LEMMA GrNext_Resolve == ResolveInv /\ [GrNext]_grVars => ResolveInv'
<1> SUFFICES ASSUME ResolveInv, [GrNext]_grVars PROVE ResolveInv'
  OBVIOUS
<1>1. CASE UNCHANGED <<grNow, grChain, grCache, grInFlight, grAnswer>>
  BY <1>1, ResolveKeeps DEF ResolveInv, VerifiedAtSlot
<1>2. CASE ChainMoves
  <2>1. PICK dest \in GrDests : grChain' = Append(grChain, dest)
    BY <1>2 DEF ChainMoves
  <2>2. PICK chain : chain = grChain'
    OBVIOUS
  <2>3. /\ chain \in Seq(GrDests)
        /\ \A i \in DOMAIN grChain : i \in DOMAIN chain /\ chain[i] = grChain[i]
    BY <2>1, <2>2 DEF ResolveInv
  <2>4. \A q : RequestOK(q, grChain) => RequestOK(q, chain)
    BY <2>3 DEF RequestOK
  <2>5. UNCHANGED <<grNow, grCache, grInFlight, grAnswer>>
    BY <1>2 DEF ChainMoves
  <2>6. VerifiedAtSlot'
    BY <2>2, <2>3, <2>5 DEF VerifiedAtSlot, ResolveInv
  <2>7. \A r \in GrRequests : RequestOK(grInFlight[r], grChain)'
    BY <2>2, <2>4, <2>5 DEF ResolveInv, RequestOK
  <2>8. \A n \in DOMAIN grCache' : LifeOK(grCache'[n], grNow')
    BY <2>5 DEF ResolveInv, LifeOK
  <2> QED  BY <2>2, <2>3, <2>5, <2>6, <2>7, <2>8 DEF ResolveInv
<1>3. CASE DnsQuery
  <2>1. UNCHANGED <<grNow, grChain, grCache, grInFlight>> /\ grAnswer'.kind = "wire"
    BY <1>3 DEF DnsQuery
  <2> QED  BY <2>1, ResolveKeeps DEF ResolveInv
<1>4. CASE GrTick
  <2>1. PICK d \in GrJumps : grNow' = grNow + d
    BY <1>4 DEF GrTick
  <2>2. PICK now : now = grNow'
    OBVIOUS
  <2>3. now \in Nat /\ grNow <= now /\ grNow \in Nat
    BY <2>1, <2>2, GrAssumption DEF ResolveInv
  <2>4. \A kept : LifeOK(kept, grNow) => LifeOK(kept, now)
    BY <2>3, LifeIsANumber DEF LifeOK
  <2>5. UNCHANGED <<grChain, grCache, grInFlight, grAnswer>>
    BY <1>4 DEF GrTick
  <2>6. \A n \in DOMAIN grCache' : LifeOK(grCache'[n], grNow')
    BY <2>2, <2>4, <2>5 DEF ResolveInv, LifeOK
  <2>7. VerifiedAtSlot' /\ \A r \in GrRequests : RequestOK(grInFlight[r], grChain)'
    BY <2>5 DEF ResolveInv, VerifiedAtSlot, RequestOK
  <2> QED  BY <2>2, <2>3, <2>5, <2>6, <2>7 DEF ResolveInv
<1>5. ASSUME NEW r \in GrRequests, DohFails(r) PROVE ResolveInv'
  <2>1. DOMAIN grInFlight' = GrRequests /\ \A i \in GrRequests : RequestOK(grInFlight'[i], grChain)
    BY <1>5, IdleOK DEF DohFails, ResolveInv
  <2> QED  BY <1>5, <2>1, ResolveKeeps DEF DohFails, ResolveInv, VerifiedAtSlot
<1>6. ASSUME NEW r \in GrRequests, NodesAnswer(r) PROVE ResolveInv'
  <2>1. CASE Answered(r, grInFlight[r])
    BY <1>6, <2>1, AnsweredKeeps DEF NodesAnswer, ResolveInv
  <2>2. CASE grInFlight' = [grInFlight EXCEPT ![r] = Idle] /\ UNCHANGED <<grCache, grAnswer>>
    <3>1. DOMAIN grInFlight' = GrRequests
          /\ \A i \in GrRequests : RequestOK(grInFlight'[i], grChain)
      BY <2>2, IdleOK DEF ResolveInv
    <3> QED  BY <1>6, <2>2, <3>1, ResolveKeeps DEF NodesAnswer, ResolveInv, VerifiedAtSlot
  <2> QED  BY <1>6, <2>1, <2>2 DEF NodesAnswer
<1>7. ASSUME NEW r \in GrRequests, DnsRequested(r) PROVE ResolveInv'
  <2>1. PICK route : route = GetCanonicalDestHash
    OBVIOUS
  <2>2. PICK q : q = [at |-> "witness", canonical |-> route]
    OBVIOUS
  <2>3. RequestOK(q, grChain)
    <3>1. grChain # <<>> /\ grChain \in Seq(GrDests)
      BY <1>7 DEF DnsRequested, ResolveInv
    <3>2. Len(grChain) \in DOMAIN grChain
      BY <3>1
    <3> QED  BY <2>1, <2>2, <3>2 DEF RequestOK, GetCanonicalDestHash
  <2>4. grInFlight' = [grInFlight EXCEPT ![r] = q]
        /\ UNCHANGED <<grNow, grCache, grChain, grAnswer>>
    BY <1>7, <2>1, <2>2 DEF DnsRequested
  <2>5. DOMAIN grInFlight' = GrRequests /\ \A i \in GrRequests : RequestOK(grInFlight'[i], grChain)
    BY <2>3, <2>4 DEF ResolveInv
  <2> QED  BY <2>4, <2>5, ResolveKeeps DEF ResolveInv, VerifiedAtSlot
<1>8. ASSUME NEW r \in GrRequests, DnsAnswered(r) PROVE ResolveInv'
  <2>1. PICK route : route = grInFlight[r].canonical
    OBVIOUS
  <2>2. route.slot \in DOMAIN grChain /\ route.dest = grChain[route.slot]
    BY <1>8, <2>1 DEF DnsAnswered, ResolveInv, RequestOK
  <2>3. PICK candidate : grAnswer' = VerifyCandidateDest(route, candidate)
    BY <1>8, <2>1 DEF DnsAnswered
  <2>4. /\ grAnswer'.slot = route.slot /\ grAnswer'.verified = (candidate = {route.dest})
        /\ grAnswer'.dest = IF candidate = {route.dest} THEN candidate ELSE {}
    BY <2>3 DEF VerifyCandidateDest
  <2>5. DOMAIN grInFlight' = GrRequests /\ \A i \in GrRequests : RequestOK(grInFlight'[i], grChain)
    BY <1>8, IdleOK DEF DnsAnswered, ResolveInv
  <2> QED  BY <1>8, <2>2, <2>4, <2>5, ResolveKeeps DEF DnsAnswered, ResolveInv
<1>9. ASSUME NEW r \in GrRequests, NEW name \in GrNames, Resolve(r, name) PROVE ResolveInv'
  <2>1. PICK q : q = [at |-> "doh", name |-> name]
    OBVIOUS
  <2>2. RequestOK(q, grChain)
    BY <2>1 DEF RequestOK
  <2>3. /\ UNCHANGED <<grNow, grChain>>
        /\ \/ /\ grAnswer'.kind = "icann" /\ UNCHANGED <<grCache, grInFlight>>
           \/ /\ grInFlight' = [grInFlight EXCEPT ![r] = q] /\ UNCHANGED grAnswer
              /\ grCache' = CacheWithout(name)
    BY <1>9, <2>1 DEF Resolve
  <2>4. \A n \in DOMAIN grCache' : LifeOK(grCache'[n], grNow)
    BY <2>3 DEF ResolveInv, CacheWithout
  <2>5. DOMAIN grInFlight' = GrRequests /\ \A i \in GrRequests : RequestOK(grInFlight'[i], grChain)
    BY <2>2, <2>3 DEF ResolveInv
  <2> QED  BY <2>3, <2>4, <2>5, ResolveKeeps DEF ResolveInv, VerifiedAtSlot
<1>10. ASSUME NEW r \in GrRequests, NEW records \in GrRecords, NEW ttl \in GrTtls,
              DohAnswers(r, records, ttl)
       PROVE  ResolveInv'
  <2>1. PICK life : life = Clamped(DohTtl(records, ttl))
    OBVIOUS
  <2>2. PICK q : q = [at |-> "nodes", name |-> grInFlight[r].name, records |-> records,
                      ttl |-> life]
    OBVIOUS
  <2>3. RequestOK(q, grChain) /\ q.at = "nodes"
    BY <2>1, <2>2, DohTtlBounded DEF RequestOK
  <2>4. /\ UNCHANGED <<grNow, grChain>>
        /\ \/ grInFlight' = [grInFlight EXCEPT ![r] = q] /\ UNCHANGED <<grCache, grAnswer>>
           \/ Answered(r, q)
    BY <1>10, <2>1, <2>2 DEF DohAnswers
  <2>5. CASE grInFlight' = [grInFlight EXCEPT ![r] = q] /\ UNCHANGED <<grCache, grAnswer>>
    <3>1. DOMAIN grInFlight' = GrRequests
          /\ \A i \in GrRequests : RequestOK(grInFlight'[i], grChain)
      BY <2>3, <2>5 DEF ResolveInv
    <3> QED  BY <2>4, <2>5, <3>1, ResolveKeeps DEF ResolveInv, VerifiedAtSlot
  <2> QED  BY <2>3, <2>4, <2>5, AnsweredKeeps
<1>11. CASE AttackModeStatus \/ ResolveElsewhere \/ UNCHANGED grVars
  <2>1. UNCHANGED <<grNow, grChain, grCache, grInFlight, grAnswer>>
    BY <1>11 DEF AttackModeStatus, ResolveElsewhere, grVars
  <2> QED  BY <1>1, <2>1
<1>12. ASSUME NEW r \in GrRequests, UpsertAsked(r) \/ UpsertContinues(r) PROVE ResolveInv'
  <2>1. PICK at : /\ at \in {"mint", "largest", "holder", "idle"}
                  /\ \/ UNCHANGED grInFlight
                     \/ grInFlight' = [grInFlight EXCEPT ![r] = [at |-> at]]
    BY <1>12 DEF UpsertAsked, UpsertContinues, UpsertNext
  <2>2. UNCHANGED <<grNow, grChain, grCache, grAnswer>>
    BY <1>12 DEF UpsertAsked, UpsertContinues
  <2>3. RequestOK([at |-> at], grChain)
    BY <2>1 DEF RequestOK
  <2>4. DOMAIN grInFlight' = GrRequests /\ \A i \in GrRequests : RequestOK(grInFlight'[i], grChain)
    BY <2>1, <2>3 DEF ResolveInv
  <2> QED  BY <2>2, <2>4, ResolveKeeps DEF ResolveInv, VerifiedAtSlot
<1> QED
  BY <1>2, <1>3, <1>4, <1>5, <1>6, <1>7, <1>8, <1>9, <1>10, <1>11, <1>12 DEF GrNext

LEMMA ResolveHolds == ResolveInv => VerifiedAtSlot /\ CacheLifeBounded
<1> SUFFICES ASSUME ResolveInv PROVE CacheLifeBounded
  BY DEF ResolveInv
<1> QED  BY DEF ResolveInv, LifeOK, CacheLifeBounded

LEMMA GrInit_Resolve == GrInit => ResolveInv
<1> SUFFICES ASSUME GrInit PROVE ResolveInv
  OBVIOUS
<1>1. grNow = 0 /\ grChain = <<>> /\ grAnswer.kind # "dns"
  BY DEF GrInit, NoGrAnswer
<1>2. DOMAIN grCache = {}
  BY DEF GrInit
<1> QED  BY <1>1, <1>2, IdleOK DEF GrInit, ResolveInv, VerifiedAtSlot

-----------------------------------------------------------------------------
(* The demo gateway: for any upstreams, names, answers and limits. *)

LEMMA MaxOfTwo ==
  ASSUME NEW a \in Int, NEW b \in Int
  PROVE  Max({a, b}) = IF a >= b THEN a ELSE b
BY DEF Max

LEMMA MinOfTwo ==
  ASSUME NEW a \in Int, NEW b \in Int
  PROVE  Min({a, b}) = IF a <= b THEN a ELSE b
BY DEF Min

\* An upstream's answer, of a lookup that began at `since`.
HitOK(hit, since, now) ==
  /\ hit.ttl \in Nat \ {0}
  /\ hit.status # "waiting" => hit.at \in Nat /\ since <= hit.at /\ hit.at <= now

\* A lookup is never older than the time limit.
LookupOK(job, now) ==
  /\ job = [id |-> job.id, name |-> job.name, wire |-> job.wire, since |-> job.since,
            hits |-> job.hits]
  /\ job.since \in Nat /\ job.since <= now /\ now <= job.since + DgTimeout
  /\ DOMAIN job.hits = DgIndexes
  /\ \A i \in DgIndexes : HitOK(job.hits[i], job.since, now)

PayloadShape(p) ==
  p = [kind |-> "payload", name |-> p.name, hits |-> p.hits, hit |-> p.hit,
       cachedAt |-> p.cachedAt, age |-> p.age, status |-> p.status, data |-> p.data,
       confidence |-> p.confidence, ttl |-> p.ttl]

\* The upstreams that gave the records of a payload.
Behind(p) == {i \in DgIndexes : p.hits[i].status = "NOERROR" /\ p.hits[i].data = p.data}

\* A payload lives no longer than an upstream allowed, than its confidence
\* allows, and is gone from the cache when its life is over.
PayloadOK(p, now) ==
  /\ PayloadShape(p)
  /\ p.cachedAt \in Nat /\ p.ttl \in Nat /\ p.cachedAt <= now /\ now < p.cachedAt + p.ttl
  /\ p.status = "NOERROR" =>
       /\ \E i \in Behind(p) : /\ p.hits[i].at \in Nat /\ p.hits[i].ttl \in Nat
                               /\ p.cachedAt <= p.hits[i].at + DgTimeout
                               /\ p.ttl <= p.hits[i].ttl
       /\ p.confidence = "high" => Cardinality(Behind(p)) >= 2
       /\ p.confidence = "medium" => p.ttl = 1 \/ p.ttl <= DgMediumCap
       /\ p.confidence = "low" => p.ttl <= DgLowCap

DemoInv ==
  /\ dgNow \in Nat
  /\ \A job \in dgJobs : LookupOK(job, dgNow)
  /\ DOMAIN dgCache = DgNames
  /\ \A n \in DgNames : dgCache[n].kind = "payload" => PayloadOK(dgCache[n], dgNow)
  /\ AnswersHonest

\* What a client gets of a payload.
LEMMA AnswerOfPayload ==
  ASSUME dgNow \in Nat, NEW p, PayloadOK(p, dgNow),
         dgAnswer'.hits = p.hits, dgAnswer'.status = p.status,
         dgAnswer'.confidence = p.confidence, dgAnswer'.cachedAt = p.cachedAt,
         dgAnswer'.age = dgNow - p.cachedAt,
         dgAnswer'.data = p.data \/ dgAnswer'.data = p.data \ DgUnparsed
  PROVE  AnswersHonest'
<1> SUFFICES ASSUME p.status = "NOERROR" PROVE AnswersHonest'
  BY DEF AnswersHonest
<1>1. PICK a : a = dgAnswer'
  OBVIOUS
<1>2. PICK giving : giving = {i \in DgIndexes : /\ p.hits[i].status = "NOERROR"
                                                /\ a.data \subseteq p.hits[i].data
                                                /\ p.hits[i].data \ a.data \subseteq DgUnparsed}
  OBVIOUS
<1>3. Behind(p) \subseteq giving
  BY <1>1, <1>2 DEF Behind
<1>4. PICK i \in Behind(p) : /\ p.hits[i].at \in Nat /\ p.hits[i].ttl \in Nat
                             /\ p.cachedAt <= p.hits[i].at + DgTimeout
                             /\ p.ttl <= p.hits[i].ttl
  BY DEF PayloadOK
<1>5. /\ p.cachedAt \in Nat /\ p.ttl \in Nat /\ a.cachedAt = p.cachedAt
      /\ a.age = dgNow - p.cachedAt /\ a.age < p.ttl /\ a.age \in Nat
  BY <1>1 DEF PayloadOK
<1>6. a.cachedAt + a.age <= p.hits[i].at + p.hits[i].ttl + DgTimeout
  BY <1>4, <1>5, DgAssumption
<1>7. p.confidence = "high" => Cardinality(giving) >= 2
  <2>1. IsFiniteSet(giving)
    BY <1>2, DgAssumption, FS_Subset DEF DgIndexes
  <2>2. Cardinality(Behind(p)) <= Cardinality(giving)
        /\ Cardinality(giving) \in Nat /\ Cardinality(Behind(p)) \in Nat
    BY <1>3, <2>1, FS_Subset, FS_CardinalityType
  <2> QED  BY <2>2 DEF PayloadOK
<1>8. p.confidence = "medium" => a.age <= DgMediumCap
  BY <1>5, DgAssumption DEF PayloadOK
<1>9. p.confidence = "low" => a.age <= DgLowCap
  BY <1>5, DgAssumption DEF PayloadOK
<1>10. i \in giving
  BY <1>3, <1>4
<1>11. a.hits = p.hits /\ a.confidence = p.confidence
  BY <1>1
<1> QED  BY <1>1, <1>2, <1>6, <1>7, <1>8, <1>9, <1>10, <1>11 DEF AnswersHonest

LEMMA CapsOfConfidence ==
  /\ \A c : ConfidenceCap(c) \in Nat
  /\ ConfidenceCap("medium") <= DgMediumCap
  /\ ConfidenceCap("low") = DgLowCap
<1>1. PICK cap : cap = Max({DgLowCap, DgTtlCap})
  OBVIOUS
<1>2. cap \in Nat
  BY <1>1, DgAssumption, MaxOfTwo
<1>3. PICK medium : medium = Min({cap, DgMediumCap})
  OBVIOUS
<1>4. medium \in Nat /\ medium <= DgMediumCap
  BY <1>2, <1>3, DgAssumption, MinOfTwo
<1>5. \A c : ConfidenceCap(c) = IF c = "high" THEN cap
                                ELSE IF c = "medium" THEN medium ELSE DgLowCap
  BY <1>1, <1>3 DEF ConfidenceCap
<1> QED  BY <1>2, <1>4, <1>5, DgAssumption

\* A lookup that ended makes such a payload.
LEMMA PayloadOfLookup ==
  ASSUME dgNow \in Nat, NEW job, LookupOK(job, dgNow),
         \A i \in DgIndexes : job.hits[i].status # "waiting",
         NEW fastest \in FastestOf(job.hits)
  PROVE  /\ PayloadOK(PayloadOf(job.name, job.hits, fastest), dgNow)
         /\ PayloadOf(job.name, job.hits, fastest).age = 0
         /\ PayloadOf(job.name, job.hits, fastest).cachedAt = dgNow
<1>1. PICK hits : hits = job.hits
  OBVIOUS
<1>2. PICK p : p = PayloadOf(job.name, hits, fastest)
  OBVIOUS
<1>3. PICK confidence : confidence = ConfidenceOf(hits)
  OBVIOUS
<1>4. CASE ValidHits(hits) # {}
  <2>1. PICK m : LargestGroup(hits) = SameSet(hits, m)
    BY DEF LargestGroup
  <2>2. fastest \in SameSet(hits, m)
    BY <1>1, <1>4, <2>1 DEF FastestOf
  <2>3. PICK hit : hit = hits[fastest]
    OBVIOUS
  <2>4. /\ fastest \in DgIndexes /\ hit.status = "NOERROR" /\ hit.data # {}
        /\ hit.data = hits[m].data
    BY <2>2, <2>3 DEF SameSet, ValidHits
  <2>5. hit.ttl \in Nat \ {0} /\ hit.at \in Nat /\ dgNow <= hit.at + DgTimeout
    <3>1. HitOK(hit, job.since, dgNow) /\ job.since \in Nat /\ dgNow <= job.since + DgTimeout
      BY <1>1, <2>3, <2>4 DEF LookupOK
    <3>2. hit.at \in Nat /\ job.since <= hit.at
      BY <2>4, <3>1 DEF HitOK
    <3> QED  BY <3>1, <3>2, DgAssumption DEF HitOK
  <2>6. PICK cap : cap = ConfidenceCap(confidence)
    OBVIOUS
  <2>7. cap \in Nat
    BY <2>6, CapsOfConfidence
  <2>8. PICK low : low = Min({hit.ttl, cap})
    OBVIOUS
  <2>9. low = IF hit.ttl <= cap THEN hit.ttl ELSE cap
    BY <2>5, <2>7, <2>8, MinOfTwo
  <2>10. PICK ttl : ttl = Max({1, low})
    OBVIOUS
  <2>11. ttl = IF 1 >= low THEN 1 ELSE low
    BY <2>5, <2>7, <2>9, <2>10, MaxOfTwo
  <2>12. ttl \in Nat /\ ttl >= 1 /\ ttl <= hit.ttl /\ (ttl = 1 \/ ttl <= cap)
    BY <2>5, <2>7, <2>9, <2>11
  <2>13. p = Payload(job.name, hits, "NOERROR", hit.data, confidence, ttl)
    BY <1>2, <1>3, <1>4, <2>3, <2>6, <2>8, <2>10 DEF PayloadOf
  <2>14. /\ PayloadShape(p) /\ p.hits = hits /\ p.status = "NOERROR" /\ p.data = hit.data
         /\ p.confidence = confidence /\ p.ttl = ttl /\ p.cachedAt = dgNow /\ p.age = 0
    BY <2>13 DEF Payload, PayloadShape
  <2>15. Behind(p) = SameSet(hits, m)
    BY <2>4, <2>14 DEF Behind, SameSet, ValidHits
  <2>16. fastest \in Behind(p) /\ p.hits[fastest] = hit
    BY <2>2, <2>3, <2>14, <2>15
  <2>17. confidence = "high" => Cardinality(Behind(p)) >= 2
    BY <1>3, <2>1, <2>15 DEF ConfidenceOf
  <2>18. confidence = "medium" => ttl = 1 \/ ttl <= DgMediumCap
    BY <2>6, <2>7, <2>12, CapsOfConfidence, DgAssumption
  <2>19. confidence = "low" => ttl <= DgLowCap
    BY <2>6, <2>12, CapsOfConfidence, DgAssumption
  <2>20. p.cachedAt <= dgNow /\ dgNow < p.cachedAt + p.ttl
    BY <2>12, <2>14
  <2> QED
    BY <1>1, <1>2, <2>5, <2>12, <2>14, <2>16, <2>17, <2>18, <2>19, <2>20 DEF PayloadOK
<1>5. CASE ValidHits(hits) = {}
  <2>1. PICK status, given : /\ status \in {"NXDOMAIN", "SERVFAIL"}
                             /\ p = Payload(job.name, hits, status, {}, given, DgLowCap)
    BY <1>2, <1>5, SMTT(30) DEF PayloadOf
  <2>2. /\ PayloadShape(p) /\ p.status # "NOERROR" /\ p.ttl = DgLowCap /\ p.cachedAt = dgNow
        /\ p.age = 0
    BY <2>1 DEF Payload, PayloadShape
  <2> QED  BY <1>1, <1>2, <2>2, DgAssumption DEF PayloadOK
<1> QED  BY <1>4, <1>5

\* A step at an instant: the lookups and payloads it leaves are the old ones or
\* are in order.
LEMMA DemoKeeps ==
  ASSUME DemoInv, dgNow' = dgNow, AnswersHonest', DOMAIN dgCache' = DgNames,
         \A job \in dgJobs' : job \in dgJobs \/ LookupOK(job, dgNow),
         \A n \in DgNames : \/ dgCache'[n] = dgCache[n] \/ dgCache'[n].kind # "payload"
                            \/ PayloadOK(dgCache'[n], dgNow)
  PROVE  DemoInv'
<1>1. PICK jobs : jobs = dgJobs'
  OBVIOUS
<1>2. PICK cache : cache = dgCache'
  OBVIOUS
<1>3. PICK now : now = dgNow
  OBVIOUS
<1>4. \A job \in jobs : LookupOK(job, now)
  BY <1>1, <1>3 DEF DemoInv
<1>5. \A n \in DgNames : cache[n].kind = "payload" => PayloadOK(cache[n], now)
  BY <1>2, <1>3 DEF DemoInv
<1>6. now \in Nat
  BY <1>3 DEF DemoInv
<1> QED  BY <1>1, <1>2, <1>3, <1>4, <1>5, <1>6 DEF DemoInv

\* Job j is replaced by one that has another answer of upstream i.
LEMMA LookupHears ==
  ASSUME DemoInv, NEW job \in dgJobs, NEW i \in DgIndexes, NEW hit, HitOK(hit, job.since, dgNow),
         dgJobs' = (dgJobs \ {job}) \cup {[job EXCEPT !.hits[i] = hit]},
         UNCHANGED <<dgNow, dgCache>>, dgAnswer' = DgNothing
  PROVE  DemoInv'
<1>1. PICK hits : hits = job.hits
  OBVIOUS
<1>2. PICK new : new = [hits EXCEPT ![i] = hit]
  OBVIOUS
<1>3. PICK j : j = [job EXCEPT !.hits = new]
  OBVIOUS
<1>4. dgJobs' = (dgJobs \ {job}) \cup {j}
  BY <1>1, <1>2, <1>3
<1>5. LookupOK(job, dgNow)
  BY DEF DemoInv
<1>6. j = [id |-> job.id, name |-> job.name, wire |-> job.wire, since |-> job.since,
           hits |-> new]
  BY <1>3, <1>5 DEF LookupOK
<1>7. DOMAIN new = DgIndexes /\ \A k \in DgIndexes : HitOK(new[k], job.since, dgNow)
  BY <1>1, <1>2, <1>5 DEF LookupOK
<1>8. LookupOK(j, dgNow)
  BY <1>5, <1>6, <1>7 DEF LookupOK
<1>9. AnswersHonest'
  BY DEF DgNothing, AnswersHonest
<1> QED  BY <1>4, <1>8, <1>9, DemoKeeps DEF DemoInv

LEMMA DgNext_Demo == DemoInv /\ [DgNext]_dgVars => DemoInv'
<1> SUFFICES ASSUME DemoInv, [DgNext]_dgVars PROVE DemoInv'
  OBVIOUS
<1>1. dgNow \in Nat /\ DOMAIN dgCache = DgNames
  BY DEF DemoInv
<1>2. ASSUME dgAnswer'.kind \notin {"json", "wire"} PROVE AnswersHonest'
  BY <1>2 DEF AnswersHonest
<1>3. CASE UNCHANGED <<dgNow, dgJobs, dgCache, dgAnswer>>
  BY <1>1, <1>3, DemoKeeps DEF DemoInv, AnswersHonest
<1>4. ASSUME NEW n \in DgNames, NEW wire \in BOOLEAN, ServeCached(n, wire) PROVE DemoInv'
  <2>1. PICK p : p = dgCache[n]
    OBVIOUS
  <2>2. PayloadOK(p, dgNow)
    BY <1>4, <2>1 DEF ServeCached, DgFresh, DemoInv
  <2>3. PICK age : age = dgNow - p.cachedAt
    OBVIOUS
  <2>4. PICK q : q = [p EXCEPT !.hit = TRUE, !.age = age]
    OBVIOUS
  <2>5. PICK out : out = DgAnswered(q, wire)
    OBVIOUS
  <2>6. dgAnswer' = DgAnswered(q, wire) /\ UNCHANGED <<dgNow, dgJobs, dgCache>>
    BY <1>4, <2>1, <2>3, <2>4 DEF ServeCached
  <2>7. PICK a : a = dgAnswer'
    OBVIOUS
  <2>8. /\ a.hits = p.hits /\ a.status = p.status /\ a.confidence = p.confidence
        /\ a.cachedAt = p.cachedAt /\ a.age = dgNow - p.cachedAt
        /\ a.data = p.data \/ a.data = p.data \ DgUnparsed
    <3>1. DOMAIN p = {"kind", "name", "hits", "hit", "cachedAt", "age", "status", "data",
                      "confidence", "ttl"}
      BY <2>2 DEF PayloadOK, PayloadShape
    <3>2. PICK half : half = [p EXCEPT !.hit = TRUE]
      OBVIOUS
    <3>3. /\ DOMAIN half = DOMAIN p /\ half.hits = p.hits /\ half.status = p.status
          /\ half.confidence = p.confidence /\ half.cachedAt = p.cachedAt
          /\ half.data = p.data
      BY <3>1, <3>2
    <3>4. q = [half EXCEPT !.age = age]
      BY <2>4, <3>2
    <3>5. /\ DOMAIN q = DOMAIN p /\ q.hits = p.hits /\ q.status = p.status
          /\ q.confidence = p.confidence /\ q.cachedAt = p.cachedAt /\ q.data = p.data
          /\ q.age = age
      BY <3>1, <3>3, <3>4
    <3>6. /\ out.hits = q.hits /\ out.status = q.status /\ out.confidence = q.confidence
          /\ out.cachedAt = q.cachedAt /\ out.age = q.age
          /\ out.data = q.data \/ out.data = q.data \ DgUnparsed
      BY <2>5, <3>1, <3>5 DEF DgAnswered
    <3> QED  BY <2>3, <2>5, <2>6, <2>7, <3>5, <3>6
  <2>9. AnswersHonest'
    BY <1>1, <2>2, <2>7, <2>8, AnswerOfPayload
  <2> QED  BY <1>1, <2>6, <2>9, DemoKeeps
<1>5. ASSUME NEW n \in DgNames, NEW wire \in BOOLEAN, LookupStart(n, wire) PROVE DemoInv'
  <2>1. PICK new : new = Min((1..DgMaxInFlight) \ {job.id : job \in dgJobs})
    OBVIOUS
  <2>2. PICK j : j = [id |-> new, name |-> n, wire |-> wire, since |-> dgNow,
                      hits |-> [i \in DgIndexes |-> DgWaiting]]
    OBVIOUS
  <2>3. dgJobs' = dgJobs \cup {j} /\ UNCHANGED <<dgNow, dgCache>> /\ dgAnswer'.kind = "nothing"
    BY <1>5, <2>1, <2>2 DEF LookupStart, DgNothing
  <2>4. LookupOK(j, dgNow)
    BY <1>1, <2>2, DgAssumption DEF LookupOK, HitOK, DgWaiting
  <2> QED  BY <1>1, <1>2, <2>3, <2>4, DemoKeeps
<1>6. ASSUME NEW status, RefuseUnsupported(status) PROVE DemoInv'
  <2>1. UNCHANGED <<dgNow, dgJobs, dgCache>> /\ dgAnswer'.kind = "refused"
    BY <1>6 DEF RefuseUnsupported
  <2> QED  BY <1>1, <1>2, <2>1, DemoKeeps
<1>7. ASSUME NEW job \in dgJobs, NEW i \in DgIndexes,
             NEW status \in {"NOERROR", "NXDOMAIN", "SERVFAIL"}, NEW data, NEW ttl \in DgTtls,
             UpstreamAnswers(job, i, status, data, ttl)
      PROVE  DemoInv'
  <2>1. PICK life : life = CASE status = "SERVFAIL" -> 1
                             [] status = "NXDOMAIN" \/ data = {} -> DgLowCap
                             [] status = "NOERROR" /\ data # {} /\ ttl = 0 -> DgZeroTtl
                             [] OTHER -> ttl
    OBVIOUS
  <2>2. life \in Nat \ {0}
    <3>1. status # "NOERROR" => data = {}
      BY <1>7 DEF UpstreamAnswers
    <3> QED  BY <2>1, <3>1, DgAssumption
  <2>3. PICK hit : hit = [status |-> status, data |-> data, at |-> dgNow, ttl |-> life]
    OBVIOUS
  <2>4. HitOK(hit, job.since, dgNow)
    BY <1>1, <2>2, <2>3 DEF HitOK, DemoInv, LookupOK
  <2> QED  BY <1>7, <2>1, <2>3, <2>4, LookupHears DEF UpstreamAnswers
<1>8. ASSUME NEW job \in dgJobs, NEW i \in DgIndexes, UpstreamTimesOut(job, i) PROVE DemoInv'
  <2>1. PICK hit : hit = DgFailed(dgNow)
    OBVIOUS
  <2>2. HitOK(hit, job.since, dgNow)
    BY <1>1, <2>1 DEF DgFailed, HitOK, DemoInv, LookupOK
  <2> QED  BY <1>8, <2>1, <2>2, LookupHears DEF UpstreamTimesOut
<1>9. ASSUME NEW job \in dgJobs, NEW fastest \in DgIndexes, LookupEnd(job, fastest) PROVE DemoInv'
  <2>1. PICK p : p = PayloadOf(job.name, job.hits, fastest)
    OBVIOUS
  <2>2. PayloadOK(p, dgNow) /\ p.age = 0 /\ p.cachedAt = dgNow
    BY <1>1, <1>9, <2>1, PayloadOfLookup DEF LookupEnd, DemoInv
  <2>3. /\ dgCache' = [dgCache EXCEPT ![job.name] = p] /\ dgAnswer' = DgAnswered(p, job.wire)
        /\ dgJobs' = dgJobs \ {job} /\ dgNow' = dgNow
    BY <1>9, <2>1 DEF LookupEnd
  <2>4. PICK a : a = dgAnswer'
    OBVIOUS
  <2>5. /\ a.hits = p.hits /\ a.status = p.status /\ a.confidence = p.confidence
        /\ a.cachedAt = p.cachedAt /\ a.age = dgNow - p.cachedAt
        /\ a.data = p.data \/ a.data = p.data \ DgUnparsed
    <3>1. p = [kind |-> "payload", name |-> p.name, hits |-> p.hits, hit |-> p.hit,
               cachedAt |-> p.cachedAt, age |-> p.age, status |-> p.status, data |-> p.data,
               confidence |-> p.confidence, ttl |-> p.ttl]
      BY <2>2 DEF PayloadOK, PayloadShape
    <3>2. dgNow - p.cachedAt = 0
      BY <1>1, <2>2
    <3> QED  BY <2>2, <2>3, <2>4, <3>1, <3>2 DEF DgAnswered
  <2>6. AnswersHonest'
    BY <1>1, <2>2, <2>4, <2>5, AnswerOfPayload
  <2>7. DOMAIN dgCache' = DgNames
        /\ \A n \in DgNames : dgCache'[n] = dgCache[n] \/ PayloadOK(dgCache'[n], dgNow)
    BY <1>1, <2>2, <2>3
  <2> QED  BY <2>3, <2>6, <2>7, DemoKeeps
<1>10. ASSUME NEW n \in DgNames, CacheEvicts(n) PROVE DemoInv'
  <2>1. /\ dgCache' = [dgCache EXCEPT ![n] = DgUncached] /\ UNCHANGED <<dgNow, dgJobs>>
        /\ dgAnswer'.kind = "nothing"
    BY <1>10 DEF CacheEvicts, DgNothing
  <2>2. DgUncached.kind # "payload"
    BY DEF DgUncached
  <2> QED  BY <1>1, <1>2, <2>1, <2>2, DemoKeeps
<1>11. ASSUME NEW n \in DgNames, PageAsks(n) PROVE DemoInv'
  <2>1. UNCHANGED <<dgNow, dgJobs, dgCache>> /\ dgAnswer'.kind = "nothing"
    BY <1>11 DEF PageAsks, DgNothing
  <2> QED  BY <1>1, <1>2, <2>1, DemoKeeps
<1>12. CASE DgTick
  <2>1. PICK now : now = dgNow + 1
    OBVIOUS
  <2>2. now \in Nat /\ dgNow < now /\ dgNow' = now
    BY <1>1, <1>12, <2>1 DEF DgTick
  <2>3. \A job \in dgJobs : LookupOK(job, now)
    <3>1. TAKE job \in dgJobs
    <3>2. LookupOK(job, dgNow) /\ dgNow < job.since + DgTimeout
      BY <1>12 DEF DemoInv, DgTick
    <3>3. job.since <= now /\ now <= job.since + DgTimeout
      BY <1>1, <2>1, <3>2, DgAssumption DEF LookupOK
    <3>4. \A i \in DgIndexes : HitOK(job.hits[i], job.since, now)
      BY <1>1, <2>1, <3>2 DEF LookupOK, HitOK
    <3> QED  BY <3>2, <3>3, <3>4 DEF LookupOK
  <2>4. PICK old : old = dgCache
    OBVIOUS
  <2>5. PICK cache : cache = dgCache'
    OBVIOUS
  <2>6. cache = [n \in DgNames |-> IF old[n].kind = "payload" /\ now >= old[n].cachedAt + old[n].ttl
                                   THEN DgUncached ELSE old[n]]
    BY <1>12, <2>2, <2>4, <2>5 DEF DgTick
  <2>7. \A n \in DgNames : cache[n].kind = "payload" => PayloadOK(cache[n], now)
    <3>1. TAKE n \in DgNames
    <3>2. HAVE cache[n].kind = "payload"
    <3>3. cache[n] = old[n] /\ ~(now >= old[n].cachedAt + old[n].ttl)
      BY <2>6, <3>2 DEF DgUncached
    <3>4. PayloadOK(old[n], dgNow)
      BY <2>4, <3>2, <3>3 DEF DemoInv
    <3> QED  BY <1>1, <2>1, <3>3, <3>4 DEF PayloadOK
  <2>8. UNCHANGED dgJobs /\ AnswersHonest'
    BY <1>2, <1>12 DEF DgTick, DgNothing
  <2>9. DOMAIN cache = DgNames
    BY <2>6
  <2>10. PICK jobs : jobs = dgJobs
    OBVIOUS
  <2> QED  BY <2>2, <2>3, <2>5, <2>7, <2>8, <2>9, <2>10 DEF DemoInv
<1>13. ASSUME NEW n \in DgNames, PageShows(n) PROVE DemoInv'
  BY <1>3, <1>13 DEF PageShows
<1>14. CASE UNCHANGED dgVars
  BY <1>3, <1>14 DEF dgVars
<1>15. CASE DgNext
  <2>1. \/ \E n \in DgNames, wire \in BOOLEAN : ServeCached(n, wire)
        \/ \E n \in DgNames, wire \in BOOLEAN : LookupStart(n, wire)
        \/ \E status : RefuseUnsupported(status)
        \/ \E job \in dgJobs, i \in DgIndexes, ttl \in DgTtls,
              status \in {"NOERROR", "NXDOMAIN", "SERVFAIL"} :
              \E data : UpstreamAnswers(job, i, status, data, ttl)
        \/ \E job \in dgJobs, i \in DgIndexes : UpstreamTimesOut(job, i)
        \/ \E job \in dgJobs, fastest \in DgIndexes : LookupEnd(job, fastest)
        \/ \E n \in DgNames : CacheEvicts(n)
        \/ \E n \in DgNames : PageAsks(n)
        \/ \E n \in DgNames : PageShows(n)
        \/ DgTick
    BY <1>15 DEF DgNext
  <2>2. CASE \/ \E n \in DgNames, wire \in BOOLEAN : ServeCached(n, wire)
             \/ \E n \in DgNames, wire \in BOOLEAN : LookupStart(n, wire)
             \/ \E status : RefuseUnsupported(status)
    BY <2>2, <1>4, <1>5, <1>6
  <2>3. CASE \/ \E job \in dgJobs, i \in DgIndexes, ttl \in DgTtls,
                   status \in {"NOERROR", "NXDOMAIN", "SERVFAIL"} :
                   \E data : UpstreamAnswers(job, i, status, data, ttl)
             \/ \E job \in dgJobs, i \in DgIndexes : UpstreamTimesOut(job, i)
             \/ \E job \in dgJobs, fastest \in DgIndexes : LookupEnd(job, fastest)
    BY <2>3, <1>7, <1>8, <1>9
  <2>4. CASE \/ \E n \in DgNames : CacheEvicts(n)
             \/ \E n \in DgNames : PageAsks(n)
             \/ \E n \in DgNames : PageShows(n)
             \/ DgTick
    BY <2>4, <1>10, <1>11, <1>12, <1>13
  <2> QED  BY <2>1, <2>2, <2>3, <2>4
<1> QED  BY <1>14, <1>15

LEMMA DgInit_Demo == DgInit => DemoInv
<1> SUFFICES ASSUME DgInit PROVE DemoInv
  OBVIOUS
<1>1. dgAnswer.kind = "nothing" /\ DgUncached.kind # "payload"
  BY DEF DgInit, DgNothing, DgUncached
<1>2. AnswersHonest
  BY <1>1 DEF AnswersHonest
<1> QED  BY <1>1, <1>2 DEF DgInit, DemoInv

-----------------------------------------------------------------------------
LEMMA AnswerSteps ==
  ASSUME [Next]_Vars
  PROVE  [GrNext]_grVars /\ [NaNext]_naAnswer /\ [DgNext]_dgVars
<1>1. CASE UNCHANGED Vars
  BY <1>1 DEF Vars
<1>2. CASE Next
  <2>1. [GrNext]_grVars
    BY <1>2 DEF Next, Alone
  <2>2. [NaNext]_naAnswer
    BY <1>2 DEF Next, Alone
  <2>3. [DgNext]_dgVars
    BY <1>2 DEF Next, Alone
  <2> QED  BY <2>1, <2>2, <2>3
<1> QED  BY <1>1, <1>2

\* Whatever crosses a request while it waits: a verified .dns answer names the
\* route of the slot it reports (verifyCandidateDest), nothing is cached longer
\* than the maximum (cacheSet), the demo gateway claims no more than its
\* upstreams gave it (resolveName), and a site is served for the name's own
\* records only (/v1/site).
THEOREM AnswersAreHeld == Spec => []AnswersHold
<1> DEFINE Inv == ResolveInv /\ SitesFromRecords /\ DemoInv
<1>1. Init => Inv
  <2>1. NaInit => SitesFromRecords
    BY DEF NaInit, NoNaAnswer, SitesFromRecords
  <2> QED  BY <2>1, GrInit_Resolve, DgInit_Demo DEF Init
<1>2. Inv /\ [Next]_Vars => Inv'
  BY AnswerSteps, GrNext_Resolve, NaNext_Sites, DgNext_Demo
<1>3. Inv => AnswersHold
  BY ResolveHolds DEF AnswersHold, DemoInv
<1> QED  BY <1>1, <1>2, <1>3, PTL DEF Spec

-----------------------------------------------------------------------------
(***************************************************************************)
(* Books: the gateway's ledger of credits and the coordinator's treasury.  *)
(***************************************************************************)

\* The amount of a subsidy is fixed before the registrar is asked.
RenewalOK(r) ==
  /\ r.domain \in GwDomains /\ r.kind \in {"status", "claim", "renew", "registrar"}
  /\ r.kind = "registrar" => r.apply \in Nat /\ r.apply <= RenewalCost

LogType == [credited: Nat, debited: Nat, subsidies: Nat]

Balanced(d, balance, log, count) ==
  /\ balance \in Nat /\ log \in LogType /\ count \in Nat
  /\ balance = GwSeeds[d].credits + log.credited - log.debited - log.subsidies
  /\ log.subsidies <= RenewalCost * count

LedgerInv ==
  /\ ledger \in [GwDomains -> Nat] /\ DOMAIN ledgerLog = GwDomains
  /\ renewedUntil = [d \in GwDomains |-> renewedUntil[d]]
  /\ \A d \in GwDomains : Balanced(d, ledger[d], ledgerLog[d], renewedUntil[d].count)
  /\ \A r \in gwInFlight : RenewalOK(r)

\* The entries of domain d move, the others stay.
LEMMA LedgerMoves ==
  ASSUME LedgerInv, NEW d \in GwDomains, NEW balance, NEW log, NEW until,
         Balanced(d, balance, log, until.count),
         ledger' = [ledger EXCEPT ![d] = balance],
         ledgerLog' = [ledgerLog EXCEPT ![d] = log],
         renewedUntil' = [renewedUntil EXCEPT ![d] = until],
         \A r \in gwInFlight' : RenewalOK(r)
  PROVE  LedgerInv'
<1>1. PICK l : l = ledger'
  OBVIOUS
<1>2. PICK g : g = ledgerLog'
  OBVIOUS
<1>3. PICK u : u = renewedUntil'
  OBVIOUS
<1>4. l \in [GwDomains -> Nat] /\ DOMAIN g = GwDomains /\ u = [x \in GwDomains |-> u[x]]
  BY <1>1, <1>2, <1>3 DEF LedgerInv, Balanced
<1>5. \A x \in GwDomains : Balanced(x, l[x], g[x], u[x].count)
  <2>1. TAKE x \in GwDomains
  <2>2. CASE x = d
    BY <1>1, <1>2, <1>3, <2>2 DEF LedgerInv
  <2>3. CASE x # d
    BY <1>1, <1>2, <1>3, <2>3 DEF LedgerInv
  <2> QED  BY <2>2, <2>3
<1> QED  BY <1>1, <1>2, <1>3, <1>4, <1>5 DEF LedgerInv

LEMMA LedgerKeeps ==
  ASSUME LedgerInv, UNCHANGED <<ledger, ledgerLog, renewedUntil>>,
         \A r \in gwInFlight' : RenewalOK(r)
  PROVE  LedgerInv'
<1>1. PICK l : l = ledger
  OBVIOUS
<1>2. PICK g : g = ledgerLog
  OBVIOUS
<1>3. PICK u : u = renewedUntil
  OBVIOUS
<1> QED  BY <1>1, <1>2, <1>3 DEF LedgerInv

\* A renewal is counted, and the ledger pays the amount or refuses to.
LEMMA RenewalPays ==
  ASSUME LedgerInv, NEW d \in GwDomains, NEW years, NEW amount \in Nat,
         amount <= RenewalCost, NoteRenewal(d, years), DebitLedger(d, amount),
         ledgerLog' = [ledgerLog EXCEPT
           ![d].subsidies = @ + IF CanDebit(d, amount) THEN amount ELSE 0],
         \A r \in gwInFlight' : RenewalOK(r)
  PROVE  LedgerInv'
<1>1. PICK paid : paid = IF CanDebit(d, amount) THEN amount ELSE 0
  OBVIOUS
<1>2. PICK old : old = ledgerLog[d]
  OBVIOUS
<1>3. PICK was : was = renewedUntil[d]
  OBVIOUS
<1>4. Balanced(d, ledger[d], old, was.count)
  BY <1>2, <1>3 DEF LedgerInv
<1>5. PICK log : log = [old EXCEPT !.subsidies = old.subsidies + paid]
  OBVIOUS
<1>6. /\ log \in LogType /\ log.subsidies = old.subsidies + paid
      /\ log.credited = old.credited /\ log.debited = old.debited
      /\ paid \in Nat /\ paid <= RenewalCost /\ ledger[d] - paid \in Nat
  <2>1. old \in LogType /\ ledger[d] \in Nat
    BY <1>4 DEF Balanced
  <2>2. paid \in Nat /\ paid <= RenewalCost /\ ledger[d] - paid \in Nat
    BY <1>1, <2>1 DEF CanDebit, RenewalCost
  <2> QED  BY <1>5, <2>1, <2>2 DEF LogType
<1>7. PICK until : until = [count |-> was.count + 1, until |-> gwDay + 365 * years]
  OBVIOUS
<1>8. until.count = was.count + 1
  BY <1>7
<1>9. PICK balance : balance = ledger[d] - paid
  OBVIOUS
<1>10. Balanced(d, balance, log, until.count)
  BY <1>4, <1>6, <1>8, <1>9, GwAssumption DEF Balanced, RenewalCost, LogType
<1>11. ledger' = [ledger EXCEPT ![d] = balance]
  <2>1. CASE CanDebit(d, amount)
    BY <1>1, <1>9, <2>1 DEF DebitLedger
  <2>2. CASE ~CanDebit(d, amount)
    <3>1. balance = ledger[d]
      BY <1>1, <1>4, <1>9, <2>2 DEF Balanced
    <3>2. ledger' = ledger
      BY <2>2 DEF DebitLedger
    <3>3. PICK l : l = ledger
      OBVIOUS
    <3>4. l = [x \in GwDomains |-> l[x]]
      BY <3>3 DEF LedgerInv
    <3>5. l = [l EXCEPT ![d] = l[d]]
      BY <3>4
    <3> QED  BY <3>1, <3>2, <3>3, <3>5
  <2> QED  BY <2>1, <2>2
<1>12. ledgerLog' = [ledgerLog EXCEPT ![d] = log]
  BY <1>1, <1>2, <1>5 DEF LedgerInv
<1>13. renewedUntil' = [renewedUntil EXCEPT ![d] = until]
  BY <1>3, <1>7 DEF NoteRenewal, LedgerInv
<1> QED  BY <1>8, <1>10, <1>11, <1>12, <1>13, LedgerMoves

LEMMA CoveredBounded ==
  ASSUME LedgerInv, NEW d \in GwDomains
  PROVE  Covered(d) \in Nat /\ Covered(d) <= RenewalCost
BY DEF LedgerInv, Covered, RenewalCost

LEMMA FinishKeeps ==
  ASSUME LedgerInv, NEW r, RenewalOK(r), r.kind # "registrar", NEW answer, Finish(r, answer),
         \A x \in gwInFlight' : RenewalOK(x)
  PROVE  LedgerInv'
<1>1. CASE r.kind = "renew"
  <2>1. RenewDone(r, answer)
    BY <1>1 DEF Finish
  <2>2. PICK d : d = r.domain
    OBVIOUS
  <2>3. PICK apply : apply = IF r.useCredits THEN Covered(d) ELSE 0
    OBVIOUS
  <2>4. d \in GwDomains /\ apply \in Nat /\ apply <= RenewalCost
    BY <2>2, <2>3, CoveredBounded DEF RenewalOK, RenewalCost
  <2>5. CASE UNCHANGED <<ledger, ledgerLog, renewedUntil>>
    BY <2>5, LedgerKeeps
  <2>6. CASE /\ NoteRenewal(d, r.years) /\ DebitLedger(d, apply)
             /\ ledgerLog' = [ledgerLog EXCEPT
                  ![d].subsidies = @ + IF CanDebit(d, apply) THEN apply ELSE 0]
    BY <2>4, <2>6, RenewalPays
  <2> QED  BY <2>1, <2>2, <2>3, <2>5, <2>6 DEF RenewDone
<1>2. CASE r.kind # "renew"
  <2>1. UNCHANGED <<ledger, ledgerLog, renewedUntil>>
    BY <1>2 DEF RenewalOK, Finish, StatusDone, ClaimDone
  <2> QED  BY <2>1, LedgerKeeps
<1> QED  BY <1>1, <1>2

LEMMA AskWorkerKeeps ==
  ASSUME LedgerInv, NEW r, RenewalOK(r), r.kind # "registrar", AskWorker(r)
  PROVE  LedgerInv'
<1>1. \A x \in gwInFlight' : RenewalOK(x)
  BY DEF LedgerInv, AskWorker
<1>2. CASE Finish(r, NoWorkerAnswer)
  BY <1>1, <1>2, FinishKeeps
<1>3. CASE UNCHANGED <<ledger, ledgerLog, renewedUntil>>
  BY <1>1, <1>3, LedgerKeeps
<1> QED  BY <1>2, <1>3 DEF AskWorker

LEMMA GwNext_Ledger == LedgerInv /\ [GwNext]_gwVars => LedgerInv'
<1> SUFFICES ASSUME LedgerInv, [GwNext]_gwVars PROVE LedgerInv'
  OBVIOUS
<1>1. \A r \in gwInFlight : RenewalOK(r)
  BY DEF LedgerInv
<1>2. CASE DomainStatus \/ ContinuityClaim
  <2>1. PICK kind \in {"status", "claim"}, d \in GwDomains : AskWorker(Snapshot(kind, d))
    BY <1>2 DEF DomainStatus, ContinuityClaim
  <2>2. PICK r : r = Snapshot(kind, d)
    OBVIOUS
  <2>3. RenewalOK(r) /\ r.kind # "registrar"
    BY <2>2 DEF Snapshot, RenewalOK
  <2> QED  BY <2>1, <2>2, <2>3, AskWorkerKeeps
<1>3. CASE WorkerAnswers
  <2>1. PICK r \in gwInFlight : /\ r.kind # "registrar" /\ gwInFlight' = gwInFlight \ {r}
                                /\ \E answer : Finish(r, answer)
    BY <1>3 DEF WorkerAnswers
  <2>2. \A x \in gwInFlight' : RenewalOK(x)
    BY <1>1, <2>1
  <2> QED  BY <1>1, <2>1, <2>2, FinishKeeps
<1>4. CASE DomainRenew
  <2>1. PICK d \in GwDomains, years \in {-1, 1}, useCredits \in BOOLEAN :
          AskWorker([id |-> FreshId, kind |-> "renew", domain |-> d, years |-> years, useCredits |-> useCredits])
    BY <1>4 DEF DomainRenew
  <2>2. PICK r : r = [id |-> FreshId, kind |-> "renew", domain |-> d, years |-> years, useCredits |-> useCredits]
    OBVIOUS
  <2>3. RenewalOK(r) /\ r.kind # "registrar"
    BY <2>2 DEF RenewalOK
  <2> QED  BY <2>1, <2>2, <2>3, AskWorkerKeeps
<1>5. CASE DomainRenewSent
  <2>1. PICK d \in GwDomains, useCredits \in BOOLEAN :
          /\ gwInFlight' = gwInFlight \cup
               {[id |-> FreshId, kind |-> "registrar", domain |-> d, useCredits |-> useCredits,
                 apply |-> IF useCredits THEN Covered(d) ELSE 0]}
          /\ UNCHANGED <<ledger, ledgerLog, renewedUntil>>
    BY <1>5 DEF DomainRenewSent
  <2>2. PICK apply : apply = IF useCredits THEN Covered(d) ELSE 0
    OBVIOUS
  <2>3. apply \in Nat /\ apply <= RenewalCost
    BY <2>2, CoveredBounded DEF RenewalCost
  <2>4. PICK r : r = [id |-> FreshId, kind |-> "registrar", domain |-> d, useCredits |-> useCredits,
                      apply |-> apply]
    OBVIOUS
  <2>5. RenewalOK(r)
    BY <2>3, <2>4 DEF RenewalOK
  <2>6. \A x \in gwInFlight' : RenewalOK(x)
    BY <1>1, <2>1, <2>2, <2>4, <2>5
  <2> QED  BY <2>1, <2>6, LedgerKeeps
<1>6. CASE DomainRenewAnswered
  <2>1. PICK r \in gwInFlight :
          /\ r.kind = "registrar" /\ gwInFlight' = gwInFlight \ {r}
          /\ NoteRenewal(r.domain, 1) /\ DebitLedger(r.domain, r.apply)
          /\ ledgerLog' = [ledgerLog EXCEPT ![r.domain].subsidies =
                             @ + IF CanDebit(r.domain, r.apply) THEN r.apply ELSE 0]
    BY <1>6 DEF DomainRenewAnswered
  <2>2. PICK d : d = r.domain
    OBVIOUS
  <2>3. PICK apply : apply = r.apply
    OBVIOUS
  <2>4. d \in GwDomains /\ apply \in Nat /\ apply <= RenewalCost
    BY <1>1, <2>1, <2>2, <2>3 DEF RenewalOK
  <2>5. /\ NoteRenewal(d, 1) /\ DebitLedger(d, apply)
        /\ ledgerLog' = [ledgerLog EXCEPT ![d].subsidies =
                           @ + IF CanDebit(d, apply) THEN apply ELSE 0]
        /\ \A x \in gwInFlight' : RenewalOK(x)
    BY <1>1, <2>1, <2>2, <2>3
  <2> QED  BY <2>4, <2>5, RenewalPays
<1>7. CASE DomainRenewFailed
  <2>1. UNCHANGED <<ledger, ledgerLog, renewedUntil>> /\ \A x \in gwInFlight' : RenewalOK(x)
    BY <1>1, <1>7 DEF DomainRenewFailed
  <2> QED  BY <2>1, LedgerKeeps
<1>8. CASE RegistrarRenew
  <2>1. PICK d \in GwDomains, years \in 1 .. 2 : NoteRenewal(d, years)
    BY <1>8 DEF RegistrarRenew
  <2>2. UNCHANGED <<ledger, ledgerLog, gwInFlight>>
    BY <1>8 DEF RegistrarRenew
  <2>3. PICK was : was = renewedUntil[d]
    OBVIOUS
  <2>4. PICK until : until = [count |-> was.count + 1, until |-> gwDay + 365 * years]
    OBVIOUS
  <2>5. renewedUntil' = [renewedUntil EXCEPT ![d] = until]
    BY <2>1, <2>3, <2>4 DEF NoteRenewal, LedgerInv
  <2>6. PICK u : u = renewedUntil'
    OBVIOUS
  <2>7. PICK l : l = ledger
    OBVIOUS
  <2>8. PICK g : g = ledgerLog
    OBVIOUS
  <2>9. \A x \in GwDomains : Balanced(x, l[x], g[x], u[x].count)
    <3>1. TAKE x \in GwDomains
    <3>2. PICK n : n = renewedUntil[x].count
      OBVIOUS
    <3>3. Balanced(x, l[x], g[x], n)
      BY <2>7, <2>8, <3>2 DEF LedgerInv
    <3>4. u[x].count = IF x = d THEN n + 1 ELSE n
      BY <2>3, <2>4, <2>5, <2>6, <3>2 DEF LedgerInv
    <3> QED  BY <3>3, <3>4 DEF Balanced, LogType, RenewalCost
  <2>10. u = [x \in GwDomains |-> u[x]]
    BY <2>5, <2>6 DEF LedgerInv
  <2> QED  BY <1>1, <2>2, <2>6, <2>7, <2>8, <2>9, <2>10 DEF LedgerInv
<1>9. CASE CreditsCredit \/ CreditsDebit
  <2>1. PICK d \in GwDomains, amount \in GwAmounts :
          /\ UNCHANGED <<gwInFlight, renewedUntil>>
          /\ \/ /\ ledger' = [ledger EXCEPT ![d] = @ + amount]
                /\ ledgerLog' = [ledgerLog EXCEPT ![d].credited = @ + amount]
             \/ /\ CanDebit(d, amount)
                /\ ledger' = [ledger EXCEPT ![d] = @ - amount]
                /\ ledgerLog' = [ledgerLog EXCEPT ![d].debited = @ + amount]
    BY <1>9 DEF CreditsCredit, CreditsDebit, DebitLedger
  <2>2. PICK old : old = ledgerLog[d]
    OBVIOUS
  <2>3. PICK until : until = renewedUntil[d]
    OBVIOUS
  <2>4. Balanced(d, ledger[d], old, until.count) /\ amount \in Nat
    BY <2>2, <2>3, GwAssumption DEF LedgerInv
  <2>5. renewedUntil' = [renewedUntil EXCEPT ![d] = until]
    BY <2>1, <2>3 DEF LedgerInv
  <2>6. CASE /\ ledger' = [ledger EXCEPT ![d] = @ + amount]
             /\ ledgerLog' = [ledgerLog EXCEPT ![d].credited = @ + amount]
    <3>1. PICK log : log = [old EXCEPT !.credited = old.credited + amount]
      OBVIOUS
    <3>2. PICK balance : balance = ledger[d] + amount
      OBVIOUS
    <3>3. log \in LogType /\ log.subsidies = old.subsidies
          /\ log.credited = old.credited + amount /\ log.debited = old.debited
      BY <2>4, <3>1 DEF Balanced, LogType
    <3>4. Balanced(d, balance, log, until.count)
      BY <2>4, <3>2, <3>3, GwAssumption DEF Balanced, LogType
    <3>5. ledger' = [ledger EXCEPT ![d] = balance] /\ ledgerLog' = [ledgerLog EXCEPT ![d] = log]
      BY <2>2, <2>6, <3>1, <3>2 DEF LedgerInv
    <3> QED  BY <1>1, <2>1, <2>5, <3>4, <3>5, LedgerMoves
  <2>7. CASE /\ CanDebit(d, amount)
             /\ ledger' = [ledger EXCEPT ![d] = @ - amount]
             /\ ledgerLog' = [ledgerLog EXCEPT ![d].debited = @ + amount]
    <3>1. PICK log : log = [old EXCEPT !.debited = old.debited + amount]
      OBVIOUS
    <3>2. PICK balance : balance = ledger[d] - amount
      OBVIOUS
    <3>3. log \in LogType /\ log.subsidies = old.subsidies
          /\ log.debited = old.debited + amount /\ log.credited = old.credited
      BY <2>4, <3>1 DEF Balanced, LogType
    <3>4. Balanced(d, balance, log, until.count)
      BY <2>4, <2>7, <3>2, <3>3, GwAssumption DEF Balanced, LogType, CanDebit
    <3>5. ledger' = [ledger EXCEPT ![d] = balance] /\ ledgerLog' = [ledgerLog EXCEPT ![d] = log]
      BY <2>2, <2>7, <3>1, <3>2 DEF LedgerInv
    <3> QED  BY <1>1, <2>1, <2>5, <3>4, <3>5, LedgerMoves
  <2> QED  BY <2>1, <2>6, <2>7
<1>10. CASE RegistrarNs \/ DomainVerify \/ BannerAck \/ DaysPass \/ UNCHANGED gwVars
  <2>1. UNCHANGED <<ledger, ledgerLog, renewedUntil, gwInFlight>>
    BY <1>10 DEF RegistrarNs, DomainVerify, BannerAck, DaysPass, gwVars
  <2> QED  BY <1>1, <2>1, LedgerKeeps
<1> QED
  BY <1>2, <1>3, <1>4, <1>5, <1>6, <1>7, <1>8, <1>9, <1>10 DEF GwNext

\* The coordinator's allocations: the parts of a valid policy.
Covers(a) ==
  /\ a.total <= 10000 => SumFunction(a.parts) <= a.balance
  /\ 10000 * SumFunction(a.parts) <= 10001 * a.balance

TreasuryInv == IsSeq(csAllocations) /\ \A i \in DOMAIN csAllocations : Covers(csAllocations[i])

\* A part, rounded down, is no more than its share.
LEMMA PartOfShare ==
  ASSUME NEW whole \in Nat
  PROVE  whole \div 10000 \in Nat /\ 10000 * (whole \div 10000) <= whole
OBVIOUS

LEMMA PartsBelow ==
  ASSUME NEW D, IsFiniteSet(D), NEW wholes, NEW parts,
         \A i \in D : wholes[i] \in Nat /\ parts[i] \in Nat /\ 10000 * parts[i] <= wholes[i]
  PROVE  /\ SumFunctionOnSet(parts, D) \in Nat
         /\ 10000 * SumFunctionOnSet(parts, D) <= SumFunctionOnSet(wholes, D)
<1> DEFINE tens == [i \in D |-> 10000 * parts[i]]
<1>1. \A i \in D : tens[i] = 10000 * parts[i]
  OBVIOUS
<1> HIDE DEF tens
<1>2. \A i \in D : tens[i] \in Int /\ wholes[i] \in Int /\ tens[i] <= wholes[i]
  BY <1>1
<1>3. SumFunctionOnSet(tens, D) <= SumFunctionOnSet(wholes, D)
  BY <1>2, SumLess
<1>4. \A i \in D : parts[i] \in Int /\ tens[i] = 10000 * parts[i]
  BY <1>1
<1>5. SumFunctionOnSet(tens, D) = 10000 * SumFunctionOnSet(parts, D)
  BY <1>4, SumTimes
<1> QED  BY <1>3, <1>5, SumNat

\* What each bucket is allocated.
PartsOf(policy, balance) ==
  [i \in DOMAIN policy |-> (balance * policy[i].share) \div 10000]

LEMMA PartsAt ==
  ASSUME NEW policy, NEW balance \in Nat, NEW i \in DOMAIN policy, policy[i].share \in Nat
  PROVE  /\ PartsOf(policy, balance)[i] \in Nat
         /\ 10000 * PartsOf(policy, balance)[i] <= balance * policy[i].share
<1>1. PICK s \in Nat : s = policy[i].share
  OBVIOUS
<1>2. PICK w \in Nat : w = balance * s
  OBVIOUS
<1>3. PICK p : p = w \div 10000
  OBVIOUS
<1>4. PartsOf(policy, balance)[i] = p
  BY <1>1, <1>2, <1>3 DEF PartsOf
<1>5. p \in Nat /\ 10000 * p <= w
  BY <1>3, PartOfShare
<1> QED  BY <1>1, <1>2, <1>4, <1>5

LEMMA PartsCovered ==
  ASSUME NEW policy \in Seq(CsBucketType), PolicyValid(policy), NEW balance \in Nat,
         NEW parts, parts = PartsOf(policy, balance)
  PROVE  LET total == SumFunction([i \in DOMAIN policy |-> policy[i].share])
         IN  /\ total <= 10000 => SumFunction(parts) <= balance
             /\ 10000 * SumFunction(parts) <= 10001 * balance
<1>1. PICK n \in Nat : n = Len(policy)
  OBVIOUS
<1>2. PICK D : D = 1 .. n
  OBVIOUS
<1>3. DOMAIN policy = D /\ IsFiniteSet(D) /\ DOMAIN parts = D
  BY <1>1, <1>2, FS_Interval DEF PartsOf
<1>4. PICK shares : shares = [i \in D |-> policy[i].share]
  OBVIOUS
<1>5. \A i \in D : shares[i] \in Nat /\ shares[i] = policy[i].share
  <2>1. \A i \in D : policy[i] \in CsBucketType
    BY <1>3
  <2> QED  BY <1>4, <2>1 DEF CsBucketType
<1>6. PICK wholes : wholes = [i \in D |-> balance * shares[i]]
  OBVIOUS
<1>7. \A i \in D : wholes[i] \in Nat /\ parts[i] \in Nat /\ 10000 * parts[i] <= wholes[i]
  <2>1. TAKE i \in D
  <2>2. PICK s \in Nat : s = shares[i]
    BY <1>5
  <2>3. PICK w \in Nat : w = balance * s
    OBVIOUS
  <2>4. parts[i] \in Nat /\ 10000 * parts[i] <= balance * policy[i].share
    BY <1>3, <1>5, PartsAt
  <2>5. wholes[i] = w /\ balance * policy[i].share = w
    BY <1>5, <1>6, <2>2, <2>3
  <2> QED  BY <2>4, <2>5
<1>8. /\ SumFunctionOnSet(parts, D) \in Nat
      /\ 10000 * SumFunctionOnSet(parts, D) <= SumFunctionOnSet(wholes, D)
  BY <1>3, <1>7, PartsBelow, SMTT(30)
<1>9. SumFunctionOnSet(wholes, D) = balance * SumFunctionOnSet(shares, D)
  <2>1. \A i \in D : shares[i] \in Int /\ wholes[i] = balance * shares[i]
    BY <1>5, <1>6
  <2>2. balance \in Int
    OBVIOUS
  <2> QED  BY <1>3, <2>1, <2>2, SumTimes
<1>10. PICK total \in Nat : total = SumFunctionOnSet(shares, D)
  BY <1>3, <1>5, SumNat
<1>11. total <= 10001 /\ total = SumFunction([i \in DOMAIN policy |-> policy[i].share])
  <2>1. SumFunction(shares) <= 10001 /\ DOMAIN shares = D
    BY <1>3, <1>4 DEF PolicyValid
  <2> QED  BY <1>3, <1>4, <1>10, <2>1, SumAll
<1>12. balance * total <= 10001 * balance /\ (total <= 10000 => balance * total <= 10000 * balance)
  BY <1>11
<1>13. SumFunction(parts) = SumFunctionOnSet(parts, D)
  BY <1>3, SumAll
<1>14. PICK given \in Nat : given = SumFunction(parts)
  BY <1>8, <1>13
<1>15. 10000 * given <= balance * total /\ balance * total \in Nat
  BY <1>8, <1>9, <1>10, <1>13, <1>14
<1>16. 10000 * given <= 10001 * balance
  BY <1>12, <1>15
<1>17. total <= 10000 => given <= balance
  BY <1>12, <1>15
<1> QED  BY <1>11, <1>14, <1>16, <1>17

LEMMA CsNext_Treasury == TreasuryInv /\ [CsNext]_csVars => TreasuryInv'
<1> SUFFICES ASSUME TreasuryInv, [CsNext]_csVars PROVE TreasuryInv'
  OBVIOUS
<1>1. CASE UNCHANGED csAllocations
  BY <1>1 DEF TreasuryInv, IsSeq
<1>2. CASE csAllocations' = << >>
  BY <1>2 DEF TreasuryInv, IsSeq
<1>3. ASSUME NEW policy \in CsPolicies, NEW balance \in CsBalances,
             AllocateTreasury(policy, balance)
      PROVE  TreasuryInv'
  <2>1. policy \in Seq(CsBucketType) /\ balance \in Nat /\ PolicyValid(policy)
    BY <1>3, CsAssumption DEF AllocateTreasury
  <2>2. PICK parts : parts = PartsOf(policy, balance)
    OBVIOUS
  <2>3. PICK total : total = SumFunction([i \in DOMAIN policy |-> policy[i].share])
    OBVIOUS
  <2>4. PICK entry : entry = [balance |-> balance, total |-> total, parts |-> parts]
    OBVIOUS
  <2>5. Covers(entry)
    <3>1. /\ total <= 10000 => SumFunction(parts) <= balance
          /\ 10000 * SumFunction(parts) <= 10001 * balance
      BY <2>1, <2>2, <2>3, PartsCovered
    <3> QED  BY <2>4, <3>1 DEF Covers
  <2>6. PICK old : old = csAllocations
    OBVIOUS
  <2>7. PICK new : new = csAllocations'
    OBVIOUS
  <2>8. new = Append(old, entry) /\ IsSeq(old)
    BY <1>3, <2>2, <2>3, <2>4, <2>6, <2>7 DEF AllocateTreasury, TreasuryInv, PartsOf
  <2>9. IsSeq(new) /\ \A i \in DOMAIN new : new[i] = entry \/ \E j \in DOMAIN old : new[i] = old[j]
    <3>1. IsSeq(new) /\ ToSet(new) = ToSet(old) \cup {entry}
      BY <2>8, AppendIsSeq
    <3> QED  BY <3>1 DEF ToSet
  <2>10. \A i \in DOMAIN new : Covers(new[i])
    BY <2>5, <2>6, <2>9 DEF TreasuryInv
  <2>11. IsSeq(csAllocations)'
    BY <2>7, <2>9 DEF IsSeq
  <2> QED  BY <2>7, <2>10, <2>11 DEF TreasuryInv
<1>4. CASE CsRestart
  BY <1>2, <1>4 DEF CsRestart
<1>5. CASE \/ \E w \in CsWallets :
                \/ AskLogin(w)
                \/ \E signed \in 1..csIssued, evm \in CsWallets : VerifyLogin(w, signed, evm)
                \/ CommentChallenge(w)
                \/ \E signed \in 1..csIssued : CommentVerify(w, signed)
           \/ \E job \in csJobs :
                (\E owns \in BOOLEAN : PassportAnswers(job, owns)) \/ PassportCallFails(job)
           \/ QueueAction \/ OtherSave \/ CsTick \/ UNCHANGED csVars
  <2>1. ASSUME NEW w, AskLogin(w) \/ CommentChallenge(w) PROVE UNCHANGED csAllocations
    BY <2>1 DEF AskLogin, CommentChallenge, csBooks
  <2>2. ASSUME NEW w, NEW signed, NEW evm, VerifyLogin(w, signed, evm)
        PROVE  UNCHANGED csAllocations
    BY <2>2 DEF VerifyLogin, csBooks
  <2>3. ASSUME NEW w, NEW signed, CommentVerify(w, signed) PROVE UNCHANGED csAllocations
    BY <2>3 DEF CommentVerify, csBooks
  <2>4. ASSUME NEW job, NEW owns, PassportAnswers(job, owns) \/ PassportCallFails(job)
        PROVE  UNCHANGED csAllocations
    BY <2>4 DEF PassportAnswers, PassportCallFails, csBooks
  <2>5. ASSUME QueueAction \/ OtherSave \/ CsTick \/ UNCHANGED csVars
        PROVE  UNCHANGED csAllocations
    BY <2>5 DEF QueueAction, OtherSave, CsTick, csVars, csBooks
  <2>6. UNCHANGED csAllocations
    BY <1>5, <2>1, <2>2, <2>3, <2>4, <2>5, Zenon
  <2> QED  BY <1>1, <2>6
<1> QED  BY <1>3, <1>4, <1>5, Zenon DEF CsNext

LEMMA BookSteps == ASSUME [Next]_Vars PROVE [GwNext]_gwVars /\ [CsNext]_csVars
<1>1. CASE UNCHANGED Vars
  BY <1>1 DEF Vars
<1>2. CASE Next
  <2>1. [GwNext]_gwVars
    BY <1>2 DEF Next, Alone
  <2>2. [CsNext]_csVars
    BY <1>2 DEF Next, Alone
  <2> QED  BY <2>1, <2>2
<1> QED  BY <1>1, <1>2

LEMMA GwInit_Ledger == GwInit => LedgerInv
<1> SUFFICES ASSUME GwInit PROVE LedgerInv
  OBVIOUS
<1>1. PICK l : l = ledger
  OBVIOUS
<1>2. PICK g : g = ledgerLog
  OBVIOUS
<1>3. PICK u : u = renewedUntil
  OBVIOUS
<1>4. /\ l = [d \in GwDomains |-> GwSeeds[d].credits]
      /\ g = [d \in GwDomains |-> [credited |-> 0, debited |-> 0, subsidies |-> 0]]
      /\ u = [d \in GwDomains |-> [count |-> 0, until |-> -1000]]
      /\ gwInFlight = {}
  BY <1>1, <1>2, <1>3 DEF GwInit
<1>5. \A d \in GwDomains : Balanced(d, l[d], g[d], u[d].count)
  BY <1>4, GwAssumption DEF Balanced, LogType, RenewalCost
<1> QED  BY <1>1, <1>2, <1>3, <1>4, <1>5, GwAssumption DEF LedgerInv

\* The ledger of the gateway agrees with its entries and is never overdrawn,
\* although a subsidy is fixed before an await (credits_ledger.ts), and the
\* parts of an allocation, each rounded down, are covered by the balance when
\* their shares make no more than the whole, and but for a ten-thousandth of it
\* whatever the shares of a valid policy (/treasury/allocate).
THEOREM BooksAreCovered == Spec => []BooksCovered
<1> DEFINE Inv == LedgerInv /\ TreasuryInv
<1>1. Init => Inv
  <2>1. CsInit => TreasuryInv
    BY DEF CsInit, TreasuryInv, IsSeq
  <2> QED  BY <2>1, GwInit_Ledger DEF Init
<1>2. Inv /\ [Next]_Vars => Inv'
  BY BookSteps, GwNext_Ledger, CsNext_Treasury
<1>3. Inv => BooksCovered
  <2>1. LedgerInv => LedgerReconciles
    BY DEF LedgerInv, Balanced, LedgerReconciles
  <2>2. TreasuryInv => AllocationsCovered
    BY DEF TreasuryInv, AllocationsCovered, Covers
  <2> QED  BY <2>1, <2>2 DEF BooksCovered
<1> QED  BY <1>1, <1>2, <1>3, PTL DEF Spec

-----------------------------------------------------------------------------
(***************************************************************************)
(* What is recorded for a domain survives slower requests: for any domains,*)
(* scans and requests.                                                     *)
(***************************************************************************)

EntryShape(e) ==
  e = [inputs |-> e.inputs, claim |-> e.claim, challenge |-> e.challenge, acked |-> e.acked]

StoreInv ==
  /\ DOMAIN domainStore = GwDomains /\ \A d \in GwDomains : EntryShape(domainStore[d])
  /\ \A r \in gwInFlight : RenewalOK(r)

\* No flag of an entry is taken back.
FlagsGrow(old, new) ==
  /\ EntryShape(new)
  /\ (old.claim => new.claim) /\ (old.acked => new.acked) /\ (old.challenge => new.challenge)

StoreGrows ==
  DOMAIN domainStore' = GwDomains /\ \A d \in GwDomains : FlagsGrow(domainStore[d], domainStore'[d])

LEMMA EntryWritten ==
  ASSUME StoreInv, NEW d \in GwDomains, NEW e, FlagsGrow(domainStore[d], e),
         domainStore' = [domainStore EXCEPT ![d] = e]
  PROVE  StoreGrows
<1>1. \A x \in GwDomains : domainStore'[x] = IF x = d THEN e ELSE domainStore[x]
  BY DEF StoreInv
<1> QED  BY <1>1 DEF StoreInv, StoreGrows, FlagsGrow

LEMMA StoreUnchanged == ASSUME StoreInv, UNCHANGED domainStore PROVE StoreGrows
  BY DEF StoreInv, StoreGrows, FlagsGrow

LEMMA FieldWritten ==
  ASSUME NEW e, EntryShape(e), NEW v
  PROVE  /\ FlagsGrow(e, [e EXCEPT !.inputs = v])
         /\ FlagsGrow(e, [e EXCEPT !.claim = TRUE])
         /\ FlagsGrow(e, [e EXCEPT !.challenge = TRUE])
         /\ FlagsGrow(e, [e EXCEPT !.acked = TRUE])
<1>1. DOMAIN e = {"inputs", "claim", "challenge", "acked"}
  BY DEF EntryShape
<1>2. ASSUME NEW f \in {"inputs", "claim", "challenge", "acked"}, NEW w,
             f # "inputs" => w = TRUE
      PROVE  FlagsGrow(e, [e EXCEPT ![f] = w])
  <2>1. PICK g : g = [e EXCEPT ![f] = w]
    OBVIOUS
  <2>2. /\ g.inputs = IF f = "inputs" THEN w ELSE e.inputs
        /\ g.claim = IF f = "claim" THEN w ELSE e.claim
        /\ g.challenge = IF f = "challenge" THEN w ELSE e.challenge
        /\ g.acked = IF f = "acked" THEN w ELSE e.acked
    BY <1>1, <2>1
  <2>3. EntryShape(g)
    BY <1>1, <2>1 DEF EntryShape
  <2> QED  BY <1>2, <2>1, <2>2, <2>3 DEF FlagsGrow
<1> QED  BY <1>2

LEMMA FinishGrows ==
  ASSUME StoreInv, NEW r, RenewalOK(r), r.kind # "registrar", NEW answer, Finish(r, answer)
  PROVE  StoreGrows
<1>1. PICK d \in GwDomains : d = r.domain
  BY DEF RenewalOK
<1>2. PICK e : e = domainStore[d]
  OBVIOUS
<1>3. EntryShape(e)
  BY <1>2 DEF StoreInv
<1>4. CASE r.kind = "status"
  <2>1. PICK v : domainStore' = [domainStore EXCEPT ![r.domain].inputs = v]
    BY <1>4 DEF Finish, StatusDone
  <2>2. PICK new : new = [e EXCEPT !.inputs = v]
    OBVIOUS
  <2>3. domainStore' = [domainStore EXCEPT ![d] = new]
    BY <1>1, <1>2, <2>1, <2>2 DEF StoreInv
  <2>4. FlagsGrow(e, new)
    BY <1>3, <2>2, FieldWritten
  <2> QED  BY <1>2, <2>3, <2>4, EntryWritten
<1>5. CASE r.kind = "claim"
  <2>1. domainStore' = [domainStore EXCEPT ![r.domain].claim = TRUE]
    BY <1>5 DEF Finish, ClaimDone
  <2>2. PICK new : new = [e EXCEPT !.claim = TRUE]
    OBVIOUS
  <2>3. domainStore' = [domainStore EXCEPT ![d] = new]
    BY <1>1, <1>2, <2>1, <2>2 DEF StoreInv
  <2>4. FlagsGrow(e, new)
    BY <1>3, <2>2, FieldWritten
  <2> QED  BY <1>2, <2>3, <2>4, EntryWritten
<1>6. CASE r.kind = "renew"
  BY <1>6, StoreUnchanged DEF Finish, RenewDone
<1> QED  BY <1>4, <1>5, <1>6 DEF RenewalOK

LEMMA AskWorkerGrows ==
  ASSUME StoreInv, NEW r, RenewalOK(r), r.kind # "registrar", AskWorker(r)
  PROVE  StoreGrows
BY FinishGrows, StoreUnchanged DEF AskWorker

LEMMA GwNext_Store ==
  ASSUME StoreInv, [GwNext]_gwVars
  PROVE  StoreGrows
<1>1. \A r \in gwInFlight : RenewalOK(r)
  BY DEF StoreInv
<1>2. CASE DomainStatus \/ ContinuityClaim
  <2>1. PICK kind \in {"status", "claim"}, d \in GwDomains : AskWorker(Snapshot(kind, d))
    BY <1>2 DEF DomainStatus, ContinuityClaim
  <2>2. PICK r : r = Snapshot(kind, d)
    OBVIOUS
  <2>3. RenewalOK(r) /\ r.kind # "registrar"
    BY <2>2 DEF Snapshot, RenewalOK
  <2> QED  BY <2>1, <2>2, <2>3, AskWorkerGrows
<1>3. CASE WorkerAnswers
  BY <1>1, <1>3, FinishGrows DEF WorkerAnswers
<1>4. CASE DomainRenew
  <2>1. PICK d \in GwDomains, years \in {-1, 1}, useCredits \in BOOLEAN :
          AskWorker([id |-> FreshId, kind |-> "renew", domain |-> d, years |-> years, useCredits |-> useCredits])
    BY <1>4 DEF DomainRenew
  <2>2. PICK r : r = [id |-> FreshId, kind |-> "renew", domain |-> d, years |-> years, useCredits |-> useCredits]
    OBVIOUS
  <2>3. RenewalOK(r) /\ r.kind # "registrar"
    BY <2>2 DEF RenewalOK
  <2> QED  BY <2>1, <2>2, <2>3, AskWorkerGrows
<1>5. CASE DomainVerify
  <2>1. PICK d \in GwDomains : domainStore' = [domainStore EXCEPT ![d].challenge = TRUE]
    BY <1>5 DEF DomainVerify
  <2>2. PICK e : e = domainStore[d]
    OBVIOUS
  <2>3. PICK new : new = [e EXCEPT !.challenge = TRUE]
    OBVIOUS
  <2>4. domainStore' = [domainStore EXCEPT ![d] = new]
    BY <2>1, <2>2, <2>3 DEF StoreInv
  <2>5. FlagsGrow(e, new)
    BY <2>2, <2>3, FieldWritten DEF StoreInv
  <2> QED  BY <2>2, <2>4, <2>5, EntryWritten
<1>6. CASE BannerAck
  <2>1. PICK d \in GwDomains : domainStore' = [domainStore EXCEPT ![d].acked = TRUE]
    BY <1>6 DEF BannerAck
  <2>2. PICK e : e = domainStore[d]
    OBVIOUS
  <2>3. PICK new : new = [e EXCEPT !.acked = TRUE]
    OBVIOUS
  <2>4. domainStore' = [domainStore EXCEPT ![d] = new]
    BY <2>1, <2>2, <2>3 DEF StoreInv
  <2>5. FlagsGrow(e, new)
    BY <2>2, <2>3, FieldWritten DEF StoreInv
  <2> QED  BY <2>2, <2>4, <2>5, EntryWritten
<1>7. CASE \/ DomainRenewSent \/ DomainRenewAnswered \/ DomainRenewFailed \/ RegistrarRenew
           \/ RegistrarNs \/ CreditsCredit \/ CreditsDebit \/ DaysPass \/ UNCHANGED gwVars
  <2>1. UNCHANGED domainStore
    BY <1>7 DEF DomainRenewSent, DomainRenewAnswered, DomainRenewFailed, RegistrarRenew,
                RegistrarNs, CreditsCredit, CreditsDebit, DaysPass, gwVars
  <2> QED  BY <2>1, StoreUnchanged
<1> QED
  BY <1>2, <1>3, <1>4, <1>5, <1>6, <1>7 DEF GwNext

-----------------------------------------------------------------------------
\* The results of the traffic oracle: none is of a later time, and each answer
\* is one of them.
ResultsInv ==
  /\ toNow \in Nat /\ IsSeq(toResults)
  /\ \A i \in DOMAIN toResults : toResults[i].at \in Nat /\ toResults[i].at <= toNow
  /\ DOMAIN toAnswers = ToDomains
  /\ \A d \in ToDomains : toAnswers[d].kind = "answer" =>
       \E i \in ResultsOf(d) : toResults[i] = toAnswers[d].result

\* getLatestResult finds a result, and none is later.
LEMMA LatestIsLatest ==
  ASSUME ResultsInv, NEW d, ResultsOf(d) # {}
  PROVE  /\ LatestResult(d) \in ResultsOf(d)
         /\ \A j \in ResultsOf(d) : toResults[j].at <= toResults[LatestResult(d)].at
<1>1. PICK S : S = ResultsOf(d)
  OBVIOUS
<1>2. PICK age : age = [i \in S |-> toNow - toResults[i].at]
  OBVIOUS
<1>3. PICK place : place = [i \in S |-> i]
  OBVIOUS
<1>4. \A i \in S : /\ age[i] = toNow - toResults[i].at /\ age[i] \in Nat
                   /\ place[i] = i /\ place[i] \in Nat
                   /\ toResults[i].at \in Nat /\ toNow \in Nat
  <2>1. \A i \in S : i \in DOMAIN toResults
    BY <1>1 DEF ResultsOf
  <2>2. DOMAIN toResults \subseteq Nat
    BY DEF ResultsInv, IsSeq
  <2> QED  BY <1>2, <1>3, <2>1, <2>2 DEF ResultsInv
<1>5. PICK x \in S : \A y \in S : age[x] <= age[y]
  BY <1>1, <1>4, LeastMember
<1>6. PICK late : late = {i \in S : age[i] = age[x]}
  OBVIOUS
<1>7. \A i \in late : place[i] \in Nat
  BY <1>4, <1>6
<1>8. PICK i \in late : \A j \in late : place[i] <= place[j]
  <2>1. late # {}
    BY <1>5, <1>6
  <2> QED  BY <1>7, <2>1, LeastMember
<1>9. \A j \in S : \/ toResults[j].at < toResults[i].at
                   \/ toResults[j].at = toResults[i].at /\ i <= j
  <2>1. TAKE j \in S
  <2>2. age[i] = age[x] /\ i \in S
    BY <1>6, <1>8
  <2>3. CASE j \in late
    <3>1. place[i] <= place[j] /\ age[j] = age[i]
      BY <1>6, <1>8, <2>2, <2>3
    <3> QED  BY <1>4, <2>2, <3>1
  <2>4. CASE j \notin late
    <3>1. age[i] < age[j]
      BY <1>4, <1>5, <1>6, <2>2, <2>4
    <3> QED  BY <1>4, <2>2, <3>1
  <2> QED  BY <2>3, <2>4
<1>10. i \in S
  BY <1>6, <1>8
<1>11. LatestResult(d) = CHOOSE k \in S : \A j \in S :
          \/ toResults[j].at < toResults[k].at
          \/ toResults[j].at = toResults[k].at /\ k <= j
  BY <1>1 DEF LatestResult
<1>12. PICK m : m = LatestResult(d)
  OBVIOUS
<1>13. m \in S /\ \A j \in S : \/ toResults[j].at < toResults[m].at
                               \/ toResults[j].at = toResults[m].at /\ m <= j
  BY <1>9, <1>10, <1>11, <1>12
<1> QED  BY <1>1, <1>4, <1>12, <1>13

\* What a step may do to the answers.
AnswerMoves(d) ==
  toAnswers'[d] # toAnswers[d] =>
    /\ \/ toAnswers'[d].result.at = toNow
       \/ toNow - toAnswers'[d].result.at < ToCacheTtl
    /\ toAnswers[d].kind = "answer" => toAnswers'[d].result.at >= toAnswers[d].result.at

\* The answers stay, and the results and the time do not go back.
LEMMA AnswersStay ==
  ASSUME ResultsInv, UNCHANGED <<toResults, toAnswers>>, toNow' \in Nat, toNow <= toNow'
  PROVE  ResultsInv' /\ \A d \in ToDomains : AnswerMoves(d)
<1>1. PICK now : now = toNow'
  OBVIOUS
<1>2. PICK results : results = toResults
  OBVIOUS
<1>3. \A i \in DOMAIN results : results[i].at \in Nat /\ results[i].at <= now
  BY <1>1, <1>2 DEF ResultsInv
<1>4. IsSeq(toResults)'
  BY DEF ResultsInv, IsSeq
<1>5. PICK answers : answers = toAnswers
  OBVIOUS
<1>6. /\ DOMAIN answers = ToDomains
      /\ \A d \in ToDomains : answers[d].kind = "answer" =>
           \E i \in DOMAIN results : results[i].domain = d /\ results[i] = answers[d].result
  BY <1>2, <1>5 DEF ResultsInv, ResultsOf
<1> QED  BY <1>1, <1>2, <1>3, <1>4, <1>5, <1>6 DEF ResultsInv, ResultsOf, AnswerMoves

\* An answer that is given out of the results, none of which is later.
LEMMA AnswerGiven ==
  ASSUME ResultsInv, NEW d \in ToDomains, NEW answer, UNCHANGED toNow,
         toAnswers' = [toAnswers EXCEPT ![d] = answer],
         IsSeq(toResults'),
         \A i \in DOMAIN toResults' : toResults'[i].at \in Nat /\ toResults'[i].at <= toNow,
         \A i \in DOMAIN toResults : i \in DOMAIN toResults' /\ toResults'[i] = toResults[i],
         \E i \in DOMAIN toResults' : toResults'[i].domain = d /\ toResults'[i] = answer.result,
         answer.result.at = toNow \/ toNow - answer.result.at < ToCacheTtl,
         \A i \in ResultsOf(d) : toResults[i].at <= answer.result.at
  PROVE  ResultsInv' /\ \A x \in ToDomains : AnswerMoves(x)
<1>1. PICK results : results = toResults'
  OBVIOUS
<1>2. PICK answers : answers = toAnswers'
  OBVIOUS
<1>3. DOMAIN answers = ToDomains /\ answers[d] = answer
      /\ \A x \in ToDomains : x # d => answers[x] = toAnswers[x]
  BY <1>2 DEF ResultsInv
<1>4. \A x \in ToDomains : answers[x].kind = "answer" =>
        \E i \in DOMAIN results : results[i].domain = x /\ results[i] = answers[x].result
  <2>1. TAKE x \in ToDomains
  <2>2. HAVE answers[x].kind = "answer"
  <2>3. CASE x = d
    BY <1>1, <1>3, <2>3
  <2>4. CASE x # d
    <3>1. PICK i \in DOMAIN toResults : toResults[i].domain = x
                                        /\ toResults[i] = answers[x].result
      BY <1>3, <2>2, <2>4 DEF ResultsInv, ResultsOf
    <3> QED  BY <1>1, <3>1
  <2> QED  BY <2>3, <2>4
<1>5. \A x \in ToDomains : AnswerMoves(x)
  <2>1. TAKE x \in ToDomains
  <2>2. CASE x = d
    <3>1. toAnswers[d].kind = "answer" => answer.result.at >= toAnswers[d].result.at
      <4>1. SUFFICES ASSUME toAnswers[d].kind = "answer"
                     PROVE  answer.result.at >= toAnswers[d].result.at
        OBVIOUS
      <4>2. PICK i \in ResultsOf(d) : toResults[i] = toAnswers[d].result
        BY <4>1 DEF ResultsInv
      <4> QED  BY <4>2
    <3> QED  BY <1>2, <1>3, <2>2, <3>1 DEF AnswerMoves
  <2>3. CASE x # d
    BY <1>2, <1>3, <2>3 DEF AnswerMoves
  <2> QED  BY <2>2, <2>3
<1>6. IsSeq(toResults)' /\ \A i \in DOMAIN results : results[i].at \in Nat /\ results[i].at <= toNow
  BY <1>1 DEF IsSeq
<1>7. toNow' \in Nat /\ toNow' = toNow
  BY DEF ResultsInv
<1> QED  BY <1>1, <1>2, <1>3, <1>4, <1>5, <1>6, <1>7 DEF ResultsInv, ResultsOf

LEMMA ToNext_Results ==
  ASSUME ResultsInv, [ToNext]_toVars
  PROVE  ResultsInv' /\ \A d \in ToDomains : AnswerMoves(d)
<1>1. toNow \in Nat
  BY DEF ResultsInv
<1>2. ASSUME NEW d \in ToDomains, CheckCached(d)
      PROVE  ResultsInv' /\ \A x \in ToDomains : AnswerMoves(x)
  <2>1. PICK m : m = LatestResult(d)
    OBVIOUS
  <2>2. ResultsOf(d) # {} /\ toNow - toResults[m].at < ToCacheTtl
    BY <1>2, <2>1 DEF CheckCached, IsFresh
  <2>3. m \in ResultsOf(d) /\ \A j \in ResultsOf(d) : toResults[j].at <= toResults[m].at
    BY <2>1, <2>2, LatestIsLatest
  <2>4. PICK answer : answer = [kind |-> "answer", result |-> toResults[m], given |-> toNow]
    OBVIOUS
  <2>5. toAnswers' = [toAnswers EXCEPT ![d] = answer] /\ UNCHANGED <<toNow, toResults>>
    BY <1>2, <2>1, <2>4 DEF CheckCached
  <2>6. answer.result = toResults[m] /\ m \in DOMAIN toResults /\ toResults[m].domain = d
    BY <2>3, <2>4 DEF ResultsOf
  <2>7. IsSeq(toResults')
        /\ \A i \in DOMAIN toResults' : toResults'[i].at \in Nat /\ toResults'[i].at <= toNow
    BY <2>5 DEF ResultsInv
  <2> QED  BY <2>2, <2>3, <2>5, <2>6, <2>7, AnswerGiven
<1>3. ASSUME NEW scan \in toScans, NEW s \in ToSignals, ScanEnds(scan, s)
      PROVE  ResultsInv' /\ \A x \in ToDomains : AnswerMoves(x)
  <2>1. PICK d : d = scan.domain
    OBVIOUS
  <2>2. PICK result : result = [domain |-> d, at |-> toNow, decision |-> Decision(s)]
    OBVIOUS
  <2>3. PICK answer : answer = [kind |-> "answer", result |-> result, given |-> toNow]
    OBVIOUS
  <2>4. /\ toResults' = Append(toResults, result) /\ UNCHANGED toNow
        /\ toAnswers' = toAnswers \/ toAnswers' = [toAnswers EXCEPT ![d] = answer]
    BY <1>3, <2>1, <2>2, <2>3 DEF ScanEnds
  <2>5. PICK old : old = toResults
    OBVIOUS
  <2>6. PICK new : new = toResults'
    OBVIOUS
  <2>7. IsSeq(old) /\ new = Append(old, result)
    BY <2>4, <2>5, <2>6 DEF ResultsInv
  <2>8. IsSeq(new) /\ ToSet(new) = ToSet(old) \cup {result}
    BY <2>7, AppendIsSeq
  <2>9. \A i \in DOMAIN old : i \in DOMAIN new /\ new[i] = old[i]
    BY <2>7 DEF IsSeq
  <2>10. result.domain = d /\ result.at = toNow /\ answer.result = result
    BY <2>2, <2>3
  <2>11. \A i \in DOMAIN new : new[i].at \in Nat /\ new[i].at <= toNow
    <3>1. \A r \in ToSet(old) : r.at \in Nat /\ r.at <= toNow
      BY <2>5 DEF ResultsInv, ToSet
    <3>2. \A r \in ToSet(new) : r.at \in Nat /\ r.at <= toNow
      BY <1>1, <2>8, <2>10, <3>1
    <3> QED  BY <3>2 DEF ToSet
  <2>12. PICK i \in DOMAIN new : new[i] = result
    BY <2>8 DEF ToSet
  <2>13. CASE d \in ToDomains /\ toAnswers' = [toAnswers EXCEPT ![d] = answer]
    <3>1. \A k \in ResultsOf(d) : toResults[k].at <= answer.result.at
      BY <2>10 DEF ResultsInv, ResultsOf
    <3>2. \E k \in DOMAIN toResults' : toResults'[k].domain = d /\ toResults'[k] = answer.result
      BY <2>6, <2>10, <2>12
    <3> QED  BY <2>4, <2>5, <2>6, <2>8, <2>9, <2>10, <2>11, <2>13, <3>1, <3>2, AnswerGiven
  <2>14. CASE \A x \in ToDomains : toAnswers'[x] = toAnswers[x]
    <3>1. PICK answers : answers = toAnswers'
      OBVIOUS
    <3>2. DOMAIN answers = ToDomains
      BY <2>4, <3>1 DEF ResultsInv
    <3>3. \A x \in ToDomains : answers[x].kind = "answer" =>
            \E k \in DOMAIN new : new[k].domain = x /\ new[k] = answers[x].result
      BY <2>5, <2>9, <2>14, <3>1 DEF ResultsInv, ResultsOf
    <3>4. \A x \in ToDomains : AnswerMoves(x)
      BY <2>14 DEF AnswerMoves
    <3>5. IsSeq(toResults)'
      BY <2>6, <2>8 DEF IsSeq
    <3> QED  BY <1>1, <2>4, <2>6, <2>11, <3>1, <3>2, <3>3, <3>4, <3>5 DEF ResultsInv, ResultsOf
  <2>15. d \notin ToDomains => \A x \in ToDomains : toAnswers'[x] = toAnswers[x]
    BY <2>4 DEF ResultsInv
  <2> QED  BY <2>4, <2>13, <2>14, <2>15
<1>4. ASSUME UNCHANGED <<toResults, toAnswers>>, toNow' = toNow \/ toNow' = toNow + 1
      PROVE  ResultsInv' /\ \A x \in ToDomains : AnswerMoves(x)
  BY <1>1, <1>4, AnswersStay
<1>5. CASE \/ \E d \in ToDomains : Scan(d) \/ \E refresh \in BOOLEAN : CheckRefresh(d, refresh)
           \/ \E j \in DOMAIN toJobs : RunJob(j)
           \/ \E scan \in toScans : ScanFails(scan)
           \/ OracleRestart \/ ToTick \/ UNCHANGED toVars
  <2>1. UNCHANGED <<toResults, toAnswers>> /\ (toNow' = toNow \/ toNow' = toNow + 1)
    BY <1>5 DEF Scan, CheckRefresh, RunJob, ScanFails, OracleRestart, ToTick, toVars
  <2> QED  BY <1>4, <2>1
<1>6. CASE ToNext
  <2>1. \/ \E d \in ToDomains : CheckCached(d)
        \/ \E scan \in toScans, s \in ToSignals : ScanEnds(scan, s)
        \/ \E d \in ToDomains : Scan(d) \/ \E refresh \in BOOLEAN : CheckRefresh(d, refresh)
        \/ \E j \in DOMAIN toJobs : RunJob(j)
        \/ \E scan \in toScans : ScanFails(scan)
        \/ OracleRestart \/ ToTick
    BY <1>6 DEF ToNext
  <2>2. CASE \E d \in ToDomains : CheckCached(d)
    BY <1>2, <2>2
  <2>3. CASE \E scan \in toScans, s \in ToSignals : ScanEnds(scan, s)
    BY <1>3, <2>3
  <2> QED  BY <1>5, <2>1, <2>2, <2>3
<1> QED  BY <1>5, <1>6

LEMMA RecordSteps == ASSUME [Next]_Vars PROVE [GwNext]_gwVars /\ [ToNext]_toVars
<1>1. CASE UNCHANGED Vars
  BY <1>1 DEF Vars
<1>2. CASE Next
  <2>1. [GwNext]_gwVars
    BY <1>2 DEF Next, Alone
  <2>2. [ToNext]_toVars
    BY <1>2 DEF Next, Alone
  <2> QED  BY <2>1, <2>2
<1> QED  BY <1>1, <1>2

\* What one request recorded for a domain is not taken back by another that
\* read before it: the flags of the store stay set (upsert), and the signal a
\* domain is given never goes back in time (/v1/check), whatever scans cross and
\* however the oracle restarts.
THEOREM RecordsDoSurvive == Spec => RecordsSurvive
<1> DEFINE Inv == LedgerInv /\ StoreInv /\ ResultsInv
<1>1. Init => Inv
  <2>1. GwInit => StoreInv
    <3> SUFFICES ASSUME GwInit PROVE StoreInv
      OBVIOUS
    <3>1. EntryShape(EmptyEntry)
      BY DEF EntryShape, EmptyEntry
    <3>2. DOMAIN domainStore = GwDomains /\ \A d \in GwDomains : domainStore[d] = EmptyEntry
      BY DEF GwInit
    <3>3. \A r \in gwInFlight : RenewalOK(r)
      BY DEF GwInit
    <3> QED  BY <3>1, <3>2, <3>3 DEF StoreInv
  <2>2. ToInit => ResultsInv
    BY DEF ToInit, ResultsInv, IsSeq, ToNoAnswer
  <2> QED  BY <2>1, <2>2, GwInit_Ledger DEF Init
<1>2. Inv /\ [Next]_Vars => /\ Inv' /\ StoreGrows
                            /\ \A d \in ToDomains : AnswerMoves(d)
  <2> SUFFICES ASSUME Inv, [Next]_Vars
               PROVE  Inv' /\ StoreGrows /\ \A d \in ToDomains : AnswerMoves(d)
    OBVIOUS
  <2>1. LedgerInv' /\ StoreGrows /\ ResultsInv' /\ \A d \in ToDomains : AnswerMoves(d)
    BY RecordSteps, GwNext_Ledger, GwNext_Store, ToNext_Results
  <2>2. PICK store : store = domainStore'
    OBVIOUS
  <2>3. DOMAIN store = GwDomains /\ \A d \in GwDomains : EntryShape(store[d])
    BY <2>1, <2>2 DEF StoreGrows, FlagsGrow
  <2>4. StoreInv'
    BY <2>1, <2>2, <2>3 DEF StoreInv, LedgerInv
  <2> QED  BY <2>1, <2>4
<1>3. StoreGrows =>
        \A d \in GwDomains :
          /\ domainStore[d].claim => domainStore'[d].claim
          /\ domainStore[d].acked => domainStore'[d].acked
          /\ domainStore[d].challenge => domainStore'[d].challenge
  BY DEF StoreGrows, FlagsGrow
<1>4. (\A d \in ToDomains : AnswerMoves(d)) =>
        \A d \in ToDomains : toAnswers'[d] # toAnswers[d] =>
          /\ \/ toAnswers'[d].result.at = toNow
             \/ toNow - toAnswers'[d].result.at < ToCacheTtl
          /\ toAnswers[d].kind = "answer" =>
               toAnswers'[d].result.at >= toAnswers[d].result.at
  BY DEF AnswerMoves
<1> QED
  BY <1>1, <1>2, <1>3, <1>4, PTL DEF Spec, RecordsSurvive, StoredFlagsSurvive, SignalsNeverGoBack

-----------------------------------------------------------------------------
(***************************************************************************)
(* The .dns registry of the gateway: for any snapshots and names.          *)
(***************************************************************************)

IsSnapshot(records) == IsSeq(records) /\ \A i \in DOMAIN records : records[i].name \in Nat

LEMMA LeastIsMin ==
  ASSUME NEW S \in SUBSET Nat, NEW n \in S, \A m \in S : n <= m
  PROVE  Min(S) = n
<1>1. PICK least : least = Min(S)
  OBVIOUS
<1>2. least \in S /\ \A m \in S : least =< m
  BY <1>1 DEF Min
<1>3. least \in Nat /\ n \in Nat /\ least <= n /\ n <= least
  BY <1>2
<1> QED  BY <1>1, <1>3

\* The first of sorted things is the one nothing comes before; they are as
\* many as their places, and each place is taken once.
LEMMA SortedPlaces ==
  ASSUME NEW records, IsSnapshot(records)
  PROVE  \A i \in DOMAIN records :
           LET place == Cardinality(SortsBefore(records, i)) + 1
           IN  place \in DOMAIN records /\ Sorted(records, place) = i
<1>1. PICK n \in Nat : DOMAIN records = 1..n
  <2>1. records \in Seq({records[i] : i \in DOMAIN records})
    BY DEF IsSnapshot, IsSeq
  <2>2. Len(records) \in Nat /\ DOMAIN records = 1..Len(records)
    BY <2>1
  <2> QED  BY <2>2
<1>2. \A i \in 1..n : records[i].name \in Int /\ i \in Int
  BY <1>1 DEF IsSnapshot
<1>3. IsFiniteSet(1..n) /\ Cardinality(1..n) = n
  BY FS_Interval
<1>4. \A i \in 1..n : SortsBefore(records, i) \in SUBSET (1..n) /\ i \notin SortsBefore(records, i)
  BY <1>1, <1>2 DEF SortsBefore
<1>5. ASSUME NEW i \in 1..n, NEW j \in 1..n, j \in SortsBefore(records, i)
      PROVE  Cardinality(SortsBefore(records, j)) < Cardinality(SortsBefore(records, i))
  <2>1. SortsBefore(records, j) \subseteq SortsBefore(records, i)
    BY <1>1, <1>2, <1>5 DEF SortsBefore
  <2>2. IsFiniteSet(SortsBefore(records, i))
    BY <1>3, <1>4, FS_Subset
  <2>3. SortsBefore(records, j) # SortsBefore(records, i)
    BY <1>4, <1>5
  <2> QED  BY <2>1, <2>2, <2>3, FS_Subset, FS_CardinalityType
<1>6. \A i \in 1..n : Cardinality(SortsBefore(records, i)) \in Nat
  BY <1>3, <1>4, FS_Subset, FS_CardinalityType
<1>7. ASSUME NEW i \in 1..n
      PROVE  Cardinality(SortsBefore(records, i)) < n
  <2>1. SortsBefore(records, i) \subseteq 1..n /\ SortsBefore(records, i) # 1..n
    BY <1>4
  <2> QED  BY <1>3, <2>1, FS_Subset, FS_CardinalityType
<1>8. \A i, j \in 1..n :
        Cardinality(SortsBefore(records, i)) = Cardinality(SortsBefore(records, j)) => i = j
  <2>1. TAKE i \in 1..n, j \in 1..n
  <2>2. i = j \/ i \in SortsBefore(records, j) \/ j \in SortsBefore(records, i)
    BY <1>1, <1>2 DEF SortsBefore
  <2> QED  BY <1>5, <1>6, <2>2
<1> SUFFICES ASSUME NEW i \in 1..n
             PROVE  /\ Cardinality(SortsBefore(records, i)) + 1 \in 1..n
                    /\ Sorted(records, Cardinality(SortsBefore(records, i)) + 1) = i
  BY <1>1
<1>9. PICK c : c = Cardinality(SortsBefore(records, i))
  OBVIOUS
<1>10. c \in Nat /\ c < n /\ (c + 1) - 1 = c
  BY <1>6, <1>7, <1>9
<1>11. Sorted(records, c + 1) = CHOOSE j \in 1..n : Cardinality(SortsBefore(records, j)) = c
  BY <1>1, <1>10 DEF Sorted
<1>12. Sorted(records, c + 1) \in 1..n
       /\ Cardinality(SortsBefore(records, Sorted(records, c + 1))) = c
  BY <1>9, <1>11
<1> QED  BY <1>8, <1>9, <1>10, <1>12

\* The first leaf of a name is the record of its first entry.
LEMMA FirstLeaf ==
  ASSUME NEW records, IsSnapshot(records), NEW name,
         \E i \in DOMAIN records : records[i].name = name
  PROVE  BuildProof(records, name).leaf = HashLeaf(FirstEntry(records, name))
<1>1. PICK n \in Nat : DOMAIN records = 1..n
  <2>1. records \in Seq({records[i] : i \in DOMAIN records})
    BY DEF IsSnapshot, IsSeq
  <2>2. Len(records) \in Nat /\ DOMAIN records = 1..Len(records)
    BY <2>1
  <2> QED  BY <2>2
<1>2. PICK named : named = {i \in DOMAIN records : records[i].name = name}
  OBVIOUS
<1>3. named \in SUBSET Nat /\ named # {}
  BY <1>1, <1>2
<1>4. PICK first \in named : \A i \in named : first <= i
  <2>1. PICK id : id = [i \in named |-> i]
    OBVIOUS
  <2>2. \A i \in named : id[i] = i /\ id[i] \in Nat
    BY <1>3, <2>1
  <2>3. PICK i \in named : \A j \in named : id[i] <= id[j]
    BY <1>3, <2>2, LeastMember
  <2> QED  BY <2>2, <2>3
<1>5. FirstEntry(records, name) = records[first]
  <2>1. Min(named) = first
    BY <1>3, <1>4, LeastIsMin
  <2> QED  BY <1>2, <2>1 DEF FirstEntry
<1>6. PICK place : place = Cardinality(SortsBefore(records, first)) + 1
  OBVIOUS
<1>7. first \in DOMAIN records /\ place \in DOMAIN records /\ Sorted(records, place) = first
  BY <1>2, <1>6, SortedPlaces
<1>8. PICK leaves : leaves = BuildLeaves(records)
  OBVIOUS
<1>9. /\ DOMAIN leaves = DOMAIN records
      /\ \A k \in DOMAIN records :
           /\ leaves[k].name = records[Sorted(records, k)].name
           /\ leaves[k].hash = HashLeaf(records[Sorted(records, k)])
  BY <1>8 DEF BuildLeaves
<1>10. PICK found : found = {k \in DOMAIN leaves : leaves[k].name = name}
  OBVIOUS
<1>11. place \in found
  BY <1>2, <1>4, <1>7, <1>9, <1>10
<1>12. found \in SUBSET Nat
  BY <1>1, <1>9, <1>10
<1>13. ASSUME NEW k \in found, k < place PROVE FALSE
  <2>1. PICK i \in named : Cardinality(SortsBefore(records, i)) + 1 = k
    \* Every place is one of a record, as they are as many.
    <3>1. PICK f : f = [i \in 1..n |-> Cardinality(SortsBefore(records, i)) + 1]
      OBVIOUS
    <3>2. f \in [1..n -> 1..n] /\ \A i \in 1..n : Sorted(records, f[i]) = i
      BY <1>1, <3>1, SortedPlaces
    <3>3. f \in Injection(1..n, 1..n)
      <4>1. \A i, j \in 1..n : f[i] = f[j] => i = j
        BY <3>2
      <4> QED  BY <3>2, <4>1 DEF Injection, IsInjective
    <3>4. f \in Surjection(1..n, 1..n)
      BY <3>3, FS_Interval, FS_Injection
    <3>5. PICK i \in 1..n : f[i] = k
      BY <1>1, <1>9, <1>10, <3>4 DEF Surjection
    <3>6. records[i].name = name
      BY <1>1, <1>9, <1>10, <3>2, <3>5
    <3> QED  BY <1>1, <1>2, <3>1, <3>5, <3>6
  <2>2. first <= i /\ first \in 1..n /\ i \in 1..n
    BY <1>1, <1>2, <1>4
  <2>3. first # i
    BY <1>6, <1>13, <1>12, <2>1
  <2>4. SortsBefore(records, first) \subseteq SortsBefore(records, i)
    BY <1>1, <1>2, <1>4, <2>2, <2>3 DEF SortsBefore
  <2>5. IsFiniteSet(SortsBefore(records, i))
    <3>1. SortsBefore(records, i) \in SUBSET (1..n) /\ IsFiniteSet(1..n)
      BY <1>1, FS_Interval DEF SortsBefore
    <3> QED  BY <3>1, FS_Subset
  <2>6. /\ Cardinality(SortsBefore(records, first)) <= Cardinality(SortsBefore(records, i))
        /\ Cardinality(SortsBefore(records, first)) \in Nat
        /\ Cardinality(SortsBefore(records, i)) \in Nat
    BY <2>4, <2>5, FS_Subset, FS_CardinalityType
  <2> QED  BY <1>6, <1>13, <2>1, <2>6
<1>14. Min(found) = place
  <2>1. \A k \in found : place <= k
    BY <1>1, <1>7, <1>12, <1>13
  <2> QED  BY <1>11, <1>12, <2>1, LeastIsMin
<1>15. BuildProof(records, name).leaf = leaves[Min(found)].hash
  BY <1>8, <1>10, <1>11 DEF BuildProof
<1> QED  BY <1>5, <1>7, <1>9, <1>14, <1>15

\* Snapshots have names that sort, in the file and in the copy of it.
RegistryInv ==
  /\ IsSnapshot(rgFile) /\ IsSnapshot(rgCached.records)
  /\ AnswersProvable

LEMMA SnapshotsAre ==
  /\ IsSnapshot(<<>>)
  /\ \A records \in RgSnapshots : IsSnapshot(records)
<1>1. IsSnapshot(<<>>)
  BY EmptyIsSeq DEF IsSnapshot
<1>2. ASSUME NEW records \in RgSnapshots PROVE IsSnapshot(records)
  BY RgAssumption DEF IsSnapshot, IsSeq
<1> QED  BY <1>1, <1>2

LEMMA RgInit_Registry == ASSUME RgInit PROVE RegistryInv
<1>1. rgFile \in RgSnapshots /\ rgCached.records = <<>> /\ rgAnswer.records = {}
  BY DEF RgInit, NothingCached, NoRgAnswer
<1> QED  BY <1>1, SnapshotsAre DEF RegistryInv, AnswersProvable

LEMMA RgNext_Registry ==
  ASSUME RegistryInv, [RgNext]_rgVars
  PROVE  RegistryInv'
<1>1. PICK loaded : loaded = LoadSnapshot
  OBVIOUS
<1>2. IsSnapshot(loaded.records)
  BY <1>1 DEF RegistryInv, LoadSnapshot
<1>3. ASSUME rgCached' = LoadSnapshot, UNCHANGED rgFile
      PROVE  IsSnapshot(rgFile') /\ IsSnapshot(rgCached'.records)
  <2>1. rgCached'.records = loaded.records /\ rgFile' = rgFile
    BY <1>1, <1>3
  <2> QED  BY <1>2, <2>1 DEF RegistryInv
<1>4. CASE ResolveDns
  <2>1. PICK name, answer :
          /\ rgAnswer' = answer
          /\ \/ answer = NoRgAnswer
             \/ /\ \E i \in DOMAIN loaded.records : loaded.records[i].name = name
                /\ VerifyProof(BuildMerkleRoot(loaded.records), BuildProof(loaded.records, name))
                /\ answer = [records |-> {FirstEntry(loaded.records, name)},
                             root |-> BuildMerkleRoot(loaded.records),
                             proof |-> <<BuildProof(loaded.records, name)>>, name |-> name]
    BY <1>1, <1>4 DEF ResolveDns
  <2>2. AnswersProvable'
    <3>1. CASE answer = NoRgAnswer
      BY <2>1, <3>1 DEF NoRgAnswer, AnswersProvable
    <3>2. CASE answer # NoRgAnswer
      <4>1. PICK record : record = FirstEntry(loaded.records, name)
        OBVIOUS
      <4>2. PICK proof : proof = BuildProof(loaded.records, name)
        OBVIOUS
      <4>3. PICK root : root = BuildMerkleRoot(loaded.records)
        OBVIOUS
      <4>4. proof.leaf = HashLeaf(record)
        BY <1>2, <2>1, <3>2, <4>1, <4>2, FirstLeaf
      <4>5. /\ rgAnswer'.records = {record} /\ rgAnswer'.proof[1] = proof
            /\ rgAnswer'.root = root /\ VerifyProof(root, proof)
        BY <2>1, <3>2, <4>1, <4>2, <4>3
      <4>6. proof.leaf \in {HashLeaf(r) : r \in rgAnswer'.records}
        BY <4>4, <4>5
      <4>7. VerifyProof(rgAnswer'.root, rgAnswer'.proof[1])
        BY <4>5
      <4> QED  BY <4>5, <4>6, <4>7 DEF AnswersProvable
    <3> QED  BY <3>1, <3>2
  <2>3. IsSnapshot(rgFile') /\ IsSnapshot(rgCached'.records)
    BY <1>3, <1>4 DEF ResolveDns
  <2> QED  BY <2>2, <2>3 DEF RegistryInv
<1>5. CASE RegistryRoot
  <2>1. IsSnapshot(rgFile') /\ IsSnapshot(rgCached'.records)
    BY <1>3, <1>5 DEF RegistryRoot
  <2> QED  BY <1>5, <2>1 DEF RegistryRoot, RegistryInv, AnswersProvable
<1>6. CASE RegistryProof
  <2>1. rgAnswer'.records = {}
    BY <1>6 DEF RegistryProof
  <2>2. IsSnapshot(rgFile') /\ IsSnapshot(rgCached'.records)
    BY <1>3, <1>6 DEF RegistryProof
  <2> QED  BY <2>1, <2>2 DEF RegistryInv, AnswersProvable
<1>7. CASE SnapshotWritten
  BY <1>7, SnapshotsAre DEF SnapshotWritten, RegistryInv, AnswersProvable
<1>8. CASE RgRestart
  <2>1. rgAnswer'.records = {} /\ rgCached'.records = <<>> /\ rgFile' = rgFile
    BY <1>8 DEF RgRestart, NothingCached, NoRgAnswer
  <2> QED  BY <2>1, SnapshotsAre DEF RegistryInv, AnswersProvable
<1>9. CASE RegistryAnchor \/ RgTick \/ UNCHANGED rgVars
  BY <1>9 DEF RegistryAnchor, RgTick, rgVars, RegistryInv, AnswersProvable
<1> QED  BY <1>4, <1>5, <1>6, <1>7, <1>8, <1>9 DEF RgNext

LEMMA RegistrySteps == ASSUME [Next]_Vars PROVE [RgNext]_rgVars
<1>1. CASE UNCHANGED Vars
  BY <1>1 DEF Vars
<1>2. CASE Next
  BY <1>2 DEF Next, Alone
<1> QED  BY <1>1, <1>2

\* A .dns answer of the gateway carries the leaf of the record it gives and a
\* path from it to the root it gives, however stale the copy of the snapshot
\* and however often a name is in it (/resolve: buildProof finds the first leaf
\* of the sorted records, the answer the first entry of the file).
THEOREM AnswersAreProvable == Spec => []AnswersProvable
<1>1. Init => RegistryInv
  BY RgInit_Registry DEF Init
<1>2. RegistryInv /\ [Next]_Vars => RegistryInv'
  BY RegistrySteps, RgNext_Registry
<1>3. RegistryInv => AnswersProvable
  BY DEF RegistryInv
<1> QED  BY <1>1, <1>2, <1>3, PTL DEF Spec

-----------------------------------------------------------------------------
(***************************************************************************)
(* The types of what the services keep, for every value of the constants.  *)
(***************************************************************************)

PassesTyped ==
  /\ anVersion \in AnVersions \cup {None}
  /\ \A k \in DOMAIN tollPasses : tollPasses[k] \in [name: AnNames, mint: AnMints]
  /\ \A n \in DOMAIN nameRecords : nameRecords[n] \in [owner: Keys, mint: AnMints]

LEMMA InitializeTyped ==
  ASSUME PassesTyped, NEW k, NEW v \in AnVersions, Initialize(k, v) \/ SetVersion(k, v)
  PROVE  PassesTyped'
BY DEF Initialize, SetVersion, passVars, PassesTyped

LEMMA PassIssuedTyped ==
  ASSUME PassesTyped, NEW k \in Keys, NEW n \in AnNames, NEW m \in AnMints,
         IssueTollPass(k, n, m)
  PROVE  PassesTyped'
<1>1. PICK pass, record : pass = TollPass(n, m) /\ record = NameRecord(k, m)
  OBVIOUS
<1>2. pass \in [name: AnNames, mint: AnMints] /\ record \in [owner: Keys, mint: AnMints]
  BY <1>1 DEF TollPass, NameRecord
<1>3. /\ tollPasses' = Created(tollPasses, k, pass)
      /\ nameRecords' = Created(nameRecords, n, record)
      /\ UNCHANGED anVersion
  BY <1>1 DEF IssueTollPass
<1> QED  BY <1>2, <1>3 DEF PassesTyped, Created

LEMMA SetRouteTyped ==
  ASSUME PassesTyped, NEW k, NEW n, NEW dest, NEW ttl, SetRoute(k, n, dest, ttl)
  PROVE  PassesTyped'
BY DEF SetRoute, passVars, PassesTyped

LEMMA AnNext_Typed == PassesTyped /\ AnNext => PassesTyped'
<1> SUFFICES ASSUME PassesTyped, AnNext PROVE PassesTyped'
  OBVIOUS
<1>1. CASE \E k \in Keys, a \in AnAmounts, d \in LockDays, v \in Keys \cup {None} :
             LockTokens(k, a, d, v) \/ UnlockTokens(k)
  BY <1>1 DEF LockTokens, UnlockTokens, passVars, PassesTyped
<1>2. CASE \E k \in Keys : UnlockTokens(k)
  BY <1>2 DEF UnlockTokens, passVars, PassesTyped
<1> QED  BY <1>1, <1>2, InitializeTyped, PassIssuedTyped, SetRouteTyped DEF AnNext

LEMMA RpNext_Typed ==
  PassesTyped /\ rrWriteErrors \in Nat /\ RpNext => PassesTyped' /\ rrWriteErrors' \in Nat
<1> SUFFICES ASSUME PassesTyped, rrWriteErrors \in Nat, RpNext
             PROVE  PassesTyped' /\ rrWriteErrors' \in Nat
  OBVIOUS
<1>1. UNCHANGED anVars => PassesTyped'
  BY DEF anVars, passVars, PassesTyped
<1>2. ASSUME NEW k, Initialize(k, 1), UNCHANGED <<rpVars, rrVars>>
      PROVE  PassesTyped' /\ rrWriteErrors' \in Nat
  BY <1>2, AnAssumption, InitializeTyped DEF rrVars
<1>3. ASSUME NEW r, NEW w, RouteCreate(r) \/ RouteSignWitness(r, w)
      PROVE  PassesTyped' /\ rrWriteErrors' \in Nat
  BY <1>1, <1>3 DEF RouteCreate, RouteSignWitness, rrVars
<1>4. ASSUME NEW k \in RrOwners, NEW n \in AnNames, NEW m \in AnMints, NEW answers,
             MintTollPass(k, n, m, answers)
      PROVE  PassesTyped' /\ rrWriteErrors' \in Nat
  <2>1. k \in Keys
    BY RpAssumption
  <2> QED  BY <1>4, <2>1, PassIssuedTyped DEF MintTollPass, PassIssuedTo
<1>5. ASSUME NEW k, NEW n, NEW dest, NEW mode, NEW answers,
             SetRouteStart(k, n, dest, mode, answers)
      PROVE  PassesTyped' /\ rrWriteErrors' \in Nat
  BY <1>1, <1>5 DEF SetRouteStart, SubmitRoute
<1>6. ASSUME NEW k, BoothStores(k) \/ BoothRefuses(k)
      PROVE  PassesTyped' /\ rrWriteErrors' \in Nat
  BY <1>1, <1>6 DEF BoothStores, BoothRefuses, StoredOf, RefusedOf, FailedOf
<1>7. ASSUME NEW k, RouteSent(k) PROVE PassesTyped' /\ rrWriteErrors' \in Nat
  BY <1>1, <1>7, SetRouteTyped DEF RouteSent, rrVars
<1>8. CASE BoothCrashes
  BY <1>1, <1>8 DEF BoothCrashes, RrCrash
<1> QED  BY <1>2, <1>3, <1>4, <1>5, <1>6, <1>7, <1>8 DEF RpNext

LEMMA RrNext_Typed == rrWriteErrors \in Nat /\ RrNext => rrWriteErrors' \in Nat
BY DEF RrNext, Submit, SubmitRoute, RrCrash, StoredOf, RefusedOf, FailedOf, PassIssuedTo

\* A request of the booth: one past its look at the chain has a mint.
BoothRequestTyped(r) ==
  /\ Shaped(r) /\ r.wallet \in TbWallets /\ r.name \in AnNames
  /\ r.kind = "claim" /\ r.step \in {"send", "sent"} => r.mint \in AnMints

BoothTyped ==
  tbNonce \in 0..TbMaxNonce /\ \A r \in tbRequests : BoothRequestTyped(r)

LEMMA RequestMoves ==
  ASSUME BoothTyped, NEW r \in tbRequests, NEW p,
         p \in {"send", "sent"} /\ r.kind = "claim" => r.mint \in AnMints,
         TbMoves(r, [r EXCEPT !.step = p]), UNCHANGED tbNonce
  PROVE  BoothTyped'
<1>1. PICK s : s = [r EXCEPT !.step = p]
  OBVIOUS
<1>2. BoothRequestTyped(s)
  BY <1>1, StepIs DEF BoothTyped, BoothRequestTyped
<1> QED  BY <1>1, <1>2 DEF TbMoves, BoothTyped

LEMMA RequestEnds ==
  ASSUME BoothTyped, NEW r, TbEnds(r), UNCHANGED tbNonce PROVE BoothTyped'
BY DEF TbEnds, BoothTyped

LEMMA TbNext_Typed == PassesTyped /\ BoothTyped /\ TbNext => PassesTyped' /\ BoothTyped'
<1> SUFFICES ASSUME PassesTyped, BoothTyped, TbNext PROVE PassesTyped' /\ BoothTyped'
  OBVIOUS
<1>1. UNCHANGED anVars => PassesTyped'
  BY DEF anVars, passVars, PassesTyped
<1>2. TbOnly => UNCHANGED tbNonce
  BY DEF TbOnly
<1>3. ASSUME NEW w, TbChallenge(w) \/ TbExpire(w) PROVE PassesTyped' /\ BoothTyped'
  BY <1>1, <1>3, TbAssumption DEF TbChallenge, TbExpire, BoothTyped
<1>4. ASSUME NEW w \in TbWallets, NEW x, NEW s, NEW n \in AnNames, NEW d,
             TbClaimPassport(w, x, s, n) \/ TbAssignRoute(w, x, s, n, d)
      PROVE  PassesTyped' /\ BoothTyped'
  <2>1. ASSUME NEW kind, NEW to, TbConsume(w, x, s, TbRequest(w, x, kind, n, to))
        PROVE  PassesTyped' /\ BoothTyped'
    <3>1. PICK q : q = TbRequest(w, x, kind, n, to)
      OBVIOUS
    <3>2. BoothRequestTyped(q)
      BY <3>1 DEF TbRequest, BoothRequestTyped, Shaped
    <3>3. tbRequests' \subseteq tbRequests \cup {q} /\ UNCHANGED <<tbNonce, anVars>>
      BY <2>1, <3>1 DEF TbConsume
    <3> QED  BY <1>1, <3>2, <3>3 DEF BoothTyped
  <2> QED  BY <1>4, <2>1 DEF TbClaimPassport, TbAssignRoute
<1>5. ASSUME NEW r \in tbRequests, TbEnsureInitialized(r) PROVE PassesTyped' /\ BoothTyped'
  <2>1. PassesTyped'
    BY <1>1, <1>5, AnAssumption, InitializeTyped DEF TbEnsureInitialized
  <2>2. BoothTyped'
    BY <1>2, <1>5, RequestMoves, RequestEnds DEF TbEnsureInitialized, TbHears
  <2> QED  BY <2>1, <2>2
<1>6. ASSUME NEW r \in tbRequests, NEW m \in AnMints, TbLookForPass(r, m)
      PROVE  PassesTyped' /\ BoothTyped'
  <2>1. PICK w, x, k, n, d, p0, m0 :
          r = [wallet |-> w, nonce |-> x, kind |-> k, name |-> n, dest |-> d,
               step |-> p0, mint |-> m0]
    BY DEF BoothTyped, BoothRequestTyped, Shaped
  <2>2. w \in TbWallets /\ n \in AnNames
    BY <2>1 DEF BoothTyped, BoothRequestTyped
  <2>3. PICK mint : mint = PassportOf(r.wallet)
    OBVIOUS
  <2>4. PICK s : /\ TbMoves(r, s)
                 /\ \/ s = [r EXCEPT !.step = "send", !.mint = m]
                    \/ s = [r EXCEPT !.step = "write", !.mint = mint]
    BY <1>6, <2>3 DEF TbLookForPass
  <2>5. \/ s = [wallet |-> w, nonce |-> x, kind |-> k, name |-> n, dest |-> d,
                step |-> "send", mint |-> m]
        \/ s = [wallet |-> w, nonce |-> x, kind |-> k, name |-> n, dest |-> d,
                step |-> "write", mint |-> mint]
    BY <2>1, <2>4
  <2>6. BoothRequestTyped(s)
    BY <2>2, <2>5 DEF BoothRequestTyped, Shaped
  <2>7. UNCHANGED <<tbNonce, anVars>>
    BY <1>6, <1>2 DEF TbLookForPass
  <2> QED  BY <1>1, <2>4, <2>6, <2>7 DEF TbMoves, BoothTyped
<1>7. ASSUME NEW r \in tbRequests, TbLookForRoute(r) \/ TbSend(r) \/ TbLocalFallback(r)
      PROVE  PassesTyped' /\ BoothTyped'
  <2>1. /\ UNCHANGED <<tbNonce, anVars>>
        /\ r.kind = "claim" /\ r.step = "send" => r.mint \in AnMints
    BY <1>2, <1>7 DEF TbLookForRoute, TbSend, TbLocalFallback, BoothTyped, BoothRequestTyped
  <2>2. BoothTyped'
    BY <1>7, <2>1, RequestMoves, RequestEnds DEF TbLookForRoute, TbSend, TbLocalFallback
  <2> QED  BY <1>1, <2>1, <2>2
<1>8. ASSUME NEW r \in tbRequests, TbConfirmIssue(r) PROVE PassesTyped' /\ BoothTyped'
  <2>1. r.wallet \in Keys /\ r.name \in AnNames /\ r.mint \in AnMints
    BY <1>8, TbAssumption DEF TbConfirmIssue, BoothTyped, BoothRequestTyped
  <2>2. PassesTyped'
    BY <1>1, <1>8, <2>1, PassIssuedTyped DEF TbConfirmIssue
  <2>3. BoothTyped'
    BY <1>2, <1>8, RequestMoves, RequestEnds DEF TbConfirmIssue, TbHears
  <2> QED  BY <2>2, <2>3
<1>9. ASSUME NEW r \in tbRequests, TbConfirmRoute(r) PROVE PassesTyped' /\ BoothTyped'
  <2>1. PassesTyped'
    BY <1>1, <1>9, SetRouteTyped DEF TbConfirmRoute
  <2>2. BoothTyped'
    BY <1>2, <1>9, RequestMoves, RequestEnds DEF TbConfirmRoute, TbHears
  <2> QED  BY <2>1, <2>2
<1>10. ASSUME NEW r \in tbRequests, TbRefused(r) \/ TbWritePassport(r) \/ TbWriteRoute(r)
       PROVE  PassesTyped' /\ BoothTyped'
  BY <1>1, <1>2, <1>10, RequestEnds DEF TbRefused, TbWritePassport, TbWriteRoute
<1>11. CASE TbRestart
  BY <1>1, <1>11 DEF TbRestart, BoothTyped
<1> QED  BY <1>3, <1>4, <1>5, <1>6, <1>7, <1>8, <1>9, <1>10, <1>11 DEF TbNext

-----------------------------------------------------------------------------
\* Reputation: one configuration for good, and points within its cap.
RepTyped ==
  /\ repConfig = None \/ repConfig \in RepConfigType
  /\ repConfig = None => DOMAIN epochRep = {}
  /\ \A r \in DOMAIN epochRep : epochRep[r].points \in 0..repConfig.cap

LEMMA RepConfigMade ==
  ASSUME RepTyped, NEW k \in Keys, NEW c \in RepConfigs, InitRepConfig(k, c)
  PROVE  RepTyped'
<1>1. c \in RepConfigType
  BY AnAssumption
<1>2. repConfig' \in RepConfigType
  BY <1>1 DEF InitRepConfig, RepConfigType
<1>3. DOMAIN epochRep' = {}
  BY DEF InitRepConfig, RepTyped
<1> QED  BY <1>2, <1>3 DEF RepTyped

LEMMA RepSwitched ==
  ASSUME RepTyped, NEW k, NEW b \in BOOLEAN, SetRepEnabled(k, b)
  PROVE  RepTyped'
<1>1. PICK c \in RepConfigType : c = repConfig
  BY DEF SetRepEnabled, RepTyped
<1>2. repConfig' = [c EXCEPT !.enabled = b] /\ UNCHANGED epochRep
  BY <1>1 DEF SetRepEnabled
<1>3. repConfig' \in RepConfigType /\ repConfig'.cap = c.cap
  BY <1>2 DEF RepConfigType
<1>4. repConfig' # None
  BY <1>3, AnAssumption
<1> QED  BY <1>1, <1>2, <1>3, <1>4 DEF RepTyped

\* Rounded down twice, raised by a tenth at most twice: still a number.
LEMMA RepPointsAreNat ==
  ASSUME repConfig \in RepConfigType, NEW n \in Nat, NEW s, NEW o, NEW l \in 0..2
  PROVE  RepPoints(n, s, o, l) \in Nat
<1>1. PICK b, m : b = repConfig.basePoints /\ m = repConfig.multiplier[l]
  OBVIOUS
<1>2. b \in Nat /\ m \in Nat
  BY <1>1 DEF RepConfigType
<1>3. PICK x : x = n * b
  OBVIOUS
<1>4. x \in Nat
  BY <1>2, <1>3
<1>5. PICK y : y = x * m
  OBVIOUS
<1>6. y \in Nat
  BY <1>2, <1>4, <1>5
<1>7. PICK base : base = y \div 10000
  OBVIOUS
<1>8. base \in Nat
  BY <1>6, <1>7
<1>9. PICK wide : wide = IF s >= repConfig.minSubdomains THEN (base * 11) \div 10 ELSE base
  OBVIOUS
<1>10. wide \in Nat
  BY <1>8, <1>9
<1>11. RepPoints(n, s, o, l)
       = IF o >= repConfig.minSources THEN (wide * 11) \div 10 ELSE wide
  BY <1>1, <1>3, <1>5, <1>7, <1>9 DEF RepPoints, MulBps, BpsDenom
<1> QED  BY <1>10, <1>11

LEMMA RepAwardedTyped ==
  ASSUME RepTyped, NEW k, NEW e, NEW x, NEW award,
         award[1] \in Nat, award[4] \in 0..2, AwardRep(k, e, x, award)
  PROVE  RepTyped'
<1>1. repConfig \in RepConfigType /\ UNCHANGED repConfig /\ repConfig # None
  BY DEF AwardRep, AwardAccounts, RepTyped
<1>2. PICK cap \in Nat : cap = repConfig.cap
  BY <1>1 DEF RepConfigType
<1>3. PICK old : old = EpochRep(e, x).points
  OBVIOUS
<1>4. old \in 0..cap
  BY <1>2, <1>3 DEF EpochRep, Exists, RepTyped
<1>5. PICK more : more = RepPoints(award[1], award[2], award[3], award[4])
  OBVIOUS
<1>6. more \in Nat
  BY <1>1, <1>5, RepPointsAreNat
<1>7. PICK new : /\ epochRep' = Created(epochRep, <<e, x>>, new)
                 /\ new.points = Lesser(old + more, cap)
  BY <1>2, <1>3, <1>5 DEF AwardRep
<1>8. new.points \in 0..cap
  BY <1>4, <1>6, <1>7 DEF Lesser
<1> QED  BY <1>1, <1>2, <1>7, <1>8 DEF RepTyped, Created

LEMMA RepNext_Typed == RepTyped /\ RepNext => RepTyped'
<1> SUFFICES ASSUME RepTyped, RepNext PROVE RepTyped'
  OBVIOUS
<1>1. ASSUME NEW k, NEW e, NEW x, NEW a \in RepEntries, AwardRep(k, e, x, a)
      PROVE  RepTyped'
  <2>1. a[1] \in Nat /\ a[4] \in 0..2
    BY AnAssumption
  <2> QED  BY <1>1, <2>1, RepAwardedTyped
<1> QED  BY <1>1, RepConfigMade, RepSwitched DEF RepNext

\* Cache heads are somebody's.
HeadsTyped ==
  \A n \in DOMAIN cacheHeads :
    /\ cacheHeads[n].owner \in Keys
    /\ \E root, e, b : cacheHeads[n] = DomainCacheHead(cacheHeads[n].owner, root, e, b)

LEMMA HeadMade ==
  ASSUME HeadsTyped, NEW n, NEW k \in Keys, InitCacheHead(n, k)
  PROVE  HeadsTyped'
<1>1. PICK head : head = DomainCacheHead(k, None, 0, TRUE)
  OBVIOUS
<1>2. head.owner = k
  BY <1>1 DEF DomainCacheHead
<1>3. cacheHeads' = Created(cacheHeads, n, head)
  BY <1>1 DEF InitCacheHead
<1>4. ASSUME NEW m \in DOMAIN cacheHeads'
      PROVE  (m = n /\ cacheHeads'[m] = head)
             \/ (m \in DOMAIN cacheHeads /\ cacheHeads'[m] = cacheHeads[m])
  BY <1>3 DEF Created
<1> QED  BY <1>1, <1>2, <1>4 DEF HeadsTyped

LEMMA HeadSet ==
  ASSUME HeadsTyped, NEW n, NEW k, NEW root, NEW e, SetCacheHead(n, k, root, e)
  PROVE  HeadsTyped'
<1>1. PICK head : head = DomainCacheHead(k, root, e, TRUE)
  OBVIOUS
<1>2. head.owner = k /\ k \in Keys
  BY <1>1 DEF DomainCacheHead, SetCacheHead, HeadAccounts, Exists, HeadsTyped
<1>3. cacheHeads' = [cacheHeads EXCEPT ![n] = head]
  BY <1>1 DEF SetCacheHead
<1>4. ASSUME NEW m \in DOMAIN cacheHeads'
      PROVE  cacheHeads'[m] = head
             \/ (m \in DOMAIN cacheHeads /\ cacheHeads'[m] = cacheHeads[m])
  BY <1>3
<1> QED  BY <1>1, <1>2, <1>4 DEF HeadsTyped

LEMMA HeadNext_Typed == HeadsTyped /\ HeadNext => HeadsTyped'
<1> SUFFICES ASSUME HeadsTyped, NEW n \in AnNames, NEW k \in Keys, NEW r, NEW e, NEW b,
                    NEW o \in Keys \cup {None},
                    \/ InitCacheHead(n, k) \/ SetCacheHead(n, k, r, e)
                    \/ SetCacheHeadEnabled(n, k, b) \/ CliHeadInit(k, n, o)
                    \/ CliHeadSet(k, n, r, e)
             PROVE  HeadsTyped'
  BY DEF HeadNext
<1>1. CASE SetCacheHeadEnabled(n, k, b)
  <2>1. PICK root, e0, b0 : cacheHeads[n] = DomainCacheHead(k, root, e0, b0)
    BY <1>1 DEF SetCacheHeadEnabled, HeadAccounts, Exists, HeadsTyped
  <2>2. PICK head : head = DomainCacheHead(k, root, e0, b)
    OBVIOUS
  <2>3. head = [cacheHeads[n] EXCEPT !.enabled = b] /\ head.owner = k
    BY <2>1, <2>2 DEF DomainCacheHead
  <2>4. k \in Keys /\ cacheHeads' = [cacheHeads EXCEPT ![n] = head]
    BY <1>1, <2>3 DEF SetCacheHeadEnabled, HeadAccounts
  <2>5. ASSUME NEW m \in DOMAIN cacheHeads'
        PROVE  cacheHeads'[m] = head
               \/ (m \in DOMAIN cacheHeads /\ cacheHeads'[m] = cacheHeads[m])
    BY <2>4
  <2>6. ASSUME NEW m \in DOMAIN cacheHeads'
        PROVE  /\ cacheHeads'[m].owner \in Keys
               /\ \E r1, e1, b1 : cacheHeads'[m] = DomainCacheHead(cacheHeads'[m].owner, r1, e1, b1)
    <3>1. CASE cacheHeads'[m] = head
      BY <2>2, <2>3, <2>4, <3>1
    <3>2. CASE m \in DOMAIN cacheHeads /\ cacheHeads'[m] = cacheHeads[m]
      BY <3>2 DEF HeadsTyped
    <3> QED  BY <2>5, <3>1, <3>2
  <2> QED  BY <2>6 DEF HeadsTyped
<1>2. CASE CliHeadInit(k, n, o)
  <2>1. PICK owner \in Keys : owner = IF o = None THEN k ELSE o
    OBVIOUS
  <2> QED  BY <1>2, <2>1, HeadMade DEF CliHeadInit
<1> QED  BY <1>1, <1>2, HeadMade, HeadSet DEF CliHeadSet

\* What the roll-up asks for a witness: a number of entries, a level.
LEMMA RepAwardTyped ==
  ASSUME NEW entries, IsSeq(entries), NEW w
  PROVE  RepAward(entries, w)[1] \in Nat /\ RepAward(entries, w)[4] \in 0..2
<1> DEFINE mine == {i \in DOMAIN entries : entries[i].witness = w}
           names == {entries[i].name : i \in mine}
           average == AverageConfidence(entries, mine)
<1>1. RepAward(entries, w)
      = <<Cardinality(mine), Cardinality(names), 1,
          CASE average >= 9000 -> 2 [] average \in 7000 .. 8999 -> 1 [] OTHER -> 0>>
  BY DEF RepAward
<1>2. Cardinality(mine) \in Nat
  <2>1. PICK n \in Nat : DOMAIN entries = 1..n
    <3>1. Len(entries) \in Nat /\ DOMAIN entries = 1..Len(entries)
      BY DEF IsSeq
    <3> QED  BY <3>1
  <2>2. mine \in SUBSET (1..n)
    BY <2>1
  <2> HIDE DEF mine
  <2>3. IsFiniteSet(1..n)
    BY FS_Interval
  <2>4. IsFiniteSet(mine)
    BY <2>2, <2>3, FS_Subset
  <2> QED  BY <2>4, FS_CardinalityType
<1> HIDE DEF mine, names, average
<1> QED  BY <1>1, <1>2

LEMMA CrNext_Typed ==
  RepTyped /\ HeadsTyped /\ RollupInv /\ CrNext => RepTyped' /\ HeadsTyped'
<1> SUFFICES ASSUME RepTyped, HeadsTyped, RollupInv, CrNext PROVE RepTyped' /\ HeadsTyped'
  OBVIOUS
<1>1. UNCHANGED repVars => RepTyped'
  BY DEF repVars, RepTyped
<1>2. UNCHANGED cacheHeads => HeadsTyped'
  BY DEF HeadsTyped
<1>3. CASE UNCHANGED <<repVars, cacheHeads>>
  BY <1>1, <1>2, <1>3
<1>4. ASSUME NEW j, MoveHead(j), UNCHANGED repVars PROVE RepTyped' /\ HeadsTyped'
  BY <1>1, <1>2, <1>4, HeadSet DEF MoveHead
<1>5. ASSUME NEW j \in DOMAIN crJobs, NEW w \in Keys, AwardWitness(j, w), UNCHANGED cacheHeads
      PROVE  RepTyped' /\ HeadsTyped'
  <2>1. CASE UNCHANGED repVars
    BY <1>1, <1>2, <1>5, <2>1
  <2>2. CASE AwardRep(RollupSigner, crJobs[j].epoch, w, RepAward(crJobs[j].entries, w))
    <3>1. PICK job : job = crJobs[j]
      OBVIOUS
    <3>2. job.parent \in AnNames /\ FirstKept(job.parent, job.entries)
      BY <1>5, <3>1 DEF AwardWitness, RollupInv, JobOfKept
    <3>3. IsSeq(crKept[job.parent])
      BY <3>2 DEF RollupInv
    <3>4. PICK kept, len : /\ kept = crKept[job.parent] /\ len \in 1 .. Len(kept)
                           /\ job.entries = SubSeq(kept, 1, len)
      BY <3>2 DEF FirstKept
    <3>5. IsSeq(job.entries)
      <4>1. kept \in Seq({kept[i] : i \in DOMAIN kept})
        BY <3>3, <3>4 DEF IsSeq
      <4>2. job.entries \in Seq({kept[i] : i \in DOMAIN kept})
        BY <3>4, <4>1
      <4>3. PICK n \in Nat : job.entries \in [1..n -> {kept[i] : i \in DOMAIN kept}]
        BY <4>2
      <4>4. job.entries \in [1..n -> {job.entries[i] : i \in DOMAIN job.entries}]
        BY <4>3
      <4> QED  BY <4>4 DEF IsSeq
    <3>6. PICK award : award = RepAward(job.entries, w)
      OBVIOUS
    <3>7. award[1] \in Nat /\ award[4] \in 0..2
      BY <3>5, <3>6, RepAwardTyped
    <3>8. RepTyped'
      BY <2>2, <3>1, <3>6, <3>7, RepAwardedTyped
    <3> QED  BY <1>2, <1>5, <3>8
  <2> QED  BY <1>5, <2>1, <2>2 DEF AwardWitness
<1>6. ASSUME NEW n, NEW k \in Keys, NEW root, NEW e,
             CliInitHead(n, k) \/ CliSetHead(n, k, root, e), UNCHANGED repVars
      PROVE  RepTyped' /\ HeadsTyped'
  BY <1>1, <1>6, HeadMade, HeadSet DEF CliInitHead, CliSetHead
<1>7. ASSUME NEW c \in RepConfigs, InitRepConfig(RollupSigner, c), UNCHANGED cacheHeads
      PROVE  RepTyped' /\ HeadsTyped'
  BY <1>2, <1>7, CrAssumption, RepConfigMade
<1> QED  BY <1>3, <1>4, <1>5, <1>6, <1>7 DEF CrNext

\* The clock of the domains only stands or goes forward to its bound.
LEMMA GwNext_Day ==
  ASSUME LedgerInv, gwDay \in 0..GwMaxDay, [GwNext]_gwVars
  PROVE  gwDay' \in 0..GwMaxDay
<1>1. ASSUME NEW r, RenewalOK(r), r.kind # "registrar", NEW answer, Finish(r, answer)
      PROVE  UNCHANGED gwDay
  <2>1. CASE r.kind = "status"
    BY <1>1, <2>1 DEF Finish, StatusDone
  <2>2. CASE r.kind = "claim"
    BY <1>1, <2>2 DEF Finish, ClaimDone
  <2>3. CASE r.kind = "renew"
    BY <1>1, <2>3 DEF Finish, RenewDone
  <2> QED  BY <1>1, <2>1, <2>2, <2>3 DEF RenewalOK
<1>2. ASSUME NEW r, RenewalOK(r), r.kind # "registrar", AskWorker(r)
      PROVE  UNCHANGED gwDay
  BY <1>1, <1>2 DEF AskWorker
<1>3. CASE DomainStatus \/ ContinuityClaim
  <2>1. PICK kind \in {"status", "claim"}, d \in GwDomains : AskWorker(Snapshot(kind, d))
    BY <1>3 DEF DomainStatus, ContinuityClaim
  <2>2. PICK r : r = Snapshot(kind, d)
    OBVIOUS
  <2>3. RenewalOK(r) /\ r.kind # "registrar"
    BY <2>2 DEF Snapshot, RenewalOK
  <2> QED  BY <1>2, <2>1, <2>2, <2>3
<1>4. CASE WorkerAnswers
  <2>1. PICK r \in gwInFlight : r.kind # "registrar" /\ \E answer : Finish(r, answer)
    BY <1>4 DEF WorkerAnswers
  <2> QED  BY <1>1, <2>1 DEF LedgerInv
<1>5. CASE DomainRenew
  <2>1. PICK d \in GwDomains, years \in {-1, 1}, useCredits \in BOOLEAN :
          AskWorker([id |-> FreshId, kind |-> "renew", domain |-> d, years |-> years, useCredits |-> useCredits])
    BY <1>5 DEF DomainRenew
  <2>2. PICK r : r = [id |-> FreshId, kind |-> "renew", domain |-> d, years |-> years, useCredits |-> useCredits]
    OBVIOUS
  <2>3. RenewalOK(r) /\ r.kind # "registrar"
    BY <2>2 DEF RenewalOK
  <2> QED  BY <1>2, <2>1, <2>2, <2>3
<1>6. CASE DaysPass
  BY <1>6, GwAssumption DEF DaysPass
<1>7. CASE DomainRenewSent \/ DomainRenewAnswered \/ DomainRenewFailed
  BY <1>7 DEF DomainRenewSent, DomainRenewAnswered, DomainRenewFailed
<1>8. CASE \/ RegistrarRenew \/ RegistrarNs \/ CreditsCredit \/ CreditsDebit
           \/ DomainVerify \/ BannerAck \/ UNCHANGED gwVars
  BY <1>8 DEF RegistrarRenew, RegistrarNs, CreditsCredit, CreditsDebit, DomainVerify,
              BannerAck, gwVars
<1> QED  BY <1>3, <1>4, <1>5, <1>6, <1>7, <1>8 DEF GwNext

\* Which steps reach the anchor programs, and which the counters.
LEMMA AnchorSteps ==
  ASSUME [Next]_Vars
  PROVE  /\ service' = service
         /\ UNCHANGED slot \/ NewSlot
         /\ UNCHANGED anVars \/ AnNext \/ (TbNext /\ service = "booth")
            \/ (RpNext /\ service = "routes")
         /\ UNCHANGED <<repVars, cacheHeads>> \/ (RepNext /\ UNCHANGED cacheHeads)
            \/ (HeadNext /\ UNCHANGED repVars) \/ (CrNext /\ service = "rollup")
         /\ UNCHANGED tbVars \/ (TbNext /\ service = "booth")
         /\ service = "rollup" => CrNext \/ UNCHANGED <<crVars, cacheHeads>>
         /\ UNCHANGED rrVars \/ RrNext \/ RpNext
         /\ [GwNext]_gwVars /\ [MwNext]_mwVars
<1>1. CASE UNCHANGED Vars
  BY <1>1 DEF Vars, anchorVars
<1>2. CASE Next
  <2>1. service' = service
    BY <1>2 DEF Next, Alone
  <2>2. UNCHANGED slot \/ NewSlot
    BY <1>2 DEF Next
  <2>3. UNCHANGED anVars \/ AnNext \/ (TbNext /\ service = "booth")
        \/ (RpNext /\ service = "routes")
    BY <1>2 DEF Next, Alone
  <2>4. UNCHANGED <<repVars, cacheHeads>> \/ (RepNext /\ UNCHANGED cacheHeads)
        \/ (HeadNext /\ UNCHANGED repVars) \/ (CrNext /\ service = "rollup")
    BY <1>2 DEF Next, Alone
  <2>5. UNCHANGED tbVars \/ (TbNext /\ service = "booth")
    BY <1>2 DEF Next, Alone
  <2>6. service = "rollup" => CrNext
    BY <1>2 DEF Next
  <2>7. UNCHANGED rrVars \/ RrNext \/ RpNext
    BY <1>2 DEF Next, Alone
  <2>8. [GwNext]_gwVars /\ [MwNext]_mwVars
    BY <1>2 DEF Next, Alone
  <2> QED  BY <2>1, <2>2, <2>3, <2>4, <2>5, <2>6, <2>7, <2>8
<1> QED  BY <1>1, <1>2

ServicesInv ==
  /\ service \in Services /\ slot \in 0..MaxSlot
  /\ PassesTyped /\ RepTyped /\ HeadsTyped /\ BoothTyped
  /\ service = "rollup" => RollupInv
  /\ rrWriteErrors \in Nat
  /\ LedgerInv /\ gwDay \in 0..GwMaxDay
  /\ MinerInv

LEMMA ServicesStart == Init => ServicesInv
<1> SUFFICES ASSUME Init PROVE ServicesInv
  OBVIOUS
<1>1. PassesTyped /\ RepTyped /\ HeadsTyped
  BY DEF Init, AnInit, NoAccounts, PassesTyped, RepTyped, HeadsTyped
<1>2. BoothTyped /\ slot \in 0..MaxSlot
  BY TbAssumption, ChainAssumption DEF Init, TbInit, ChainInit, BoothTyped
<1>3. RollupInv /\ LedgerInv
  BY RollupInit, GwInit_Ledger DEF Init
<1>4. rrWriteErrors \in Nat /\ gwDay \in 0..GwMaxDay
  BY GwAssumption DEF Init, RrInit, GwInit
<1>5. MinerInv
  BY MwAssumption DEF Init, MwInit, MinerInv, WindowOK, FloodOf, AttackModes
<1> QED  BY <1>1, <1>2, <1>3, <1>4, <1>5 DEF Init, ServicesInv

LEMMA ServicesKept == ServicesInv /\ [Next]_Vars => ServicesInv'
<1> SUFFICES ASSUME ServicesInv, [Next]_Vars PROVE ServicesInv'
  OBVIOUS
<1>1. service \in Services /\ service' = service /\ slot' \in 0..MaxSlot
  BY AnchorSteps, ChainAssumption DEF ServicesInv, NewSlot
<1>2. PassesTyped'
  <2>1. CASE UNCHANGED anVars
    BY <2>1 DEF ServicesInv, PassesTyped, anVars, passVars
  <2> QED  BY <2>1, AnchorSteps, AnNext_Typed, TbNext_Typed, RpNext_Typed DEF ServicesInv
<1>3. RepTyped' /\ HeadsTyped'
  <2>1. UNCHANGED repVars => RepTyped'
    BY DEF ServicesInv, RepTyped, repVars
  <2>2. UNCHANGED cacheHeads => HeadsTyped'
    BY DEF ServicesInv, HeadsTyped
  <2>3. CASE CrNext /\ service = "rollup"
    BY <2>3, CrNext_Typed DEF ServicesInv
  <2> QED  BY <2>1, <2>2, <2>3, AnchorSteps, RepNext_Typed, HeadNext_Typed DEF ServicesInv
<1>4. BoothTyped'
  <2>1. CASE UNCHANGED tbVars
    BY <2>1 DEF ServicesInv, BoothTyped, tbVars
  <2> QED  BY <2>1, AnchorSteps, TbNext_Typed DEF ServicesInv
<1>5. service = "rollup" => RollupInv'
  <2>1. CASE service = "rollup" /\ UNCHANGED <<crVars, cacheHeads>>
    BY <2>1, JobsKept DEF ServicesInv, crVars
  <2> QED  BY <2>1, AnchorSteps, CrNext_Rollup DEF ServicesInv
<1>6. rrWriteErrors' \in Nat
  <2>1. CASE UNCHANGED rrVars
    BY <2>1 DEF ServicesInv, rrVars
  <2> QED  BY <2>1, AnchorSteps, RrNext_Typed, RpNext_Typed DEF ServicesInv
<1>7. LedgerInv' /\ gwDay' \in 0..GwMaxDay
  BY AnchorSteps, GwNext_Ledger, GwNext_Day DEF ServicesInv
<1>8. MinerInv'
  BY AnchorSteps, MwNext_Miner DEF ServicesInv
<1> QED  BY <1>1, <1>2, <1>3, <1>4, <1>5, <1>6, <1>7, <1>8 DEF ServicesInv

\* What the anchor programs keep has the form the instructions give it, the
\* points of an epoch stay within the cap of the configuration, and the counters
\* of the services stay within theirs, whichever service writes them (IssueTollPass,
\* AwardRep, InitCacheHead; the booth, set_route.ts and the roll-up as callers).
THEOREM ServicesAreTyped == Spec => []ServicesTypeOK
<1>1. Init => ServicesInv
  BY ServicesStart
<1>2. ServicesInv /\ [Next]_Vars => ServicesInv'
  BY ServicesKept
<1>3. ServicesInv => ServicesTypeOK
  <2> SUFFICES ASSUME ServicesInv PROVE ServicesTypeOK
    OBVIOUS
  <2>1. AnTypeOK
    BY DEF ServicesInv, AnTypeOK, PassesTyped, RepTyped, HeadsTyped
  <2> QED  BY <2>1 DEF ServicesInv, ServicesTypeOK, BoothTyped, MinerInv
<1> QED  BY <1>1, <1>2, <1>3, PTL DEF Spec

=============================================================================
