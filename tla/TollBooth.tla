------------------------------ MODULE TollBooth ------------------------------
(***************************************************************************)
(* The toll booth service (services/tollbooth/src) in front of the anchor  *)
(* program.  A wallet asks for a challenge, signs it, and with it claims a *)
(* passport or assigns a route.  Each of the two is a sequence of awaited  *)
(* calls to the chain and, last, a file; requests run between each other,  *)
(* a transaction may land without its sender hearing of it, or fail on the *)
(* chain without its sender looking, and a restart forgets the challenges  *)
(* and the requests but not the files.                                     *)
(***************************************************************************)
EXTENDS Anchor, Naturals

CONSTANTS TbWallets,    \* wallets that use the service
          TbMaxNonce,   \* bound on the challenges made
          TbMaxInFlight,\* bound on the requests at work at once
          TbFallback    \* ALLOW_LOCAL_FALLBACK

ASSUME TbAssumption == TbWallets \subseteq Keys /\ TbMaxNonce \in Nat

VARIABLES tbNonce,      \* history: challenges made
          tbChallenges, \* the pending challenge of a wallet
          tbRequests,   \* requests past their challenge, with what they know
          tbPassports,  \* the file of a wallet: name and mint
          tbRoutes,     \* the file of a route: destination
          tbUnprovenPassports, \* history: wallets whose file was last written
                        \* after a claim that failed on the chain
          tbUnprovenRoutes, \* history: the same of the routes, and of those that
                        \* never went to the chain
          tbAccepted    \* history: <<wallet, nonce>> of the requests accepted

tbFiles == <<tbPassports, tbRoutes, tbUnprovenPassports, tbUnprovenRoutes>>
tbVars == <<tbNonce, tbChallenges, tbRequests, tbFiles, tbAccepted>>

TbInit ==
  /\ tbNonce = 0 /\ tbChallenges = NoAccounts /\ tbRequests = {}
  /\ tbPassports = NoAccounts /\ tbRoutes = NoAccounts
  /\ tbUnprovenPassports = {} /\ tbUnprovenRoutes = {} /\ tbAccepted = {}

\* Making a challenge replaces the pending one of the wallet.
TbChallenge(w) ==
  /\ tbNonce < TbMaxNonce /\ tbNonce' = tbNonce + 1
  /\ tbChallenges' = Created(tbChallenges, w, tbNonce')
  /\ UNCHANGED <<tbRequests, tbFiles, tbAccepted, anVars>>

Without(f, k) == [x \in DOMAIN f \ {k} |-> f[x]]

\* consume, of a challenge that is five minutes old.
TbExpire(w) ==
  /\ Exists(tbChallenges, w) /\ tbChallenges' = Without(tbChallenges, w)
  /\ UNCHANGED <<tbNonce, tbRequests, tbFiles, tbAccepted, anVars>>

\* consume and verifySignedChallenge: a signature that is wrong uses it up too.
TbConsume(w, nonce, signed, request) ==
  /\ Exists(tbChallenges, w) /\ tbChallenges[w] = nonce
  /\ Cardinality(tbRequests) < TbMaxInFlight
  /\ tbChallenges' = Without(tbChallenges, w)
  /\ IF signed THEN /\ tbRequests' = tbRequests \cup {request}
                    /\ tbAccepted' = tbAccepted \cup {<<w, nonce>>}
     ELSE UNCHANGED <<tbRequests, tbAccepted>>
  /\ UNCHANGED <<tbNonce, tbFiles, anVars>>

TbRequest(w, nonce, kind, n, dest) ==
  [wallet |-> w, nonce |-> nonce, kind |-> kind, name |-> n, dest |-> dest,
   step |-> "init", mint |-> None]

TbClaimPassport(w, nonce, signed, n) ==
  TbConsume(w, nonce, signed, TbRequest(w, nonce, "claim", n, None))

TbAssignRoute(w, nonce, signed, n, dest) ==
  TbConsume(w, nonce, signed, TbRequest(w, nonce, "route", n, dest))

TbMoves(r, next) == tbRequests' = (tbRequests \ {r}) \cup {next}
TbEnds(r) == tbRequests' = tbRequests \ {r}
TbOnly == UNCHANGED <<tbNonce, tbChallenges, tbFiles, tbAccepted>>

\* A request goes on from a call to the chain, or ends with it.
TbHears(r, next) == TbMoves(r, [r EXCEPT !.step = next]) \/ TbEnds(r)

\* ensureInitialized: another request may have been first.
TbEnsureInitialized(r) ==
  /\ r.step = "init" /\ TbHears(r, "look") /\ TbOnly
  /\ Initialize(AnAdmin, 1) \/ UNCHANGED anVars

\* getPassportIfExists
PassportOf(w) == IF Exists(tollPasses, w) THEN tollPasses[w].mint ELSE None

\* (For the mutation check: the file gets the mint that was asked for.)
TbLookForPassMut(r, mint) ==
  /\ r.kind = "claim" /\ r.step = "look"
  /\ TbMoves(r, [r EXCEPT !.step = IF PassportOf(r.wallet) = None THEN "send" ELSE "write",
                          !.mint = mint])
  /\ TbOnly /\ UNCHANGED anVars

\* issuePassport: a wallet with a pass is sent its mint, under any name asked;
\* otherwise a mint is made first.
TbLookForPass(r, mint) ==
  /\ r.kind = "claim" /\ r.step = "look"
  /\ TbMoves(r, IF PassportOf(r.wallet) = None
                THEN [r EXCEPT !.step = "send", !.mint = mint]
                ELSE [r EXCEPT !.step = "write", !.mint = PassportOf(r.wallet)])
  /\ TbOnly /\ UNCHANGED anVars

TbLookForRoute(r) ==
  /\ r.kind = "route" /\ r.step = "look"
  /\ IF PassportOf(r.wallet) = None THEN TbEnds(r)
     ELSE TbMoves(r, [r EXCEPT !.step = "send"])
  /\ TbOnly /\ UNCHANGED anVars

\* sendTransaction runs the instruction on what the chain holds now, and sends it
\* only if it succeeds; else the request is refused, as when a call fails.
TbWouldSucceed(r) ==
  IF r.kind = "claim" THEN PassAccounts(r.wallet, r.name)
  ELSE /\ RouteAccounts(r.wallet, r.name)
       /\ nameRecords[r.name] = NameRecord(r.wallet, tollPasses[r.wallet].mint)

TbSend(r) ==
  /\ r.step = "send" /\ TbWouldSucceed(r)
  /\ TbMoves(r, [r EXCEPT !.step = "sent"]) /\ TbOnly /\ UNCHANGED anVars

TbRefused(r) ==
  /\ r.step \in {"look", "send"} /\ TbEnds(r) /\ TbOnly /\ UNCHANGED anVars

\* confirmTransaction: the transaction landed and succeeded, or failed on the
\* chain, where others came first.  It answers in both cases, with the error of
\* a failed one in a value that is not looked at: the request goes on; or the
\* confirmation is lost and the request ends.
TbConfirmIssue(r) ==
  /\ r.kind = "claim" /\ r.step = "sent" /\ TbOnly
  /\ \/ IssueTollPass(r.wallet, r.name, r.mint) /\ TbHears(r, "write")
     \/ UNCHANGED anVars /\ TbHears(r, "unproven")

TbConfirmRoute(r) ==
  /\ r.kind = "route" /\ r.step = "sent" /\ TbOnly
  /\ \/ /\ \E t \in AnTtls : SetRoute(r.wallet, r.name, r.dest, t)
        /\ TbHears(r, "write")
     \/ UNCHANGED anVars /\ TbHears(r, "unproven")

\* supportsLocalRouteFallback: the program deployed does not know the call.
TbLocalFallback(r) ==
  /\ TbFallback /\ r.kind = "route" /\ r.step = "send"
  /\ TbMoves(r, [r EXCEPT !.step = "unproven"]) /\ TbOnly /\ UNCHANGED anVars

\* The history of the files, as one of them is written.
TbMarked(unproven, r, file) ==
  IF r.step = "unproven" THEN unproven \cup {file} ELSE unproven \ {file}

TbWritePassport(r) ==
  /\ r.kind = "claim" /\ r.step \in {"write", "unproven"} /\ TbEnds(r)
  /\ tbPassports' = Created(tbPassports, r.wallet, TollPass(r.name, r.mint))
  /\ tbUnprovenPassports' = TbMarked(tbUnprovenPassports, r, r.wallet)
  /\ UNCHANGED <<tbNonce, tbChallenges, tbRoutes, tbUnprovenRoutes, tbAccepted, anVars>>

TbWriteRoute(r) ==
  /\ r.kind = "route" /\ r.step \in {"write", "unproven"} /\ TbEnds(r)
  /\ tbRoutes' = Created(tbRoutes, <<r.wallet, r.name>>, r.dest)
  /\ tbUnprovenRoutes' = TbMarked(tbUnprovenRoutes, r, <<r.wallet, r.name>>)
  /\ UNCHANGED <<tbNonce, tbChallenges, tbPassports, tbUnprovenPassports, tbAccepted,
                 anVars>>

TbRestart ==
  /\ tbRequests' = {} /\ tbChallenges' = NoAccounts
  /\ UNCHANGED <<tbNonce, tbFiles, tbAccepted, anVars>>

TbNext ==
  \/ \E w \in TbWallets :
       \/ TbChallenge(w) \/ TbExpire(w)
       \/ \E x \in 1..TbMaxNonce, s \in BOOLEAN, n \in AnNames :
            \/ TbClaimPassport(w, x, s, n)
            \/ \E d \in AnDests : TbAssignRoute(w, x, s, n, d)
  \/ \E r \in tbRequests :
       \/ TbEnsureInitialized(r) \/ TbLookForRoute(r)
       \/ \E m \in AnMints : TbLookForPass(r, m)
       \/ TbSend(r) \/ TbRefused(r) \/ TbLocalFallback(r)
       \/ TbConfirmIssue(r) \/ TbConfirmRoute(r)
       \/ TbWritePassport(r) \/ TbWriteRoute(r)
  \/ TbRestart

\* The booth with the anchor program, used by nobody else.
TbSpec ==
  /\ ChainInit /\ AnInit /\ TbInit
  /\ [][TbNext /\ UNCHANGED <<slot, repVars, cacheHeads>>]_<<slot, anchorVars, tbVars>>

-----------------------------------------------------------------------------
\* What GET /v1/resolve answers: the destination of the file, if there is no
\* record on the chain or its hash is that of the destination.
TbResolve(w, n) ==
  IF Vacant(tbRoutes, <<w, n>>) THEN None
  ELSE IF Vacant(anRoutes, <<w, n>>) \/ anRoutes[<<w, n>>].dest = tbRoutes[<<w, n>>]
       THEN tbRoutes[<<w, n>>] ELSE None

\* listOwnedNames asks for accounts with the wallet at byte 40.  In a name
\* record, which starts with the hash of the name and its label, the owner
\* stands at byte 105.
OwnerOffset == 8 + 32 + 1 + 32 + 32

TbNames(w) ==
  {n \in DOMAIN nameRecords : OwnerOffset = 40 /\ nameRecords[n].owner = w}

\* A passport in a file is one on the chain, of that wallet and that mint,
\* whatever requests ran at the same time, got lost or were cut off, unless the
\* file was last written after a claim whose failure on the chain was not looked
\* at; the wallet's next claim that gets through puts it right.
PassportFilesProven ==
  \A w \in DOMAIN tbPassports \ tbUnprovenPassports :
    Exists(tollPasses, w) /\ tbPassports[w].mint = tollPasses[w].mint

\* A route is in the files of a wallet with a pass only; and unless it was last
\* written without a transaction that succeeded, the chain has a record of it,
\* and a destination that the record does not name is not answered, with routes
\* set and files written in different orders.
RouteFilesBacked ==
  \A r \in DOMAIN tbRoutes :
    /\ Exists(tollPasses, r[1])
    /\ r \notin tbUnprovenRoutes =>
         Exists(anRoutes, r) /\ TbResolve(r[1], r[2]) \in {None, anRoutes[r].dest}

\* One challenge lets one request in.
ChallengesUsedOnce ==
  /\ \A a \in tbAccepted : Exists(tbChallenges, a[1]) => tbChallenges[a[1]] # a[2]
  /\ \A r, s \in tbRequests : r.nonce = s.nonce => r = s
=============================================================================
