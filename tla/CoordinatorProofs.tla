-------------------------- MODULE CoordinatorProofs --------------------------
(***************************************************************************)
(* Proofs about Coordinator, for all values of its constants that satisfy  *)
(* ConstantsAssumption and SplitAssumption.                                *)
(***************************************************************************)
EXTENDS TollPlugin, SumTheorems

-----------------------------------------------------------------------------
(* Arithmetic.                                                             *)

\* A product with a natural number is monotonic.
LEMMA MulMono ==
  ASSUME NEW a \in Int, NEW b \in Int, NEW d \in Nat, a <= b
  PROVE  d * a <= d * b
BY SMTT(30)

\* What the quotient n \div d is: the only fact used of \div.
LEMMA DivBounds ==
  ASSUME NEW n \in Nat, NEW d \in Nat \ {0}
  PROVE  /\ n \div d \in Nat
         /\ d * (n \div d) <= n /\ n < d * ((n \div d) + 1)
BY SMTT(30)

\* A later tick is on the same day or on a later one.
LEMMA DivMono ==
  ASSUME NEW n \in Nat, NEW m \in Nat, n <= m, NEW d \in Nat \ {0}
  PROVE  n \div d <= m \div d
<1> DEFINE q == n \div d
           p == m \div d
<1>1. q \in Int /\ p \in Int
  BY DivBounds
<1>2. d * q <= n /\ m < d * (p + 1)
  BY DivBounds
<1> HIDE DEF q, p
<1>3. SUFFICES ASSUME p + 1 <= q PROVE FALSE
  BY <1>1 DEF q, p
<1>4. d * (p + 1) <= d * q
  BY <1>1, <1>3, MulMono
<1>5. d * (p + 1) \in Int /\ d * q \in Int
  BY <1>1
<1>6. QED
  BY <1>2, <1>4, <1>5

\* The pool takes no more than the toll that is forfeited.
LEMMA PoolShareBounds ==
  ASSUME NEW a \in Nat
  PROVE  PoolShare(a) \in Nat /\ PoolShare(a) <= a
<1> DEFINE q == PoolShare(a)
<1>1. a * SplitNum \in Nat /\ a * SplitNum <= SplitDen * a
  BY MulMono, SplitAssumption
<1>2. q \in Nat /\ SplitDen * q <= a * SplitNum
  BY <1>1, DivBounds, SplitAssumption DEF PoolShare
<1> HIDE DEF q
<1>3. SUFFICES ASSUME a + 1 <= q PROVE FALSE
  BY <1>2 DEF q
<1>4. SplitDen * (a + 1) <= SplitDen * q
  BY <1>2, <1>3, MulMono, SplitAssumption
<1>5. SplitDen * (a + 1) = SplitDen * a + SplitDen
  BY SplitAssumption
<1>6. SplitDen * a \in Nat /\ SplitDen * q \in Nat
  BY <1>2, SplitAssumption
<1>7. QED
  BY <1>1, <1>2, <1>4, <1>5, <1>6, SplitAssumption

\* Hypotheses on single constants, without the products.
LEMMA Constants ==
  /\ MaxTime \in Nat /\ DayLength \in Nat \ {0}
  /\ ServeCredits \in Nat /\ VerifyCredits \in Nat /\ StoreCredits \in Nat
  /\ Amounts \subseteq Nat /\ Multipliers \subseteq Nat /\ BonusMax \in Nat
  /\ \A k : Cap(k) \in Nat /\ RateMax(k) \in Nat
BY ConstantsAssumption DEF Cap, RateMax

\* A bonus is a natural number.
LEMMA BonusNat ==
  ASSUME NEW a \in Nat, NEW m \in Nat
  PROVE  Bonus(a, m) \in Nat
<1> DEFINE c == IF m < BonusMax THEN m ELSE BonusMax
<1>1. c \in Nat
  BY Constants
<1>2. c > 1 => a * (c - 1) \in Nat
  BY <1>1, SMTT(30)
<1>3. QED
  BY <1>1, <1>2 DEF Bonus

-----------------------------------------------------------------------------
(* Types.                                                                  *)

\* A charge within the cap keeps the window within the cap.
LEMMA ChargeType ==
  ASSUME CapType, EnvType, NEW k \in CapKeys, NEW delta \in Nat,
         Fits(k, delta), Charge(k, delta), UNCHANGED rates
  PROVE  CapType'
<1>1. Today \in Nat /\ Today \in Days
  BY DivBounds, Constants DEF Today, Days, EnvType
<1>2. Rolled(windows[k]).used \in Nat
  BY <1>1 DEF Rolled, CapType
<1>3. Rolled(windows[k]).used + delta <= Cap(k)
  BY DEF Fits
<1>4. QED
  BY <1>1, <1>2, <1>3 DEF Charge, CapType

\* A refusal at most empties a window.
LEMMA RefuseType ==
  ASSUME CapType, EnvType, NEW k \in CapKeys, Refuse(k), UNCHANGED rates
  PROVE  CapType'
<1>1. Today \in Nat
  BY DivBounds, Constants DEF Today, EnvType
<1>2. QED
  BY <1>1, Constants DEF Refuse, Rolled, CapType

\* A rate counter stops one above its limit.
LEMMA BumpedType ==
  ASSUME CapType, EnvType, NEW k \in RateKeys
  PROVE  Bumped(k) \in [count : Nat, start : Int] /\ Bumped(k).count <= RateMax(k) + 1
BY Constants DEF Bumped, CapType, EnvType

\* A balance set to an integer keeps the type of the ledger.
LEMMA SetBalanceType ==
  ASSUME LedgerType, NEW w \in Wallets, NEW b \in Int, NEW delta \in Int,
         NEW other, SetBalance(w, b, delta, other)
  PROVE  LedgerType'
BY DEF SetBalance, LedgerType

\* What is written to each file has the type of the file.
LEMMA StoresType ==
  ASSUME LedgerType', HoldType', PoolType'
  PROVE  /\ (Stores["ledger"] \in LedgerFile)' /\ HoldsType(Stores["holds"])'
         /\ (Stores["pools"] \in [Sites -> Int])' /\ (Stores["treasury"] \in Int)'
         /\ (Stores["receipts"] \in [Sites -> Nat])'
BY DEF Stores, Files, LedgerFile, LedgerType, HoldType, PoolType

\* Whether saveState ends or the process dies in it, a file is new, as it
\* was, or cut short.
LEMMA SavedFiles ==
  ASSUME SaveState, DOMAIN disk = Files
  PROVE  DOMAIN disk' = Files /\ \A f \in Files : disk'[f] \in {Stores'[f], Torn, disk[f]}
<1> DEFINE new == Stores'
<1>1. CASE disk' = new
  BY <1>1 DEF Stores
<1>2. CASE DieInSave(new)
  <2> HIDE DEF new
  <2>1. PICK k \in 1..Len(FileOrder), torn \in BOOLEAN :
          disk' = [f \in Files |->
                    IF \E i \in 1..(k - 1) : FileOrder[i] = f THEN new[f]
                    ELSE IF torn /\ FileOrder[k] = f THEN Torn ELSE disk[f]]
    BY <1>2 DEF DieInSave
  <2>2. DOMAIN disk' = Files /\ \A f \in Files : disk'[f] \in {new[f], Torn, disk[f]}
    BY <2>1
  <2>3. QED
    BY <2>2 DEF new
<1>3. QED
  BY <1>1, <1>2 DEF SaveState

\* saveState keeps the types of the files wherever the process dies in it.
LEMMA SaveStateType ==
  ASSUME ProcType, LedgerType', HoldType', PoolType', SaveState
  PROVE  ProcType'
<1>1. CASE disk' = Stores' /\ UNCHANGED <<up, crashes>>
  BY <1>1, StoresType DEF ProcType, DiskType, SaveState, Stores
<1>2. CASE DieInSave(Stores')
  <2> DEFINE new == Stores'
  <2> HIDE DEF new
  <2>0. DieInSave(new)
    BY <1>2 DEF new
  <2>1. crashes' = crashes + 1 /\ up' = FALSE
    BY <2>0 DEF DieInSave
  <2>2. crashes' \in Nat
    BY <2>1 DEF ProcType
  <2>3. DOMAIN disk' = Files /\ \A f \in Files : disk'[f] \in {new[f], Torn, disk[f]}
    BY SavedFiles DEF ProcType, DiskType, new
  <2>4. DiskType'
    BY <2>3, StoresType DEF DiskType, ProcType, Files, new
  <2>5. QED
    BY <2>1, <2>2, <2>4 DEF ProcType, SaveState
<1>3. QED
  BY <1>1, <1>2 DEF SaveState

\* A refused request leaves the files alone.
LEMMA NoSaveType ==
  ASSUME ProcType, NEW dirty \in BOOLEAN, NoSave(dirty)
  PROVE  ProcType'
BY DEF NoSave, ProcType, DiskType

\* A part of the state that an action leaves alone keeps its type.
LEMMA SameType ==
  ASSUME TypeOK
  PROVE  /\ UNCHANGED envVars => EnvType'
         /\ UNCHANGED procVars => ProcType'
         /\ UNCHANGED ledgerVars => LedgerType'
         /\ UNCHANGED receiptVars => ReceiptType'
         /\ UNCHANGED capVars => CapType'
         /\ UNCHANGED holdVars => HoldType'
         /\ UNCHANGED <<pools, treasury, siteReceipts>> => PoolType'
BY DEF TypeOK, envVars, procVars, ledgerVars, receiptVars, capVars, holdVars,
       EnvType, ProcType, DiskType, LedgerType, ReceiptType, CapType, HoldType,
       PoolType

\* Spend keeps TypeOK.
LEMMA SpendType ==
  ASSUME TypeOK, NEW w \in Wallets, NEW a \in Amounts, Spend(w, a)
  PROVE  TypeOK'
<1>1. credits[w] - a \in Int /\ -a \in Int
  BY Constants DEF TypeOK, LedgerType
<1>2. LedgerType'
  BY <1>1, SetBalanceType DEF Spend, TypeOK
<1>3. EnvType' /\ ReceiptType' /\ CapType' /\ HoldType' /\ PoolType'
  BY SameType DEF Spend, poolVars
<1>4. ProcType'
  BY <1>2, <1>3, SaveStateType DEF Spend, TypeOK
<1>5. QED
  BY <1>2, <1>3, <1>4 DEF TypeOK

\* SubmitReceipt keeps TypeOK.
LEMMA SubmitReceiptType ==
  ASSUME TypeOK, NEW q \in Reqs, NEW e \in Envelopes, SubmitReceipt(q, e)
  PROVE  TypeOK'
<1> DEFINE k == <<"receipt", e.node>>
<1>0. e \in EnvelopeType /\ e.node \in Wallets
  BY ConstantsAssumption DEF EnvelopeType
<1>1. EnvType' /\ ProcType' /\ LedgerType' /\ HoldType' /\ PoolType'
  BY SameType DEF SubmitReceipt, poolVars
<1>2. inflight' = inflight \/ Await(q, e)
  BY DEF SubmitReceipt
<1>3. inflight' \subseteq Request
  <2>1. [req |-> q, env |-> e, before |-> credits[e.node], at |-> now,
         stage |-> "signature"] \in Request
    BY <1>0, Constants DEF TypeOK, LedgerType, EnvType, Request
  <2>2. QED
    BY <1>2, <2>1 DEF Await, TypeOK, ReceiptType
<1>4. nodePubkeys' \subseteq Wallets /\ registryLoadedAt' \in Int
  BY Constants DEF SubmitReceipt, RefreshNodePubkeys, Snapshots, TypeOK, ReceiptType, EnvType
<1>5. ReceiptType'
  BY <1>3, <1>4 DEF SubmitReceipt, TypeOK, ReceiptType
<1>6. k \in RateKeys
  BY <1>0 DEF RateKeys
<1>7. CapType'
  <2>1. CASE UNCHANGED rates
    BY <2>1, SameType DEF SubmitReceipt, capVars
  <2>2. CASE rates' = [rates EXCEPT ![k] = Bumped(k)]
    BY <2>2, <1>6, BumpedType DEF SubmitReceipt, TypeOK, CapType
  <2>3. QED
    BY <2>1, <2>2 DEF SubmitReceipt
<1>8. QED
  BY <1>1, <1>5, <1>7 DEF TypeOK

\* Reject keeps TypeOK.
LEMMA RejectType ==
  ASSUME TypeOK, NEW r \in inflight, Reject(r)
  PROVE  TypeOK'
<1>1. EnvType' /\ ProcType' /\ LedgerType' /\ CapType' /\ HoldType' /\ PoolType'
  BY SameType DEF Reject, poolVars
<1>2. ReceiptType'
  BY DEF Reject, TypeOK, ReceiptType
<1>3. QED
  BY <1>1, <1>2 DEF TypeOK

\* What the actions use of a waiting request.
LEMMA RequestFacts ==
  ASSUME TypeOK, NEW r \in inflight
  PROVE  /\ r \in Request /\ r.env.node \in Wallets /\ r.before \in Int
         /\ <<"credit", r.env.node>> \in CapKeys
         /\ CreditDelta(r.env.type) \in Nat
<1>1. r \in Request
  BY DEF TypeOK, ReceiptType
<1>2. r.env \in EnvelopeType
  BY <1>1, ConstantsAssumption DEF Request
<1>3. r.env.node \in Wallets /\ r.before \in Int
  BY <1>1, <1>2 DEF Request, EnvelopeType
<1>4. CreditDelta(r.env.type) \in Nat
  BY Constants DEF CreditDelta
<1>5. QED
  BY <1>1, <1>3, <1>4 DEF CapKeys

\* Apply keeps TypeOK.
LEMMA ApplyType ==
  ASSUME TypeOK, NEW r \in inflight, Apply(r)
  PROVE  TypeOK'
<1> DEFINE w == r.env.node
           k == <<"credit", w>>
           delta == CreditDelta(r.env.type)
           rest == inflight \ {r}
<1>0. w \in Wallets /\ r.before \in Int /\ k \in CapKeys /\ delta \in Nat
  BY RequestFacts
<1>1. EnvType' /\ HoldType' /\ PoolType'
  BY SameType DEF Apply, poolVars
<1>2. ReceiptType'
  BY DEF Apply, TypeOK, ReceiptType
<1>3. CASE /\ Fits(k, delta) /\ SetBalance(w, credits[w] + delta, delta, rest)
           /\ Charge(k, delta) /\ SaveState
  <2>1. credits[w] + delta \in Int /\ delta \in Int
    BY <1>0 DEF TypeOK, LedgerType
  <2>2. LedgerType'
    BY <1>0, <1>3, <2>1, SetBalanceType DEF TypeOK
  <2>3. CapType'
    BY <1>0, <1>3, ChargeType DEF TypeOK, Apply
  <2>4. ProcType'
    BY <1>1, <1>3, <2>2, SaveStateType DEF TypeOK
  <2>5. QED
    BY <1>1, <1>2, <2>2, <2>3, <2>4 DEF TypeOK
<1>4. CASE /\ credits' = [credits EXCEPT ![w] = Undone(r)]
           /\ Refuse(k) /\ NoSave(FALSE) /\ UNCHANGED <<net, raced>>
  <2>1. LedgerType'
    BY <1>0, <1>4 DEF TypeOK, LedgerType, Undone
  <2>2. CapType'
    BY <1>0, <1>4, RefuseType DEF TypeOK, Apply
  <2>3. ProcType'
    BY <1>4, NoSaveType DEF TypeOK
  <2>4. QED
    BY <1>1, <1>2, <2>1, <2>2, <2>3 DEF TypeOK
<1>5. QED
  BY <1>3, <1>4 DEF Apply

\* CheckSignature keeps TypeOK.
LEMMA CheckSignatureType ==
  ASSUME TypeOK, NEW r \in inflight, CheckSignature(r)
  PROVE  TypeOK'
<1>1. CASE /\ inflight' = (inflight \ {r}) \cup {[r EXCEPT !.stage = "authority"]}
           /\ UNCHANGED <<envVars, procVars, ledgerVars, receipts, nodePubkeys,
                          registryLoadedAt, challenges, replayed, capVars,
                          holdVars, poolVars>>
  <2>1. [r EXCEPT !.stage = "authority"] \in Request
    BY RequestFacts DEF Request
  <2>2. ReceiptType'
    BY <1>1, <2>1 DEF TypeOK, ReceiptType
  <2>3. EnvType' /\ ProcType' /\ LedgerType' /\ CapType' /\ HoldType' /\ PoolType'
    BY <1>1, SameType DEF poolVars
  <2>4. QED
    BY <2>2, <2>3 DEF TypeOK
<1>2. QED
  BY <1>1, ApplyType, RejectType DEF CheckSignature

\* CreateHold keeps TypeOK.
LEMMA CreateHoldType ==
  ASSUME TypeOK, NEW w \in Wallets, NEW s \in Sites, NEW a \in Amounts,
         NEW t \in Tickets, CreateHold(w, s, a, t)
  PROVE  TypeOK'
<1> DEFINE kw == <<"wallet", w>>
           ks == <<"site", s>>
<1>0. kw \in RateKeys /\ ks \in RateKeys /\ kw # ks
  BY DEF RateKeys
<1>1. EnvType' /\ ReceiptType' /\ PoolType'
  BY SameType DEF CreateHold, poolVars
<1>2. CapType'
  <2>1. CASE rates' = [rates EXCEPT ![kw] = Bumped(kw)]
    BY <1>0, <2>1, BumpedType DEF CreateHold, TypeOK, CapType
  <2>2. CASE rates' = [rates EXCEPT ![kw] = Bumped(kw), ![ks] = Bumped(ks)]
    BY <1>0, <2>2, BumpedType DEF CreateHold, TypeOK, CapType
  <2>3. QED
    BY <2>1, <2>2 DEF CreateHold
<1>3. CASE UNCHANGED <<procVars, ledgerVars, holdVars>>
  BY <1>1, <1>2, <1>3, SameType DEF TypeOK
<1>4. CASE GrantHold(w, s, a, t)
  <2>1. credits[w] - a \in Int /\ -a \in Int /\ now \in Int /\ now + HoldTtl \in Int
    BY Constants, ConstantsAssumption DEF TypeOK, LedgerType, EnvType
  <2>2. LedgerType'
    BY <1>4, <2>1, SetBalanceType DEF GrantHold, TypeOK
  <2>3. [wallet |-> w, site |-> s, amount |-> a, status |-> "held",
         expiresAt |-> now + HoldTtl] \in Hold
    BY <2>1 DEF Hold
  <2>4. HoldsType(holds')
    BY <1>4, <2>3 DEF GrantHold, Put, HoldsType, TypeOK, HoldType
  <2>5. HoldType'
    BY <1>4, <2>1, <2>4 DEF GrantHold, TypeOK, HoldType
  <2>6. ProcType'
    BY <1>1, <1>4, <2>2, <2>5, SaveStateType DEF GrantHold, TypeOK
  <2>7. QED
    BY <1>1, <1>2, <2>2, <2>5, <2>6 DEF TypeOK
<1>5. QED
  BY <1>3, <1>4 DEF CreateHold

\* SubmitHold keeps TypeOK.
LEMMA SubmitHoldType ==
  ASSUME TypeOK, NEW t \in DOMAIN holds, SubmitHold(t)
  PROVE  TypeOK'
<1>1. EnvType' /\ LedgerType' /\ ReceiptType' /\ CapType' /\ PoolType'
  BY SameType DEF SubmitHold, poolVars
<1>2. HoldType'
  BY DEF SubmitHold, TypeOK, HoldType, HoldsType, Hold
<1>3. ProcType'
  BY <1>1, <1>2, SaveStateType DEF SubmitHold, TypeOK
<1>4. QED
  BY <1>1, <1>2, <1>3 DEF TypeOK

\* What the actions use of a ticket.
LEMMA HoldFacts ==
  ASSUME TypeOK, NEW t \in DOMAIN holds
  PROVE  /\ t \in Tickets /\ holds[t].wallet \in Wallets
         /\ holds[t].amount \in Nat /\ holds[t].amount \in Amounts
         /\ <<"bonus", holds[t].wallet>> \in CapKeys
         /\ holds[t].status \in {"held", "submitted", "approved", "spam", "trash"}
         /\ holds[t].expiresAt \in Int
BY Constants DEF TypeOK, HoldType, HoldsType, Hold, CapKeys

\* A settled ticket keeps the type of a ticket.
LEMMA FinalizedType ==
  ASSUME TypeOK, NEW t \in DOMAIN holds, NEW s \in Sites,
         NEW result \in {"approved", "spam", "trash"}, MarkSettled(t),
         holds' = Put(holds, t, Finalized(t, result, s)),
         UNCHANGED <<cooldown, issued>>
  PROVE  HoldType'
<1>1. Finalized(t, result, s) \in Hold
  BY DEF Finalized, TypeOK, HoldType, HoldsType, Hold
<1>2. HoldsType(holds')
  BY <1>1 DEF Put, HoldsType, TypeOK, HoldType
<1>3. settled' \in [Tickets -> Nat]
  <2>1. settled \in [Tickets -> Nat] /\ t \in Tickets
    BY HoldFacts DEF TypeOK, HoldType
  <2>2. QED
    BY <2>1 DEF MarkSettled
<1>4. QED
  BY <1>2, <1>3 DEF TypeOK, HoldType

\* A logged site receipt keeps the counts natural.
LEMMA LogType ==
  ASSUME TypeOK, NEW s \in Sites, LogFor(s)
  PROVE  siteReceipts' \in [Sites -> Nat]
BY DEF LogFor, TypeOK, PoolType

\* FinalizeApproved keeps TypeOK.
LEMMA FinalizeApprovedType ==
  ASSUME TypeOK, NEW t \in DOMAIN holds, NEW s \in Sites,
         NEW m \in Multipliers, FinalizeApproved(t, s, m)
  PROVE  TypeOK'
<1> DEFINE h == holds[t]
           w == holds[t].wallet
           k == <<"bonus", w>>
           bonus == Bonus(holds[t].amount, m)
<1>0. /\ w \in Wallets /\ h.amount \in Nat /\ k \in CapKeys /\ bonus \in Nat
  BY HoldFacts, BonusNat, Constants
<1>1. EnvType' /\ ReceiptType'
  BY SameType DEF FinalizeApproved
<1>2. HoldType'
  BY FinalizedType DEF FinalizeApproved
<1>3. credits[w] + h.amount \in Int /\ h.amount \in Int
  BY <1>0 DEF TypeOK, LedgerType
<1>4. CASE Refund(t, s)
  <2>1. LedgerType'
    BY <1>0, <1>3, <1>4, SetBalanceType DEF Refund, TypeOK
  <2>2. CapType'
    BY <1>4, SameType DEF Refund, FinalizeApproved, capVars
  <2>3. PoolType'
    BY <1>4, LogType DEF Refund, FinalizeApproved, TypeOK, PoolType
  <2>4. ProcType'
    BY <1>2, <1>4, <2>1, <2>3, SaveStateType DEF Refund, TypeOK
  <2>5. QED
    BY <1>1, <1>2, <2>1, <2>2, <2>3, <2>4 DEF TypeOK
<1>5. CASE RefundBonusRefused(t)
  <2>1. LedgerType'
    BY <1>0, <1>3, <1>5, SetBalanceType DEF RefundBonusRefused, TypeOK
  <2>2. CapType'
    BY <1>0, <1>5, RefuseType DEF RefundBonusRefused, FinalizeApproved, TypeOK
  <2>3. PoolType'
    BY <1>5, SameType DEF RefundBonusRefused, FinalizeApproved
  <2>4. ProcType'
    BY <1>5, NoSaveType DEF RefundBonusRefused, TypeOK
  <2>5. QED
    BY <1>1, <1>2, <2>1, <2>2, <2>3, <2>4 DEF TypeOK
<1>6. CASE Fits(k, bonus) /\ RefundWithBonus(t, s, bonus)
  <2> DEFINE paid == IF pools[s] >= bonus THEN bonus ELSE 0
  <2>0. paid \in Nat
    BY <1>0
  <2>1. credits[w] + h.amount + paid \in Int /\ h.amount + paid \in Int
    BY <1>3, <2>0 DEF TypeOK, LedgerType
  <2>2. LedgerType'
    BY <1>0, <1>6, <2>1, SetBalanceType DEF RefundWithBonus, TypeOK
  <2>3. CapType'
    BY <1>0, <1>6, ChargeType DEF RefundWithBonus, FinalizeApproved, TypeOK
  <2>4. PoolType'
    BY <1>6, <2>0, LogType DEF RefundWithBonus, FinalizeApproved, TypeOK, PoolType
  <2>5. ProcType'
    BY <1>2, <1>6, <2>2, <2>4, SaveStateType DEF RefundWithBonus, TypeOK
  <2>6. QED
    BY <1>1, <1>2, <2>2, <2>3, <2>4, <2>5 DEF TypeOK
<1>7. QED
  BY <1>4, <1>5, <1>6 DEF FinalizeApproved

\* FinalizeForfeit keeps TypeOK.
LEMMA FinalizeForfeitType ==
  ASSUME TypeOK, NEW t \in DOMAIN holds, NEW s \in Sites,
         NEW result \in {"spam", "trash"}, FinalizeForfeit(t, s, result)
  PROVE  TypeOK'
<1> DEFINE a == holds[t].amount
<1>0. PoolShare(a) \in Nat /\ TreasuryShare(a) \in Int
  <2>1. a \in Nat
    BY HoldFacts
  <2>2. PoolShare(a) \in Nat
    BY <2>1, PoolShareBounds
  <2>3. QED
    BY <2>1, <2>2 DEF TreasuryShare
<1>1. EnvType' /\ LedgerType' /\ ReceiptType' /\ CapType'
  BY SameType DEF FinalizeForfeit
<1>2. HoldType'
  BY FinalizedType DEF FinalizeForfeit
<1>3. PoolType'
  BY <1>0, LogType DEF FinalizeForfeit, TypeOK, PoolType
<1>4. ProcType'
  BY <1>1, <1>2, <1>3, SaveStateType DEF FinalizeForfeit, TypeOK
<1>5. QED
  BY <1>1, <1>2, <1>3, <1>4 DEF TypeOK

\* NodeReceipt keeps TypeOK.
LEMMA NodeReceiptType ==
  ASSUME TypeOK, NEW v, NEW s \in Sites, NEW n, NodeReceipt(v, s, n)
  PROVE  TypeOK'
<1> DEFINE k == <<"pool", s>>
<1>0. k \in CapKeys
  BY DEF CapKeys
<1>1. EnvType' /\ ReceiptType' /\ HoldType'
  BY SameType DEF NodeReceipt
<1>2. LedgerType'
  BY SameType DEF NodeReceipt, ledgerVars
<1>3. CASE /\ Fits(k, 1) /\ Charge(k, 1) /\ LogFor(s) /\ SaveState
           /\ pools' = [pools EXCEPT ![s] = @ + 1]
  <2>1. CapType'
    BY <1>0, <1>3, ChargeType DEF NodeReceipt, TypeOK
  <2>2. PoolType'
    BY <1>3, LogType DEF NodeReceipt, TypeOK, PoolType
  <2>3. ProcType'
    BY <1>1, <1>2, <1>3, <2>2, SaveStateType DEF TypeOK
  <2>4. QED
    BY <1>1, <1>2, <2>1, <2>2, <2>3 DEF TypeOK
<1>4. CASE Refuse(k) /\ NoSave(FALSE) /\ UNCHANGED <<pools, siteReceipts>>
  <2>1. CapType'
    BY <1>0, <1>4, RefuseType DEF NodeReceipt, TypeOK
  <2>2. PoolType'
    BY <1>4, SameType DEF NodeReceipt
  <2>3. ProcType'
    BY <1>4, NoSaveType DEF TypeOK
  <2>4. QED
    BY <1>1, <1>2, <2>1, <2>2, <2>3 DEF TypeOK
<1>5. QED
  BY <1>3, <1>4 DEF NodeReceipt

\* AuditChallenge keeps TypeOK.
LEMMA AuditChallengeType ==
  ASSUME TypeOK, NEW c, NEW w, AuditChallenge(c, w)
  PROVE  TypeOK'
<1>1. EnvType' /\ ProcType' /\ LedgerType' /\ CapType' /\ HoldType' /\ PoolType'
  BY SameType DEF AuditChallenge, poolVars
<1>2. ReceiptType'
  BY DEF AuditChallenge, TypeOK, ReceiptType
<1>3. QED
  BY <1>1, <1>2 DEF TypeOK

\* NodeVerify keeps TypeOK.
LEMMA NodeVerifyType ==
  ASSUME TypeOK, NEW v, NEW s, NodeVerify(v, s)
  PROVE  TypeOK'
BY SameType DEF NodeVerify, TypeOK

\* Tick keeps TypeOK.
LEMMA TickType ==
  ASSUME TypeOK, Tick
  PROVE  TypeOK'
<1>1. ProcType' /\ LedgerType' /\ ReceiptType' /\ CapType' /\ HoldType' /\ PoolType'
  BY SameType DEF Tick, poolVars
<1>2. EnvType'
  BY Constants DEF Tick, TypeOK, EnvType
<1>3. QED
  BY <1>1, <1>2 DEF TypeOK

\* RegistryChange keeps TypeOK.
LEMMA RegistryChangeType ==
  ASSUME TypeOK, NEW w \in RegistryNodes, RegistryChange(w)
  PROVE  TypeOK'
<1>1. ProcType' /\ LedgerType' /\ ReceiptType' /\ CapType' /\ HoldType' /\ PoolType'
  BY SameType DEF RegistryChange, poolVars
<1>2. w \in Wallets /\ now \in Int
  BY ConstantsAssumption, Constants DEF TypeOK, EnvType
<1>3. registry' \subseteq Wallets
  BY <1>2 DEF RegistryChange, TypeOK, EnvType
<1>4. leftAt' \in [Wallets -> Int]
  BY <1>2 DEF RegistryChange, TypeOK, EnvType
<1>5. EnvType'
  BY <1>3, <1>4 DEF RegistryChange, TypeOK, EnvType
<1>6. QED
  BY <1>1, <1>5 DEF TypeOK

\* Crash keeps TypeOK.
LEMMA CrashType ==
  ASSUME TypeOK, Crash
  PROVE  TypeOK'
<1>1. EnvType' /\ LedgerType' /\ ReceiptType' /\ CapType' /\ HoldType' /\ PoolType'
  BY SameType DEF Crash, poolVars
<1>2. crashes' \in Nat
  BY DEF Crash, TypeOK, ProcType
<1>3. DiskType'
  BY DEF Crash, TypeOK, ProcType, DiskType
<1>4. ProcType'
  BY <1>2, <1>3 DEF Crash, TypeOK, ProcType
<1>5. QED
  BY <1>1, <1>4 DEF TypeOK

\* The windows, rates and counts of a new process are within the limits.
LEMMA FreshCaps ==
  /\ [k \in RateKeys |-> NoRate] \in [RateKeys -> [count : Nat, start : Int]]
  /\ [k \in CapKeys |-> NoWindow] \in [CapKeys -> [day : Nat, used : Nat]]
  /\ [k \in CapKeys |-> [d \in Days |-> 0]] \in [CapKeys -> [Days -> Nat]]
  /\ NoRate.count = 0 /\ NoWindow.used = 0
  /\ \A k : 0 <= RateMax(k) + 1 /\ 0 <= Cap(k)
<1>1. Minute \in Nat
  BY ConstantsAssumption
<1>2. NoRate \in [count : Nat, start : Int] /\ NoRate.count = 0
  BY <1>1 DEF NoRate
<1>3. NoWindow \in [day : Nat, used : Nat] /\ NoWindow.used = 0
  BY DEF NoWindow
<1>4. \A k : 0 <= RateMax(k) + 1 /\ 0 <= Cap(k)
  BY Constants
<1>5. QED
  BY <1>2, <1>3, <1>4

\* Restart keeps TypeOK.
LEMMA RestartType ==
  ASSUME TypeOK, Restart
  PROVE  TypeOK'
<1>1. EnvType'
  BY SameType DEF Restart
<1>2. credits' \in [Wallets -> Int]
  BY DEF Restart, Load, TypeOK, ProcType, DiskType, LedgerFile
<1>3. LedgerType'
  BY <1>2 DEF Restart, LedgerType
<1>4. ReceiptType'
  BY Constants DEF Restart, Snapshots, TypeOK, ReceiptType, EnvType
<1>5. CapType'
  BY FreshCaps DEF Restart, CapType
<1>6. HoldType'
  BY ConstantsAssumption DEF Restart, Load, TypeOK, ProcType, DiskType, HoldType,
       HoldsType, EmptyMap, NoCooldown
<1>7. PoolType'
  BY DEF Restart, Load, TypeOK, ProcType, DiskType, PoolType
<1>8. ProcType'
  BY DEF Restart, TypeOK, ProcType, DiskType
<1>9. QED
  BY <1>1, <1>3, <1>4, <1>5, <1>6, <1>7, <1>8 DEF TypeOK

\* The initial states have their types.
LEMMA InitType == Init => TypeOK
<1> SUFFICES ASSUME Init PROVE TypeOK
  OBVIOUS
<1>1. EnvType
  BY ConstantsAssumption DEF Init, EnvType
<1>2. LedgerType
  BY ConstantsAssumption DEF Init, LedgerType
<1>3. ReceiptType
  <2>1. nodePubkeys \subseteq Wallets /\ inflight \subseteq Request
    BY <1>1 DEF Init, Snapshots, EnvType
  <2>2. registryLoadedAt \in Int
    BY DEF Init
  <2>3. replayed \in BOOLEAN
    BY DEF Init
  <2>4. QED
    BY <2>1, <2>2, <2>3 DEF ReceiptType
<1>4. CapType
  BY FreshCaps DEF Init, CapType
<1>5. HoldType
  BY ConstantsAssumption DEF Init, HoldType, HoldsType, EmptyMap, NoCooldown
<1>6. PoolType
  BY ConstantsAssumption DEF Init, PoolType
<1>7. ProcType
  BY <1>2, <1>5, <1>6 DEF Init, ProcType, DiskType, Stores, Files, LedgerFile,
       LedgerType, HoldType, PoolType
<1>8. QED
  BY <1>1, <1>2, <1>3, <1>4, <1>5, <1>6, <1>7 DEF TypeOK

\* A stuttering step keeps every type.
LEMMA StutterType ==
  ASSUME TypeOK, UNCHANGED vars
  PROVE  TypeOK'
BY SameType DEF vars, poolVars, TypeOK

\* Every step keeps every type: one case per action.
LEMMA NextType ==
  ASSUME TypeOK, [Next]_vars
  PROVE  TypeOK'
<1>1. CASE ReceiptNext
  BY <1>1, SubmitReceiptType, CheckSignatureType, ApplyType, RejectType,
     AuditChallengeType DEF ReceiptNext, CheckAuthority
<1>2. CASE TollNext
  BY <1>2, CreateHoldType, SubmitHoldType, FinalizeApprovedType,
     FinalizeForfeitType DEF TollNext
<1>3. CASE PoolNext
  BY <1>3, NodeVerifyType, NodeReceiptType DEF PoolNext
<1>4. CASE EnvNext
  BY <1>4, TickType, CrashType, RestartType, RegistryChangeType DEF EnvNext
<1>5. CASE \E w \in Wallets, a \in Amounts : Spend(w, a)
  BY <1>5, SpendType
<1>6. QED
  BY <1>1, <1>2, <1>3, <1>4, <1>5, StutterType DEF Next

\* Every value of the coordinator's state and of DATA_DIR keeps its type, no
\* daily window is filled past its cap and no rate counter runs away.
THEOREM TypeCorrect == Spec => []TypeOK
<1>1. Init => TypeOK
  BY InitType
<1>2. TypeOK /\ [Next]_vars => TypeOK'
  BY NextType
<1>3. QED
  BY <1>1, <1>2, PTL DEF Spec

-----------------------------------------------------------------------------
(***************************************************************************)
(* The safety invariants of Coordinator, proved for all values of its      *)
(* constants.  None of them is inductive alone: each section first states  *)
(* the strengthening that is, then proves that every step keeps it.        *)
(***************************************************************************)

(* Daily caps.                                                             *)

\* A window is of today or of an earlier day, it holds what its account
\* received on that day, and nothing was received on a later day.
WindowCounts(k) ==
  /\ windows[k].day \in Days /\ windows[k].day <= Today
  /\ given[k][windows[k].day] = windows[k].used
  /\ \A d \in Days : d > windows[k].day => given[k][d] = 0

CapsInv == CapsRespected /\ \A k \in CapKeys : WindowCounts(k)

\* The day number of the clock is one of Days.
LEMMA TodayInDays ==
  ASSUME EnvType
  PROVE  Today \in Nat /\ Today \in Days
BY DivBounds, Constants DEF Today, Days, EnvType

\* Days are numbered by natural numbers.
LEMMA DaysAreNat == Days \subseteq Nat
BY DivBounds, Constants DEF Days

\* A window that was filled within its cap still counts right.
LEMMA ChargeCaps ==
  ASSUME TypeOK, CapsInv, UNCHANGED now, NEW k \in CapKeys, NEW delta \in Nat,
         Fits(k, delta), Charge(k, delta)
  PROVE  CapsInv'
<1>1. Today \in Days /\ Today \in Nat /\ Days \subseteq Nat /\ Today' = Today
  BY TodayInDays, DaysAreNat DEF TypeOK, Today
<1>2. /\ windows \in [CapKeys -> [day : Nat, used : Nat]]
      /\ given \in [CapKeys -> [Days -> Nat]]
  BY DEF TypeOK, CapType
<1>3. \A j \in CapKeys \ {k} : windows'[j] = windows[j] /\ given'[j] = given[j]
  BY <1>2 DEF Charge
<1>4. /\ windows'[k] = [day |-> Today, used |-> Rolled(windows[k]).used + delta]
      /\ given'[k] = [given[k] EXCEPT ![Today] = @ + delta]
  BY <1>1, <1>2 DEF Charge
<1>5. given[k][Today] = Rolled(windows[k]).used
  <2>1. WindowCounts(k) /\ windows[k].day \in Nat
    BY <1>2 DEF CapsInv
  <2>2. CASE windows[k].day = Today
    BY <2>1, <2>2 DEF WindowCounts, Rolled
  <2>3. CASE windows[k].day # Today
    BY <1>1, <2>1, <2>3 DEF WindowCounts, Rolled
  <2>4. QED
    BY <2>2, <2>3
<1>6. given'[k][Today] = Rolled(windows[k]).used + delta
  BY <1>1, <1>2, <1>4, <1>5
<1>7. given'[k][Today] <= Cap(k)
  BY <1>6 DEF Fits
<1>8. \A d \in Days \ {Today} : given'[k][d] = given[k][d]
  BY <1>1, <1>2, <1>4
<1>9. \A d \in Days : d > Today => given'[k][d] = 0
  <2>1. WindowCounts(k) /\ windows[k].day \in Nat
    BY <1>2 DEF CapsInv
  <2>2. \A d \in Days : d > Today => d > windows[k].day /\ d # Today
    BY <1>1, <2>1 DEF WindowCounts
  <2>3. QED
    BY <1>8, <2>1, <2>2 DEF WindowCounts
<1>10. CapsRespected'
  BY <1>3, <1>7, <1>8 DEF CapsInv, CapsRespected, Cap
<1>11. WindowCounts(k)'
  BY <1>1, <1>4, <1>6, <1>9 DEF WindowCounts
<1>12. \A j \in CapKeys \ {k} : WindowCounts(j)'
  BY <1>1, <1>3 DEF CapsInv, WindowCounts
<1>13. QED
  BY <1>10, <1>11, <1>12 DEF CapsInv

\* A refusal only empties a window of an earlier day.
LEMMA RefuseCaps ==
  ASSUME TypeOK, CapsInv, UNCHANGED now, NEW k \in CapKeys, Refuse(k)
  PROVE  CapsInv'
<1>1. Today \in Days /\ Today \in Nat /\ Days \subseteq Nat /\ Today' = Today
  BY TodayInDays, DaysAreNat DEF TypeOK, Today
<1>2. windows \in [CapKeys -> [day : Nat, used : Nat]]
  BY DEF TypeOK, CapType
<1>3. /\ given' = given /\ windows'[k] = Rolled(windows[k])
      /\ \A j \in CapKeys \ {k} : windows'[j] = windows[j]
  BY <1>2 DEF Refuse
<1>4. WindowCounts(k)'
  BY <1>1, <1>2, <1>3 DEF CapsInv, WindowCounts, Rolled
<1>5. \A j \in CapKeys \ {k} : WindowCounts(j)'
  BY <1>1, <1>3 DEF CapsInv, WindowCounts
<1>6. CapsRespected'
  BY <1>3 DEF CapsInv, CapsRespected, Cap
<1>7. QED
  BY <1>4, <1>5, <1>6 DEF CapsInv

\* A step that leaves the clock and the windows alone keeps CapsInv.
LEMMA SameCaps ==
  ASSUME CapsInv, UNCHANGED <<now, windows, given>>
  PROVE  CapsInv'
BY DEF CapsInv, CapsRespected, WindowCounts, Today, Cap

\* A new process starts to count on day 0.
LEMMA FreshWindows ==
  /\ 0 \in Days
  /\ \A n \in Nat : 0 <= n \div DayLength
  /\ \A k : 0 <= Cap(k)
<1>1. 0 \div DayLength = 0
  <2>1. DayLength \in Nat \ {0}
    BY Constants
  <2>2. QED
    BY <2>1, DivBounds, SMTT(30)
<1>2. 0 \in Days
  BY <1>1, Constants DEF Days
<1>3. QED
  BY <1>2, Constants, DivBounds

\* CapsInv holds at first: nothing has been given.
LEMMA InitCaps == Init => CapsInv
<1> SUFFICES ASSUME Init PROVE CapsInv
  OBVIOUS
<1>1. /\ \A k \in CapKeys : windows[k].day = 0 /\ windows[k].used = 0
      /\ \A k \in CapKeys, d \in Days : given[k][d] = 0
  BY DEF Init, NoWindow
<1>2. now \in Nat /\ 0 <= Today
  BY FreshWindows DEF Init, Today
<1>3. QED
  BY <1>1, <1>2, FreshWindows DEF CapsInv, CapsRespected, WindowCounts

\* Restart keeps CapsInv.
LEMMA RestartCaps ==
  ASSUME TypeOK, Restart
  PROVE  CapsInv'
<1>1. /\ \A k \in CapKeys : windows'[k].day = 0 /\ windows'[k].used = 0
      /\ \A k \in CapKeys, d \in Days : given'[k][d] = 0
  BY DEF Restart, NoWindow
<1>2. now' \in Nat /\ 0 <= Today'
  BY FreshWindows, Constants DEF Restart, envVars, Today, TypeOK, EnvType
<1>3. QED
  BY <1>1, <1>2, FreshWindows DEF CapsInv, CapsRespected, WindowCounts, Cap

\* Tick keeps CapsInv.
LEMMA TickCaps ==
  ASSUME TypeOK, CapsInv, Tick
  PROVE  CapsInv'
<1>1. now \in Nat /\ now' \in Nat /\ now <= now' /\ DayLength \in Nat \ {0}
  BY Constants DEF TypeOK, EnvType, Tick
<1>2. Today <= Today'
  BY <1>1, DivMono DEF Today
<1>3. Today \in Nat /\ Today' \in Nat
  BY <1>1, DivBounds DEF Today
<1>4. UNCHANGED <<windows, given>>
  BY DEF Tick, capVars
<1>5. \A k \in CapKeys : windows[k].day \in Nat
  BY DEF TypeOK, CapType
<1>6. QED
  BY <1>2, <1>3, <1>4, <1>5 DEF CapsInv, CapsRespected, WindowCounts, Cap

\* Apply keeps CapsInv.
LEMMA ApplyCaps ==
  ASSUME TypeOK, CapsInv, NEW r \in inflight, Apply(r)
  PROVE  CapsInv'
BY RequestFacts, ChargeCaps, RefuseCaps DEF Apply, envVars

\* Every step keeps CapsInv: one case per action.
LEMMA NextCaps ==
  ASSUME TypeOK, CapsInv, [Next]_vars
  PROVE  CapsInv'
<1>1. CASE ReceiptNext
  <2>1. ASSUME NEW q \in Reqs, NEW e \in Envelopes, SubmitReceipt(q, e) PROVE CapsInv'
    BY <2>1, SameCaps DEF SubmitReceipt, envVars
  <2>2. ASSUME NEW r \in inflight, CheckSignature(r) \/ CheckAuthority(r) PROVE CapsInv'
    <3>1. Apply(r) \/ UNCHANGED <<now, windows, given>>
      BY <2>2 DEF CheckSignature, CheckAuthority, Reject, envVars, capVars
    <3>2. QED
      BY <3>1, ApplyCaps, SameCaps
  <2>3. ASSUME NEW c, NEW w, AuditChallenge(c, w) PROVE CapsInv'
    BY <2>3, SameCaps DEF AuditChallenge, envVars, capVars
  <2>4. QED
    BY <1>1, <2>1, <2>2, <2>3 DEF ReceiptNext
<1>2. CASE TollNext
  <2>1. ASSUME NEW w, NEW s, NEW a, NEW t, CreateHold(w, s, a, t) PROVE CapsInv'
    BY <2>1, SameCaps DEF CreateHold, envVars
  <2>2. ASSUME NEW t, SubmitHold(t) PROVE CapsInv'
    BY <2>2, SameCaps DEF SubmitHold, envVars, capVars
  <2>3. ASSUME NEW t \in DOMAIN holds, NEW s \in Sites, NEW m \in Multipliers,
               FinalizeApproved(t, s, m)
        PROVE  CapsInv'
    <3> DEFINE k == <<"bonus", holds[t].wallet>>
               bonus == Bonus(holds[t].amount, m)
    <3>1. k \in CapKeys /\ bonus \in Nat
      BY HoldFacts, BonusNat, Constants
    <3>2. UNCHANGED now
      BY <2>3 DEF FinalizeApproved, envVars
    <3>3. CASE Refund(t, s)
      BY <3>2, <3>3, SameCaps DEF Refund
    <3>4. CASE RefundBonusRefused(t)
      BY <3>1, <3>2, <3>4, RefuseCaps DEF RefundBonusRefused
    <3>5. CASE Fits(k, bonus) /\ RefundWithBonus(t, s, bonus)
      BY <3>1, <3>2, <3>5, ChargeCaps DEF RefundWithBonus
    <3>6. QED
      BY <2>3, <3>3, <3>4, <3>5 DEF FinalizeApproved
  <2>4. ASSUME NEW t, NEW s, NEW result, FinalizeForfeit(t, s, result) PROVE CapsInv'
    BY <2>4, SameCaps DEF FinalizeForfeit, envVars, capVars
  <2>5. QED
    BY <1>2, <2>1, <2>2, <2>3, <2>4 DEF TollNext
<1>3. CASE PoolNext
  <2>1. ASSUME NEW v, NEW s, NodeVerify(v, s) PROVE CapsInv'
    BY <2>1, SameCaps DEF NodeVerify, envVars, capVars
  <2>2. ASSUME NEW v, NEW s \in Sites, NEW w, NodeReceipt(v, s, w) PROVE CapsInv'
    <3>1. <<"pool", s>> \in CapKeys /\ UNCHANGED now
      BY <2>2 DEF CapKeys, NodeReceipt, envVars
    <3>2. QED
      BY <2>2, <3>1, ChargeCaps, RefuseCaps DEF NodeReceipt
  <2>3. QED
    BY <1>3, <2>1, <2>2 DEF PoolNext
<1>4. CASE EnvNext
  <2>1. CASE Crash
    BY <2>1, SameCaps DEF Crash, envVars, capVars
  <2>2. ASSUME NEW w, RegistryChange(w) PROVE CapsInv'
    BY <2>2, SameCaps DEF RegistryChange, capVars
  <2>3. QED
    BY <1>4, <2>1, <2>2, TickCaps, RestartCaps DEF EnvNext
<1>5. CASE \E w \in Wallets, a \in Amounts : Spend(w, a)
  BY <1>5, SameCaps DEF Spend, envVars, capVars
<1>6. CASE UNCHANGED vars
  BY <1>6, SameCaps DEF vars, envVars, capVars
<1>7. QED
  BY <1>1, <1>2, <1>3, <1>4, <1>5, <1>6 DEF Next

\* In one run of the process no wallet is paid more than DAILY_CREDIT_CAP or
\* COMMENTS_BONUS_DAILY_CAP in a day, and no site pool earns more than
\* POOL_DAILY_CAP, for any caps and any number of concurrent requests.
THEOREM CapsCorrect == Spec => []CapsRespected
<1>1. Init => TypeOK /\ CapsInv
  BY InitType, InitCaps
<1>2. (TypeOK /\ CapsInv) /\ [Next]_vars => (TypeOK /\ CapsInv)'
  BY NextType, NextCaps
<1>3. CapsInv => CapsRespected
  BY DEF CapsInv
<1>4. QED
  BY <1>1, <1>2, <1>3, PTL DEF Spec

-----------------------------------------------------------------------------
(* The ledger.                                                             *)

\* Nothing is overdrawn on disk, and no undo will write a negative balance.
SavedFunds ==
  /\ disk["ledger"] = Torn \/ \A w \in Wallets : disk["ledger"].balance[w] >= 0
  /\ disk["pools"] = Torn \/ \A s \in Sites : disk["pools"][s] >= 0
  /\ disk["treasury"] = Torn \/ disk["treasury"] >= 0
WaitingFunds == \A r \in inflight : r.before >= 0

FundsInv == NoOverdraft /\ SavedFunds /\ WaitingFunds

\* What a save writes is not overdrawn when memory is not.
LEMMA SaveFunds ==
  ASSUME TypeOK, SavedFunds, NoOverdraft', SaveState
  PROVE  SavedFunds'
<1>1. \A f \in Files : disk'[f] \in {Stores'[f], Torn, disk[f]}
  BY SavedFiles DEF TypeOK, ProcType, DiskType
<1>2. /\ Stores'["ledger"].balance = credits' /\ Stores'["pools"] = pools'
      /\ Stores'["treasury"] = treasury'
  BY DEF Stores, Files
<1>3. "ledger" \in Files /\ "pools" \in Files /\ "treasury" \in Files
  BY DEF Files
<1>4. disk'["ledger"] = Torn \/ \A w \in Wallets : disk'["ledger"].balance[w] >= 0
  BY <1>1, <1>2, <1>3 DEF SavedFunds, NoOverdraft
<1>5. disk'["pools"] = Torn \/ \A s \in Sites : disk'["pools"][s] >= 0
  BY <1>1, <1>2, <1>3 DEF SavedFunds, NoOverdraft
<1>6. disk'["treasury"] = Torn \/ disk'["treasury"] >= 0
  BY <1>1, <1>2, <1>3 DEF SavedFunds, NoOverdraft
<1>7. QED
  BY <1>4, <1>5, <1>6 DEF SavedFunds

\* Paying in or debiting what is covered leaves no wallet overdrawn.
LEMMA BalanceFunds ==
  ASSUME TypeOK, NoOverdraft, NEW w \in Wallets, NEW b \in Nat, NEW delta, NEW other,
         SetBalance(w, b, delta, other)
  PROVE  \A x \in Wallets : credits'[x] >= 0
BY DEF SetBalance, NoOverdraft, TypeOK, LedgerType

\* A step that changes no money and adds no request keeps FundsInv.
LEMMA SameFunds ==
  ASSUME FundsInv, UNCHANGED <<credits, pools, treasury, disk>>, inflight' \subseteq inflight
  PROVE  FundsInv'
BY DEF FundsInv, NoOverdraft, SavedFunds, WaitingFunds

\* FundsInv holds at first: the ledger found on disk is not overdrawn.
LEMMA InitFunds == Init => FundsInv
BY ConstantsAssumption DEF Init, FundsInv, NoOverdraft, SavedFunds, WaitingFunds,
   Stores, Files

\* Restart keeps FundsInv.
LEMMA RestartFunds ==
  ASSUME TypeOK, FundsInv, Restart
  PROVE  FundsInv'
<1>1. \A w \in Wallets : credits'[w] >= 0
  BY DEF Restart, Load, FundsInv, SavedFunds
<1>2. \A s \in Sites : pools'[s] >= 0
  BY DEF Restart, Load, FundsInv, SavedFunds
<1>3. treasury' >= 0
  BY DEF Restart, Load, FundsInv, SavedFunds
<1>4. SavedFunds' /\ WaitingFunds'
  BY DEF Restart, FundsInv, SavedFunds, WaitingFunds
<1>5. QED
  BY <1>1, <1>2, <1>3, <1>4 DEF FundsInv, NoOverdraft

\* Spend keeps FundsInv.
LEMMA SpendFunds ==
  ASSUME TypeOK, FundsInv, NEW w \in Wallets, NEW a \in Amounts, Spend(w, a)
  PROVE  FundsInv'
<1>1. credits[w] - a \in Nat
  BY Constants DEF Spend, Covered, TypeOK, LedgerType
<1>2. NoOverdraft'
  BY <1>1, BalanceFunds DEF Spend, FundsInv, NoOverdraft, poolVars
<1>3. SavedFunds'
  BY <1>2, SaveFunds DEF Spend, FundsInv
<1>4. WaitingFunds'
  BY DEF Spend, FundsInv, WaitingFunds, receiptVars
<1>5. QED
  BY <1>2, <1>3, <1>4 DEF FundsInv

\* SubmitReceipt keeps FundsInv.
LEMMA SubmitReceiptFunds ==
  ASSUME TypeOK, FundsInv, NEW q \in Reqs, NEW e \in Envelopes, SubmitReceipt(q, e)
  PROVE  FundsInv'
<1>1. NoOverdraft' /\ SavedFunds'
  BY DEF SubmitReceipt, FundsInv, NoOverdraft, SavedFunds, procVars, ledgerVars, poolVars
<1>2. e.node \in Wallets
  BY ConstantsAssumption DEF EnvelopeType
<1>3. inflight' = inflight \/ Await(q, e)
  BY DEF SubmitReceipt
<1>4. WaitingFunds'
  BY <1>2, <1>3 DEF Await, FundsInv, WaitingFunds, NoOverdraft
<1>5. QED
  BY <1>1, <1>4 DEF FundsInv

\* Apply keeps FundsInv.
LEMMA ApplyFunds ==
  ASSUME TypeOK, FundsInv, NEW r \in inflight, Apply(r)
  PROVE  FundsInv'
<1> DEFINE w == r.env.node
           k == <<"credit", w>>
           delta == CreditDelta(r.env.type)
           rest == inflight \ {r}
<1>0. w \in Wallets /\ r.before \in Int /\ r.before >= 0 /\ delta \in Nat
  BY RequestFacts DEF FundsInv, WaitingFunds
<1>1. WaitingFunds' /\ UNCHANGED <<pools, treasury>>
  BY DEF Apply, FundsInv, WaitingFunds, poolVars
<1>2. CASE SetBalance(w, credits[w] + delta, delta, rest) /\ SaveState
  <2>1. credits[w] + delta \in Nat
    BY <1>0 DEF FundsInv, NoOverdraft, TypeOK, LedgerType
  <2>2. NoOverdraft'
    BY <1>0, <1>1, <1>2, <2>1, BalanceFunds DEF FundsInv, NoOverdraft
  <2>3. QED
    BY <1>1, <1>2, <2>2, SaveFunds DEF FundsInv
<1>3. CASE credits' = [credits EXCEPT ![w] = Undone(r)] /\ NoSave(FALSE)
  <2>1. NoOverdraft'
    BY <1>0, <1>1, <1>3 DEF Undone, FundsInv, NoOverdraft, TypeOK, LedgerType
  <2>2. SavedFunds'
    BY <1>3 DEF NoSave, FundsInv, SavedFunds
  <2>3. QED
    BY <1>1, <2>1, <2>2 DEF FundsInv
<1>4. QED
  BY <1>2, <1>3 DEF Apply

\* CheckSignature and CheckAuthority keep FundsInv.
LEMMA CheckFunds ==
  ASSUME TypeOK, FundsInv, NEW r \in inflight, CheckSignature(r) \/ CheckAuthority(r)
  PROVE  FundsInv'
<1>1. CASE Apply(r)
  BY <1>1, ApplyFunds
<1>2. CASE Reject(r)
  BY <1>2, SameFunds DEF Reject, procVars, ledgerVars, poolVars
<1>3. CASE /\ inflight' = (inflight \ {r}) \cup {[r EXCEPT !.stage = "authority"]}
           /\ UNCHANGED <<procVars, ledgerVars, poolVars>>
  <2>1. [r EXCEPT !.stage = "authority"].before = r.before
    BY RequestFacts DEF Request
  <2>2. WaitingFunds'
    BY <1>3, <2>1 DEF FundsInv, WaitingFunds
  <2>3. NoOverdraft' /\ SavedFunds'
    BY <1>3 DEF FundsInv, NoOverdraft, SavedFunds, procVars, ledgerVars, poolVars
  <2>4. QED
    BY <2>2, <2>3 DEF FundsInv
<1>4. QED
  BY <1>1, <1>2, <1>3 DEF CheckSignature, CheckAuthority

\* CreateHold keeps FundsInv.
LEMMA CreateHoldFunds ==
  ASSUME TypeOK, FundsInv, NEW w \in Wallets, NEW s \in Sites, NEW a \in Amounts,
         NEW t \in Tickets, CreateHold(w, s, a, t)
  PROVE  FundsInv'
<1>1. UNCHANGED <<inflight, pools, treasury>>
  BY DEF CreateHold, receiptVars, poolVars
<1>2. CASE UNCHANGED <<procVars, ledgerVars>>
  BY <1>1, <1>2, SameFunds DEF procVars, ledgerVars
<1>3. CASE Covered(w, a) /\ GrantHold(w, s, a, t)
  <2>1. credits[w] - a \in Nat
    BY <1>3, Constants DEF Covered, TypeOK, LedgerType
  <2>2. NoOverdraft'
    BY <1>1, <1>3, <2>1, BalanceFunds DEF GrantHold, FundsInv, NoOverdraft
  <2>3. SavedFunds'
    BY <1>3, <2>2, SaveFunds DEF GrantHold, FundsInv
  <2>4. QED
    BY <1>1, <2>2, <2>3 DEF FundsInv, WaitingFunds
<1>4. QED
  BY <1>2, <1>3 DEF CreateHold

\* SubmitHold keeps FundsInv.
LEMMA SubmitHoldFunds ==
  ASSUME TypeOK, FundsInv, NEW t, SubmitHold(t)
  PROVE  FundsInv'
<1>1. NoOverdraft' /\ WaitingFunds'
  BY DEF SubmitHold, FundsInv, NoOverdraft, WaitingFunds, ledgerVars, poolVars, receiptVars
<1>2. SavedFunds'
  BY <1>1, SaveFunds DEF SubmitHold, FundsInv
<1>3. QED
  BY <1>1, <1>2 DEF FundsInv

\* FinalizeApproved keeps FundsInv.
LEMMA FinalizeApprovedFunds ==
  ASSUME TypeOK, FundsInv, NEW t \in DOMAIN holds, NEW s \in Sites,
         NEW m \in Multipliers, FinalizeApproved(t, s, m)
  PROVE  FundsInv'
<1> DEFINE w == holds[t].wallet
           a == holds[t].amount
           bonus == Bonus(a, m)
<1>0. w \in Wallets /\ a \in Nat /\ bonus \in Nat
  BY HoldFacts, BonusNat, Constants
<1>1. WaitingFunds' /\ UNCHANGED treasury
  BY DEF FinalizeApproved, FundsInv, WaitingFunds, receiptVars
<1>2. credits[w] + a \in Nat
  BY <1>0 DEF FundsInv, NoOverdraft, TypeOK, LedgerType
<1>3. CASE Refund(t, s)
  <2>1. NoOverdraft'
    BY <1>0, <1>1, <1>2, <1>3, BalanceFunds DEF Refund, FundsInv, NoOverdraft
  <2>2. QED
    BY <1>1, <1>3, <2>1, SaveFunds DEF Refund, FundsInv
<1>4. CASE RefundBonusRefused(t)
  <2>1. NoOverdraft'
    BY <1>0, <1>1, <1>2, <1>4, BalanceFunds DEF RefundBonusRefused, FundsInv, NoOverdraft
  <2>2. SavedFunds'
    BY <1>4 DEF RefundBonusRefused, NoSave, FundsInv, SavedFunds
  <2>3. QED
    BY <1>1, <2>1, <2>2 DEF FundsInv
<1>5. CASE RefundWithBonus(t, s, bonus)
  <2> DEFINE paid == IF pools[s] >= bonus THEN bonus ELSE 0
  <2>1. paid \in Nat /\ pools[s] - paid >= 0
    BY <1>0 DEF FundsInv, NoOverdraft, TypeOK, PoolType
  <2>2. credits[w] + a + paid \in Nat
    BY <1>2, <2>1
  <2>3. \A x \in Wallets : credits'[x] >= 0
    BY <1>0, <1>5, <2>2, BalanceFunds DEF RefundWithBonus, FundsInv
  <2>4. \A x \in Sites : pools'[x] >= 0
    BY <1>5, <2>1 DEF RefundWithBonus, FundsInv, NoOverdraft, TypeOK, PoolType
  <2>5. NoOverdraft'
    BY <1>1, <2>3, <2>4 DEF FundsInv, NoOverdraft
  <2>6. QED
    BY <1>1, <1>5, <2>5, SaveFunds DEF RefundWithBonus, FundsInv
<1>6. QED
  BY <1>3, <1>4, <1>5 DEF FinalizeApproved

\* FinalizeForfeit keeps FundsInv.
LEMMA FinalizeForfeitFunds ==
  ASSUME TypeOK, FundsInv, NEW t \in DOMAIN holds, NEW s \in Sites, NEW result,
         FinalizeForfeit(t, s, result)
  PROVE  FundsInv'
<1> DEFINE a == holds[t].amount
<1>1. a \in Nat
  BY HoldFacts
<1>2. PoolShare(a) \in Nat /\ a - PoolShare(a) \in Nat
  BY <1>1, PoolShareBounds
<1>3. TreasuryShare(a) \in Nat
  BY <1>2 DEF TreasuryShare
<1>4. NoOverdraft'
  <2>1. UNCHANGED credits
    BY DEF FinalizeForfeit, ledgerVars
  <2>2. treasury' >= 0
    BY <1>3 DEF FinalizeForfeit, FundsInv, NoOverdraft, TypeOK, PoolType
  <2>3. \A x \in Sites : pools'[x] >= 0
    BY <1>2 DEF FinalizeForfeit, FundsInv, NoOverdraft, TypeOK, PoolType
  <2>4. QED
    BY <2>1, <2>2, <2>3 DEF FundsInv, NoOverdraft
<1>5. SavedFunds'
  BY <1>4, SaveFunds DEF FinalizeForfeit, FundsInv
<1>6. QED
  BY <1>4, <1>5 DEF FinalizeForfeit, FundsInv, WaitingFunds, receiptVars

\* NodeReceipt keeps FundsInv.
LEMMA NodeReceiptFunds ==
  ASSUME TypeOK, FundsInv, NEW v, NEW s \in Sites, NEW n, NodeReceipt(v, s, n)
  PROVE  FundsInv'
<1>1. UNCHANGED <<credits, inflight, treasury>>
  BY DEF NodeReceipt, receiptVars
<1>2. CASE pools' = [pools EXCEPT ![s] = @ + 1] /\ SaveState
  <2>1. NoOverdraft'
    BY <1>1, <1>2 DEF FundsInv, NoOverdraft, TypeOK, PoolType
  <2>2. QED
    BY <1>1, <1>2, <2>1, SaveFunds DEF FundsInv, WaitingFunds
<1>3. CASE NoSave(FALSE) /\ UNCHANGED pools
  BY <1>1, <1>3, SameFunds DEF NoSave
<1>4. QED
  BY <1>2, <1>3 DEF NodeReceipt

\* Every step keeps FundsInv: one case per action.
LEMMA NextFunds ==
  ASSUME TypeOK, FundsInv, [Next]_vars
  PROVE  FundsInv'
<1>1. CASE ReceiptNext
  <2>1. ASSUME NEW c, NEW w, AuditChallenge(c, w) PROVE FundsInv'
    BY <2>1, SameFunds DEF AuditChallenge, procVars, ledgerVars, poolVars
  <2>2. QED
    BY <1>1, <2>1, SubmitReceiptFunds, CheckFunds DEF ReceiptNext
<1>2. CASE TollNext
  BY <1>2, CreateHoldFunds, SubmitHoldFunds, FinalizeApprovedFunds,
     FinalizeForfeitFunds DEF TollNext
<1>3. CASE PoolNext
  <2>1. ASSUME NEW v, NEW s, NodeVerify(v, s) PROVE FundsInv'
    BY <2>1, SameFunds DEF NodeVerify, procVars, ledgerVars, receiptVars
  <2>2. QED
    BY <1>3, <2>1, NodeReceiptFunds DEF PoolNext
<1>4. CASE EnvNext
  <2>1. ASSUME Tick \/ (\E w : RegistryChange(w)) \/ Crash PROVE FundsInv'
    BY <2>1, SameFunds DEF Tick, RegistryChange, Crash, procVars, ledgerVars,
       receiptVars, poolVars
  <2>2. QED
    BY <1>4, <2>1, RestartFunds DEF EnvNext
<1>5. CASE \E w \in Wallets, a \in Amounts : Spend(w, a)
  BY <1>5, SpendFunds
<1>6. CASE UNCHANGED vars
  BY <1>6, SameFunds DEF vars, procVars, ledgerVars, receiptVars, poolVars
<1>7. QED
  BY <1>1, <1>2, <1>3, <1>4, <1>5, <1>6 DEF Next

\* No wallet, no pool and not the treasury is ever overdrawn: the guards of
\* spendCredits, createHold and the bonus hold up against every interleaving
\* with the undo of a capped receipt and against every crash in saveState.
THEOREM FundsCorrect == Spec => []NoOverdraft
<1>1. Init => TypeOK /\ FundsInv
  BY InitType, InitFunds
<1>2. (TypeOK /\ FundsInv) /\ [Next]_vars => (TypeOK /\ FundsInv)'
  BY NextType, NextFunds
<1>3. FundsInv => NoOverdraft
  BY DEF FundsInv
<1>4. QED
  BY <1>1, <1>2, <1>3, PTL DEF Spec

-----------------------------------------------------------------------------
(* Balances and the answers given.                                         *)

\* What POST /receipts read before its await is still the balance, unless
\* the wallet is raced.
BeforeIsCurrent ==
  \A r \in inflight : r.env.node \notin raced => r.before = credits[r.env.node]

DerivedInv == BalanceIsDerived /\ BeforeIsCurrent

\* A step that answers with a change of a balance, and leaves only the
\* requests of other waiting.
LEMMA BalanceDerived ==
  ASSUME TypeOK, DerivedInv, NEW w \in Wallets, NEW b \in Int, NEW delta \in Int,
         b = credits[w] + delta,
         NEW other \in SUBSET inflight, inflight' = other, SetBalance(w, b, delta, other)
  PROVE  DerivedInv'
<1>1. credits \in [Wallets -> Int] /\ net \in [Wallets -> Int]
  BY DEF TypeOK, LedgerType
<1>2. \A x \in Wallets \ {w} : credits'[x] = credits[x] /\ net'[x] = net[x]
  BY <1>1 DEF SetBalance
<1>3. credits'[w] = b /\ raced \subseteq raced'
  BY <1>1 DEF SetBalance
<1>4. w \notin raced' => net'[w] = net[w] + delta
  BY <1>1 DEF SetBalance
<1>5. BalanceIsDerived'
  BY <1>2, <1>3, <1>4 DEF DerivedInv, BalanceIsDerived
<1>6. \A r \in other : r.env.node = w => w \in raced'
  BY DEF SetBalance
<1>7. BeforeIsCurrent'
  BY <1>2, <1>3, <1>6, RequestFacts DEF DerivedInv, BeforeIsCurrent
<1>8. QED
  BY <1>5, <1>7 DEF DerivedInv

\* A step that changes no balance and adds no request keeps DerivedInv.
LEMMA SameDerived ==
  ASSUME DerivedInv, UNCHANGED ledgerVars, inflight' \subseteq inflight
  PROVE  DerivedInv'
BY DEF DerivedInv, BalanceIsDerived, BeforeIsCurrent, ledgerVars

\* SubmitReceipt keeps DerivedInv.
LEMMA SubmitReceiptDerived ==
  ASSUME TypeOK, DerivedInv, NEW q \in Reqs, NEW e \in Envelopes, SubmitReceipt(q, e)
  PROVE  DerivedInv'
<1>1. UNCHANGED <<credits, net, raced>>
  BY DEF SubmitReceipt, ledgerVars
<1>2. inflight' = inflight \/ Await(q, e)
  BY DEF SubmitReceipt
<1>3. BeforeIsCurrent'
  BY <1>1, <1>2 DEF Await, DerivedInv, BeforeIsCurrent
<1>4. QED
  BY <1>1, <1>3 DEF DerivedInv, BalanceIsDerived

\* The undo of a capped receipt changes nothing when no request raced it.
LEMMA ApplyDerived ==
  ASSUME TypeOK, DerivedInv, NEW r \in inflight, Apply(r)
  PROVE  DerivedInv'
<1> DEFINE w == r.env.node
           delta == CreditDelta(r.env.type)
           rest == inflight \ {r}
<1>0. w \in Wallets /\ r.before \in Int /\ delta \in Nat
  BY RequestFacts
<1>1. inflight' = rest
  BY DEF Apply
<1>2. CASE SetBalance(w, credits[w] + delta, delta, rest)
  <2>1. credits[w] + delta \in Int
    BY <1>0 DEF TypeOK, LedgerType
  <2>2. QED
    BY <1>0, <1>1, <1>2, <2>1, BalanceDerived
<1>3. CASE credits' = [credits EXCEPT ![w] = Undone(r)] /\ UNCHANGED <<net, raced>>
  <2>1. \A x \in Wallets \ raced : credits'[x] = credits[x]
    BY <1>0, <1>3 DEF Undone, DerivedInv, BeforeIsCurrent, TypeOK, LedgerType
  <2>2. BalanceIsDerived'
    BY <1>3, <2>1 DEF DerivedInv, BalanceIsDerived
  <2>3. BeforeIsCurrent'
    BY <1>1, <1>3, <2>1, RequestFacts DEF DerivedInv, BeforeIsCurrent
  <2>4. QED
    BY <2>2, <2>3 DEF DerivedInv
<1>4. QED
  BY <1>2, <1>3 DEF Apply

\* CheckSignature and CheckAuthority keep DerivedInv.
LEMMA CheckDerived ==
  ASSUME TypeOK, DerivedInv, NEW r \in inflight, CheckSignature(r) \/ CheckAuthority(r)
  PROVE  DerivedInv'
<1>1. CASE Apply(r)
  BY <1>1, ApplyDerived
<1>2. CASE Reject(r)
  BY <1>2, SameDerived DEF Reject
<1>3. CASE /\ inflight' = (inflight \ {r}) \cup {[r EXCEPT !.stage = "authority"]}
           /\ UNCHANGED ledgerVars
  <2>1. /\ [r EXCEPT !.stage = "authority"].before = r.before
        /\ [r EXCEPT !.stage = "authority"].env = r.env
    BY RequestFacts DEF Request
  <2>2. BeforeIsCurrent'
    BY <1>3, <2>1 DEF DerivedInv, BeforeIsCurrent, ledgerVars
  <2>3. QED
    BY <1>3, <2>2 DEF DerivedInv, BalanceIsDerived, ledgerVars
<1>4. QED
  BY <1>1, <1>2, <1>3 DEF CheckSignature, CheckAuthority

\* Spend keeps DerivedInv.
LEMMA SpendDerived ==
  ASSUME TypeOK, DerivedInv, NEW w \in Wallets, NEW a \in Amounts, Spend(w, a)
  PROVE  DerivedInv'
<1>1. /\ credits[w] - a \in Int /\ -a \in Int
      /\ credits[w] - a = credits[w] + (-a)
  BY Constants DEF TypeOK, LedgerType
<1>2. QED
  BY <1>1, BalanceDerived DEF Spend, receiptVars

\* CreateHold keeps DerivedInv.
LEMMA CreateHoldDerived ==
  ASSUME TypeOK, DerivedInv, NEW w \in Wallets, NEW s, NEW a \in Amounts, NEW t,
         CreateHold(w, s, a, t)
  PROVE  DerivedInv'
<1>1. /\ credits[w] - a \in Int /\ -a \in Int
      /\ credits[w] - a = credits[w] + (-a)
  BY Constants DEF TypeOK, LedgerType
<1>2. inflight' = inflight
  BY DEF CreateHold, receiptVars
<1>3. CASE UNCHANGED ledgerVars
  BY <1>2, <1>3, SameDerived
<1>4. CASE GrantHold(w, s, a, t)
  BY <1>1, <1>2, <1>4, BalanceDerived DEF GrantHold
<1>5. QED
  BY <1>3, <1>4 DEF CreateHold

\* FinalizeApproved keeps DerivedInv.
LEMMA FinalizeApprovedDerived ==
  ASSUME TypeOK, DerivedInv, NEW t \in DOMAIN holds, NEW s \in Sites,
         NEW m \in Multipliers, FinalizeApproved(t, s, m)
  PROVE  DerivedInv'
<1> DEFINE w == holds[t].wallet
           a == holds[t].amount
           bonus == Bonus(a, m)
           paid == IF pools[s] >= bonus THEN bonus ELSE 0
<1>0. w \in Wallets /\ a \in Nat /\ bonus \in Nat /\ paid \in Nat
  BY HoldFacts, BonusNat, Constants
<1>1. inflight' = inflight
  BY DEF FinalizeApproved, receiptVars
<1>2. /\ credits[w] + a \in Int /\ a \in Int
      /\ credits[w] + a + paid \in Int /\ a + paid \in Int
      /\ credits[w] + a + paid = credits[w] + (a + paid)
  BY <1>0 DEF TypeOK, LedgerType
<1>3. CASE Refund(t, s) \/ RefundBonusRefused(t)
  BY <1>0, <1>1, <1>2, <1>3, BalanceDerived DEF Refund, RefundBonusRefused
<1>4. CASE RefundWithBonus(t, s, bonus)
  BY <1>0, <1>1, <1>2, <1>4, BalanceDerived DEF RefundWithBonus
<1>5. QED
  BY <1>3, <1>4 DEF FinalizeApproved

\* Every step keeps DerivedInv: one case per action.
LEMMA NextDerived ==
  ASSUME TypeOK, DerivedInv, [Next]_vars
  PROVE  DerivedInv'
<1>1. CASE ReceiptNext
  <2>1. ASSUME NEW c, NEW w, AuditChallenge(c, w) PROVE DerivedInv'
    BY <2>1, SameDerived DEF AuditChallenge
  <2>2. QED
    BY <1>1, <2>1, SubmitReceiptDerived, CheckDerived DEF ReceiptNext
<1>2. CASE TollNext
  <2>1. ASSUME NEW t, SubmitHold(t) PROVE DerivedInv'
    BY <2>1, SameDerived DEF SubmitHold, receiptVars
  <2>2. ASSUME NEW t, NEW s, NEW result, FinalizeForfeit(t, s, result) PROVE DerivedInv'
    BY <2>2, SameDerived DEF FinalizeForfeit, receiptVars
  <2>3. QED
    BY <1>2, <2>1, <2>2, CreateHoldDerived, FinalizeApprovedDerived DEF TollNext
<1>3. CASE PoolNext
  <2>1. ASSUME NEW v, NEW s, NodeVerify(v, s) PROVE DerivedInv'
    BY <2>1, SameDerived DEF NodeVerify, receiptVars
  <2>2. ASSUME NEW v, NEW s, NEW n, NodeReceipt(v, s, n) PROVE DerivedInv'
    BY <2>2, SameDerived DEF NodeReceipt, receiptVars, ledgerVars
  <2>3. QED
    BY <1>3, <2>1, <2>2 DEF PoolNext
<1>4. CASE EnvNext
  <2>1. ASSUME Tick \/ (\E w : RegistryChange(w)) \/ Crash PROVE DerivedInv'
    BY <2>1, SameDerived DEF Tick, RegistryChange, Crash, receiptVars
  <2>2. ASSUME Restart PROVE DerivedInv'
    BY <2>2 DEF Restart, DerivedInv, BalanceIsDerived, BeforeIsCurrent
  <2>3. QED
    BY <1>4, <2>1, <2>2 DEF EnvNext
<1>5. CASE \E w \in Wallets, a \in Amounts : Spend(w, a)
  BY <1>5, SpendDerived
<1>6. CASE UNCHANGED vars
  BY <1>6, SameDerived DEF vars, receiptVars
<1>7. QED
  BY <1>1, <1>2, <1>3, <1>4, <1>5, <1>6 DEF Next

\* The balance of a wallet that was not raced is what the answers to its
\* requests add up to: the undo of a capped receipt takes back that credit.
THEOREM DerivedCorrect == Spec => []BalanceIsDerived
<1>1. Init => TypeOK /\ DerivedInv
  <2>1. Init => DerivedInv
    BY DEF Init, DerivedInv, BalanceIsDerived, BeforeIsCurrent
  <2>2. QED
    BY <2>1, InitType
<1>2. (TypeOK /\ DerivedInv) /\ [Next]_vars => (TypeOK /\ DerivedInv)'
  BY NextType, NextDerived
<1>3. DerivedInv => BalanceIsDerived
  BY DEF DerivedInv
<1>4. QED
  BY <1>1, <1>2, <1>3, PTL DEF Spec

-----------------------------------------------------------------------------
(* The registry cache.                                                     *)

\* A cached node was in the registry when the cache was loaded.
CacheIsRecent ==
  /\ registryLoadedAt <= now
  /\ \A n \in nodePubkeys : n \in registry \/ leftAt[n] >= registryLoadedAt
ArrivedBefore == \A r \in inflight : r.at <= now

RegistryInv == RegistryStalenessBounded /\ CacheIsRecent /\ ArrivedBefore

\* What is used of the constant REGISTRY_TTL.
LEMMA TtlPositive == RegistryTtl \in Nat \ {0}
BY ConstantsAssumption

\* A step that leaves the registry, its cache and the clock alone keeps
\* RegistryInv.
LEMMA SameRegistry ==
  ASSUME RegistryInv,
         UNCHANGED <<envVars, nodePubkeys, registryLoadedAt>>, inflight' \subseteq inflight
  PROVE  RegistryInv'
BY DEF RegistryInv, RegistryStalenessBounded, CacheIsRecent, ArrivedBefore, envVars

\* SubmitReceipt keeps RegistryInv.
LEMMA SubmitReceiptRegistry ==
  ASSUME TypeOK, RegistryInv, NEW q \in Reqs, NEW e \in Envelopes, SubmitReceipt(q, e)
  PROVE  RegistryInv'
<1>1. UNCHANGED <<now, registry, leftAt>> /\ RefreshNodePubkeys
  BY DEF SubmitReceipt, envVars
<1>2. /\ now \in Int /\ registryLoadedAt \in Int /\ leftAt \in [Wallets -> Int]
      /\ nodePubkeys \subseteq Wallets
  BY Constants DEF TypeOK, EnvType, ReceiptType
<1>3. CASE now - registryLoadedAt < RegistryTtl
  <2>1. UNCHANGED <<nodePubkeys, registryLoadedAt>>
    BY <1>1, <1>3 DEF RefreshNodePubkeys
  <2>2. \A n \in nodePubkeys : n \in registry \/ leftAt[n] > now - RegistryTtl
    BY <1>2, <1>3, TtlPositive DEF RegistryInv, CacheIsRecent
  <2>3. CacheIsRecent'
    BY <1>1, <2>1 DEF RegistryInv, CacheIsRecent
  <2>4. QED
    BY <1>1, <1>2, <2>1, <2>2, <2>3 DEF SubmitReceipt, Await, RegistryInv,
       RegistryStalenessBounded, ArrivedBefore
<1>4. CASE ~(now - registryLoadedAt < RegistryTtl)
  <2>1. nodePubkeys' \subseteq registry /\ registryLoadedAt' = now
    BY <1>1, <1>4 DEF RefreshNodePubkeys, Snapshots
  <2>2. QED
    BY <1>1, <1>2, <2>1 DEF SubmitReceipt, Await, RegistryInv,
       RegistryStalenessBounded, ArrivedBefore, CacheIsRecent
<1>5. QED
  BY <1>3, <1>4

\* CheckSignature and CheckAuthority keep RegistryInv.
LEMMA CheckRegistry ==
  ASSUME TypeOK, RegistryInv, NEW r \in inflight, CheckSignature(r) \/ CheckAuthority(r)
  PROVE  RegistryInv'
<1>1. UNCHANGED <<envVars, nodePubkeys, registryLoadedAt>>
  BY DEF CheckSignature, CheckAuthority, Apply, Reject
<1>2. CASE inflight' = inflight \ {r}
  BY <1>1, <1>2, SameRegistry
<1>3. CASE inflight' = (inflight \ {r}) \cup {[r EXCEPT !.stage = "authority"]}
  <2>1. /\ [r EXCEPT !.stage = "authority"].at = r.at
        /\ [r EXCEPT !.stage = "authority"].env = r.env
    BY RequestFacts DEF Request
  <2>2. QED
    BY <1>1, <1>3, <2>1 DEF RegistryInv, RegistryStalenessBounded, CacheIsRecent,
       ArrivedBefore, envVars
<1>4. QED
  BY <1>2, <1>3 DEF CheckSignature, CheckAuthority, Apply, Reject

\* Tick keeps RegistryInv.
LEMMA TickRegistry ==
  ASSUME TypeOK, RegistryInv, Tick
  PROVE  RegistryInv'
<1>1. /\ now \in Int /\ now' = now + 1 /\ registryLoadedAt \in Int
      /\ UNCHANGED <<registry, leftAt, nodePubkeys, registryLoadedAt, inflight>>
  BY Constants DEF TypeOK, EnvType, ReceiptType, Tick, receiptVars
<1>2. \A r \in inflight : r.at \in Int
  BY RequestFacts DEF Request
<1>3. QED
  BY <1>1, <1>2 DEF RegistryInv, RegistryStalenessBounded, CacheIsRecent, ArrivedBefore

\* RegistryChange keeps RegistryInv.
LEMMA RegistryChangeRegistry ==
  ASSUME TypeOK, RegistryInv, NEW w \in RegistryNodes, RegistryChange(w)
  PROVE  RegistryInv'
<1>1. /\ w \in Wallets /\ now \in Int /\ leftAt \in [Wallets -> Int]
      /\ registryLoadedAt \in Int /\ nodePubkeys \subseteq Wallets
  BY ConstantsAssumption, Constants DEF TypeOK, EnvType, ReceiptType
<1>2. UNCHANGED <<now, nodePubkeys, registryLoadedAt, inflight>>
  BY DEF RegistryChange, receiptVars
<1>3. \A n \in Wallets : \/ n \in registry' /\ leftAt'[n] = leftAt[n]
                         \/ n \notin registry /\ leftAt'[n] = leftAt[n]
                         \/ leftAt'[n] = now
  BY <1>1 DEF RegistryChange
<1>4. \A r \in inflight : r.at \in Int /\ r.env.node \in Wallets
  BY RequestFacts DEF Request
<1>5. CacheIsRecent'
  BY <1>1, <1>2, <1>3 DEF RegistryInv, CacheIsRecent
<1>6. RegistryStalenessBounded'
  BY <1>1, <1>2, <1>3, <1>4, TtlPositive DEF RegistryInv, RegistryStalenessBounded, ArrivedBefore
<1>7. QED
  BY <1>2, <1>5, <1>6 DEF RegistryInv, ArrivedBefore

\* Every step keeps RegistryInv: one case per action.
LEMMA NextRegistry ==
  ASSUME TypeOK, RegistryInv, [Next]_vars
  PROVE  RegistryInv'
<1>1. CASE ReceiptNext
  <2>1. ASSUME NEW c, NEW w, AuditChallenge(c, w) PROVE RegistryInv'
    BY <2>1, SameRegistry DEF AuditChallenge
  <2>2. QED
    BY <1>1, <2>1, SubmitReceiptRegistry, CheckRegistry DEF ReceiptNext
<1>2. CASE TollNext
  BY <1>2, SameRegistry DEF TollNext, CreateHold, SubmitHold, FinalizeApproved,
     FinalizeForfeit, receiptVars
<1>3. CASE PoolNext
  BY <1>3, SameRegistry DEF PoolNext, NodeVerify, NodeReceipt, receiptVars
<1>4. CASE EnvNext
  <2>1. ASSUME Crash PROVE RegistryInv'
    BY <2>1, SameRegistry DEF Crash, receiptVars
  <2>2. ASSUME Restart PROVE RegistryInv'
    BY <2>2, Constants DEF Restart, Snapshots, RegistryInv, RegistryStalenessBounded, CacheIsRecent,
       ArrivedBefore, envVars, TypeOK, EnvType
  <2>3. QED
    BY <1>4, <2>1, <2>2, TickRegistry, RegistryChangeRegistry DEF EnvNext
<1>5. CASE \E w \in Wallets, a \in Amounts : Spend(w, a)
  BY <1>5, SameRegistry DEF Spend, receiptVars
<1>6. CASE UNCHANGED vars
  BY <1>6, SameRegistry DEF vars, receiptVars
<1>7. QED
  BY <1>1, <1>2, <1>3, <1>4, <1>5, <1>6 DEF Next

\* No receipt of a node is processed unless the node has a passport, or was
\* in the registry less than the cache's lifetime before the request came.
THEOREM RegistryCorrect == Spec => []RegistryStalenessBounded
<1>1. Init => TypeOK /\ RegistryInv
  <2>1. Init => RegistryInv
    BY DEF Init, Snapshots, RegistryInv, RegistryStalenessBounded, CacheIsRecent, ArrivedBefore
  <2>2. QED
    BY <2>1, InitType
<1>2. (TypeOK /\ RegistryInv) /\ [Next]_vars => (TypeOK /\ RegistryInv)'
  BY NextType, NextRegistry
<1>3. RegistryInv => RegistryStalenessBounded
  BY DEF RegistryInv
<1>4. QED
  BY <1>1, <1>2, <1>3, PTL DEF Spec

-----------------------------------------------------------------------------
(* Tickets and crashes.                                                    *)

\* Two holds that differ in nothing but status and site.
SameTicket(g, h) ==
  g.wallet = h.wallet /\ g.amount = h.amount /\ g.expiresAt = h.expiresAt

\* The tickets on disk are tickets in memory, perhaps in an older state.
SavedTickets ==
  disk["holds"] # Torn =>
    /\ DOMAIN disk["holds"] \subseteq DOMAIN holds
    /\ \A t \in DOMAIN disk["holds"] : SameTicket(disk["holds"][t], holds[t])

TicketInv == NoUnpaidTicket /\ SavedTickets /\ DOMAIN holds \subseteq issued

\* How a step may change the holds in memory.
KeepsTickets ==
  /\ DOMAIN holds \subseteq DOMAIN holds' /\ issued \subseteq issued'
  /\ \A t \in DOMAIN holds : SameTicket(holds[t], holds'[t])

\* The ledger is written before the tickets, so no crash leaves a ticket on
\* disk without its debit.
LEMMA SaveOrder ==
  ASSUME SaveState, DOMAIN disk = Files
  PROVE  \/ disk'["holds"] \in {disk["holds"], Torn} /\
               disk'["ledger"] \in {disk["ledger"], Torn, Stores'["ledger"]}
         \/ disk'["ledger"] = Stores'["ledger"] /\ disk'["holds"] = Stores'["holds"]
<1> DEFINE new == Stores'
<1>0. "ledger" \in Files /\ "holds" \in Files
  BY DEF Files
<1>1. CASE disk' = new
  BY <1>1
<1>2. CASE DieInSave(new)
  <2> HIDE DEF new
  <2>1. PICK k \in 1..Len(FileOrder), torn \in BOOLEAN :
          disk' = [f \in Files |->
                    IF \E i \in 1..(k - 1) : FileOrder[i] = f THEN new[f]
                    ELSE IF torn /\ FileOrder[k] = f THEN Torn ELSE disk[f]]
    BY <1>2 DEF DieInSave
  <2>2. k \in 1..5 /\ FileOrder[1] = "ledger" /\ FileOrder[2] = "holds"
        /\ FileOrder[3] = "pools" /\ FileOrder[4] = "treasury" /\ FileOrder[5] = "receipts"
    BY <2>1 DEF FileOrder
  <2>3. CASE k \in {1, 2}
    BY <1>0, <2>1, <2>2, <2>3 DEF new
  <2>4. CASE k \in {3, 4, 5}
    <3>1. 1 \in 1..(k - 1) /\ 2 \in 1..(k - 1)
      BY <2>4
    <3>2. disk'["ledger"] = new["ledger"] /\ disk'["holds"] = new["holds"]
      BY <1>0, <2>1, <2>2, <3>1
    <3>3. QED
      BY <3>2 DEF new
  <2>5. QED
    BY <2>2, <2>3, <2>4
<1>3. QED
  BY <1>1, <1>2 DEF SaveState

\* A save keeps TicketInv wherever the process dies in it, because the
\* ledger is written before the tickets.
LEMMA SaveTickets ==
  ASSUME TypeOK, TicketInv, KeepsTickets, DOMAIN holds' \subseteq issued', SaveState
  PROVE  TicketInv'
<1>1. Stores'["holds"] = holds' /\ Stores'["ledger"].tickets = issued'
  BY DEF Stores, Files
<1>2. CASE /\ disk'["holds"] \in {disk["holds"], Torn}
           /\ disk'["ledger"] \in {disk["ledger"], Torn, Stores'["ledger"]}
  <2>1. SavedTickets'
    BY <1>2 DEF KeepsTickets, TicketInv, SavedTickets, SameTicket
  <2>2. NoUnpaidTicket'
    BY <1>1, <1>2 DEF TicketInv, SavedTickets, NoUnpaidTicket, KeepsTickets
  <2>3. QED
    BY <2>1, <2>2 DEF TicketInv
<1>3. CASE disk'["ledger"] = Stores'["ledger"] /\ disk'["holds"] = Stores'["holds"]
  BY <1>1, <1>3 DEF TicketInv, SavedTickets, NoUnpaidTicket, SameTicket
<1>4. QED
  BY <1>2, <1>3, SaveOrder DEF TypeOK, ProcType, DiskType

\* A step that leaves tickets and files alone keeps TicketInv.
LEMMA SameTickets ==
  ASSUME TicketInv, UNCHANGED <<holds, issued, disk>>
  PROVE  TicketInv'
BY DEF TicketInv, SavedTickets, NoUnpaidTicket, SameTicket

\* A refused bonus is the only settlement that is not saved.
LEMMA UnsavedTickets ==
  ASSUME TicketInv, KeepsTickets, UNCHANGED <<issued, disk>>, DOMAIN holds' = DOMAIN holds
  PROVE  TicketInv'
BY DEF TicketInv, KeepsTickets, SavedTickets, NoUnpaidTicket, SameTicket

\* A settlement neither creates nor removes a ticket.
LEMMA FinalizedTickets ==
  ASSUME TypeOK, NEW t \in DOMAIN holds, NEW s, NEW result,
         holds' = Put(holds, t, Finalized(t, result, s)), issued' = issued
  PROVE  KeepsTickets /\ DOMAIN holds' = DOMAIN holds
<1>1. SameTicket(holds[t], Finalized(t, result, s))
  BY DEF Finalized, SameTicket, TypeOK, HoldType, HoldsType, Hold
<1>2. QED
  BY <1>1 DEF KeepsTickets, Put, SameTicket

\* CreateHold keeps TicketInv.
LEMMA CreateHoldTickets ==
  ASSUME TypeOK, TicketInv, NEW w, NEW s, NEW a, NEW t, CreateHold(w, s, a, t)
  PROVE  TicketInv'
<1>1. CASE UNCHANGED <<procVars, holdVars>>
  BY <1>1, SameTickets DEF procVars, holdVars
<1>2. CASE GrantHold(w, s, a, t)
  <2>1. DOMAIN holds' = DOMAIN holds \cup {t} /\ issued' = issued \cup {t}
    BY <1>2 DEF GrantHold, Put
  <2>2. t \notin DOMAIN holds
    BY DEF CreateHold, TicketInv
  <2>3. KeepsTickets
    BY <1>2, <2>1, <2>2 DEF GrantHold, Put, KeepsTickets, SameTicket
  <2>4. QED
    BY <1>2, <2>1, <2>3, SaveTickets DEF GrantHold, TicketInv
<1>3. QED
  BY <1>1, <1>2 DEF CreateHold

\* SubmitHold keeps TicketInv.
LEMMA SubmitHoldTickets ==
  ASSUME TypeOK, TicketInv, NEW t, SubmitHold(t)
  PROVE  TicketInv'
<1>1. KeepsTickets /\ DOMAIN holds' = DOMAIN holds /\ issued' = issued
  BY DEF SubmitHold, KeepsTickets, SameTicket, TypeOK, HoldType, HoldsType, Hold
<1>2. QED
  BY <1>1, SaveTickets DEF SubmitHold, TicketInv

\* A settlement keeps TicketInv.
LEMMA FinalizeTickets ==
  ASSUME TypeOK, TicketInv, NEW t \in DOMAIN holds, NEW s, NEW result, NEW m,
         FinalizeApproved(t, s, m) \/ FinalizeForfeit(t, s, result)
  PROVE  TicketInv'
<1>1. KeepsTickets /\ DOMAIN holds' = DOMAIN holds /\ issued' = issued
  BY FinalizedTickets DEF FinalizeApproved, FinalizeForfeit
<1>2. CASE SaveState
  BY <1>1, <1>2, SaveTickets DEF TicketInv
<1>3. CASE NoSave(TRUE)
  BY <1>1, <1>3, UnsavedTickets DEF NoSave
<1>4. QED
  BY <1>2, <1>3 DEF FinalizeApproved, FinalizeForfeit, Refund, RefundBonusRefused,
     RefundWithBonus

\* Apply keeps TicketInv.
LEMMA ApplyTickets ==
  ASSUME TypeOK, TicketInv, NEW r, Apply(r)
  PROVE  TicketInv'
<1>1. UNCHANGED <<holds, issued>>
  BY DEF Apply, holdVars
<1>2. CASE SaveState
  BY <1>1, <1>2, SaveTickets DEF TicketInv, KeepsTickets, SameTicket
<1>3. CASE NoSave(FALSE)
  BY <1>1, <1>3, SameTickets DEF NoSave
<1>4. QED
  BY <1>2, <1>3 DEF Apply

\* NodeReceipt keeps TicketInv.
LEMMA NodeReceiptTickets ==
  ASSUME TypeOK, TicketInv, NEW v, NEW s, NEW n, NodeReceipt(v, s, n)
  PROVE  TicketInv'
<1>1. UNCHANGED <<holds, issued>>
  BY DEF NodeReceipt, holdVars
<1>2. CASE SaveState
  BY <1>1, <1>2, SaveTickets DEF TicketInv, KeepsTickets, SameTicket
<1>3. CASE NoSave(FALSE)
  BY <1>1, <1>3, SameTickets DEF NoSave
<1>4. QED
  BY <1>2, <1>3 DEF NodeReceipt

\* Restart keeps TicketInv.
LEMMA RestartTickets ==
  ASSUME TypeOK, TicketInv, Restart
  PROVE  TicketInv'
<1>1. disk' = disk /\ issued' = issued /\ holds' = Load("holds", EmptyMap)
  BY DEF Restart
<1>2. CASE disk["holds"] = Torn
  BY <1>1, <1>2 DEF Load, EmptyMap, TicketInv, SavedTickets, NoUnpaidTicket
<1>3. CASE disk["holds"] # Torn
  <2>1. holds' = disk["holds"]
    BY <1>1, <1>3 DEF Load
  <2>2. QED
    BY <1>1, <1>3, <2>1 DEF TicketInv, SavedTickets, NoUnpaidTicket, SameTicket
<1>4. QED
  BY <1>2, <1>3

\* Every step keeps TicketInv: one case per action.
LEMMA NextTickets ==
  ASSUME TypeOK, TicketInv, [Next]_vars
  PROVE  TicketInv'
<1>1. CASE ReceiptNext
  <2>1. ASSUME NEW q, NEW e, SubmitReceipt(q, e) PROVE TicketInv'
    BY <2>1, SameTickets DEF SubmitReceipt, procVars, holdVars
  <2>2. ASSUME NEW r \in inflight, CheckSignature(r) \/ CheckAuthority(r) PROVE TicketInv'
    <3>1. Apply(r) \/ UNCHANGED <<procVars, holdVars>>
      BY <2>2 DEF CheckSignature, CheckAuthority, Reject
    <3>2. QED
      BY <3>1, ApplyTickets, SameTickets DEF procVars, holdVars
  <2>3. ASSUME NEW c, NEW w, AuditChallenge(c, w) PROVE TicketInv'
    BY <2>3, SameTickets DEF AuditChallenge, procVars, holdVars
  <2>4. QED
    BY <1>1, <2>1, <2>2, <2>3 DEF ReceiptNext
<1>2. CASE TollNext
  BY <1>2, CreateHoldTickets, SubmitHoldTickets, FinalizeTickets DEF TollNext
<1>3. CASE PoolNext
  <2>1. ASSUME NEW v, NEW s, NodeVerify(v, s) PROVE TicketInv'
    BY <2>1, SameTickets DEF NodeVerify, procVars, holdVars
  <2>2. QED
    BY <1>3, <2>1, NodeReceiptTickets DEF PoolNext
<1>4. CASE EnvNext
  <2>1. ASSUME Tick \/ (\E w : RegistryChange(w)) \/ Crash PROVE TicketInv'
    BY <2>1, SameTickets DEF Tick, RegistryChange, Crash, procVars, holdVars
  <2>2. QED
    BY <1>4, <2>1, RestartTickets DEF EnvNext
<1>5. ASSUME NEW w, NEW a, Spend(w, a) PROVE TicketInv'
  <2>1. UNCHANGED <<holds, issued>>
    BY <1>5 DEF Spend, holdVars
  <2>2. QED
    BY <1>5, <2>1, SaveTickets DEF Spend, TicketInv, KeepsTickets, SameTicket
<1>6. CASE UNCHANGED vars
  BY <1>6, SameTickets DEF vars, procVars, holdVars
<1>7. QED
  BY <1>1, <1>2, <1>3, <1>4, <1>5, <1>6 DEF Next

\* TicketInv holds at first: there are no tickets.
LEMMA InitTickets == Init => TicketInv
BY DEF Init, Stores, Files, EmptyMap, TicketInv, SavedTickets, NoUnpaidTicket

\* A ticket on disk was paid for on disk, wherever saveState was cut short.
THEOREM TicketsPaid == Spec => []NoUnpaidTicket
<1>1. Init => TypeOK /\ TicketInv
  BY InitType, InitTickets
<1>2. (TypeOK /\ TicketInv) /\ [Next]_vars => (TypeOK /\ TicketInv)'
  BY NextType, NextTickets
<1>3. TicketInv => NoUnpaidTicket
  BY DEF TicketInv
<1>4. QED
  BY <1>1, <1>2, <1>3, PTL DEF Spec

-----------------------------------------------------------------------------
(* What was answered is on disk.                                           *)

\* A handler that reaches the end of saveState has saved everything.
LEMMA SaveAnswers ==
  ASSUME SaveState
  PROVE  AnsweredIsSaved'
<1>1. CASE disk' = Stores'
  BY <1>1 DEF AnsweredIsSaved, Stores, Files
<1>2. CASE DieInSave(Stores')
  BY <1>2 DEF AnsweredIsSaved, DieInSave
<1>3. QED
  BY <1>1, <1>2 DEF SaveState

\* A step that saves nothing changes nothing that would have to be saved, or
\* marks the state as unsaved.
LEMMA SameAnswers ==
  ASSUME AnsweredIsSaved, UNCHANGED <<holds, pools, treasury, siteReceipts, disk>>,
         up' => up, ~unsaved' => ~unsaved, raced' = {} => raced = {} /\ credits' = credits
  PROVE  AnsweredIsSaved'
BY DEF AnsweredIsSaved

\* A credited receipt is saved, an undone one leaves what was saved.
LEMMA ApplyAnswers ==
  ASSUME TypeOK, DerivedInv, AnsweredIsSaved, NEW r \in inflight, Apply(r)
  PROVE  AnsweredIsSaved'
<1> DEFINE w == r.env.node
<1>1. CASE SaveState
  BY <1>1, SaveAnswers
<1>2. CASE credits' = [credits EXCEPT ![w] = Undone(r)] /\ NoSave(FALSE) /\ UNCHANGED raced
  <2>1. raced = {} => r.before = credits[w]
    BY DEF DerivedInv, BeforeIsCurrent
  <2>2. raced = {} => credits' = credits
    BY <1>2, <2>1 DEF Undone, TypeOK, LedgerType
  <2>3. up' = up /\ unsaved' = unsaved /\ disk' = disk
    BY <1>2 DEF NoSave, TypeOK, ProcType
  <2>4. UNCHANGED <<holds, pools, treasury, siteReceipts>>
    BY DEF Apply, holdVars, poolVars
  <2>5. QED
    BY <1>2, <2>2, <2>3, <2>4, SameAnswers
<1>3. QED
  BY <1>1, <1>2 DEF Apply

\* A new process holds what the files hold.
LEMMA RestartAnswers ==
  ASSUME Restart
  PROVE  AnsweredIsSaved'
<1>1. CASE \E f \in Files : disk[f] = Torn
  BY <1>1 DEF Restart, AnsweredIsSaved
<1>2. CASE \A f \in Files : disk[f] # Torn
  BY <1>2 DEF Restart, AnsweredIsSaved, Load, Files
<1>3. QED
  BY <1>1, <1>2

\* Every step keeps AnsweredIsSaved: one case per action.
LEMMA NextAnswers ==
  ASSUME TypeOK, DerivedInv, AnsweredIsSaved, [Next]_vars
  PROVE  AnsweredIsSaved'
<1>1. ASSUME UNCHANGED <<procVars, ledgerVars, holds, pools, treasury, siteReceipts>>
      PROVE  AnsweredIsSaved'
  BY <1>1, SameAnswers DEF procVars, ledgerVars
<1>2. CASE ReceiptNext
  <2>1. ASSUME NEW r \in inflight, CheckSignature(r) \/ CheckAuthority(r) PROVE AnsweredIsSaved'
    <3>1. Apply(r) \/ UNCHANGED <<procVars, ledgerVars, holdVars, poolVars>>
      BY <2>1 DEF CheckSignature, CheckAuthority, Reject
    <3>2. QED
      BY <1>1, <3>1, ApplyAnswers DEF holdVars, poolVars
  <2>2. QED
    BY <1>1, <1>2, <2>1 DEF ReceiptNext, SubmitReceipt, AuditChallenge, holdVars, poolVars
<1>3. CASE TollNext
  <2>1. ASSUME NEW w, NEW s, NEW a, NEW t, CreateHold(w, s, a, t) PROVE AnsweredIsSaved'
    BY <1>1, <2>1, SaveAnswers DEF CreateHold, GrantHold, holdVars, poolVars
  <2>2. ASSUME NEW t, NEW s, NEW m, FinalizeApproved(t, s, m) PROVE AnsweredIsSaved'
    <3>1. CASE SaveState
      BY <3>1, SaveAnswers
    <3>2. CASE NoSave(TRUE)
      BY <3>2 DEF NoSave, AnsweredIsSaved
    <3>3. QED
      BY <2>2, <3>1, <3>2 DEF FinalizeApproved, Refund, RefundBonusRefused, RefundWithBonus
  <2>3. QED
    BY <1>3, <2>1, <2>2, SaveAnswers DEF TollNext, SubmitHold, FinalizeForfeit
<1>4. CASE PoolNext
  <2>1. ASSUME NEW v, NEW s, NodeVerify(v, s) PROVE AnsweredIsSaved'
    BY <1>1, <2>1 DEF NodeVerify, holdVars
  <2>2. ASSUME NEW v, NEW s, NEW n, NodeReceipt(v, s, n) PROVE AnsweredIsSaved'
    <3>1. CASE SaveState
      BY <3>1, SaveAnswers
    <3>2. CASE NoSave(FALSE) /\ UNCHANGED <<pools, siteReceipts>>
      <4>1. up' = up /\ unsaved' = unsaved /\ disk' = disk
        BY <3>2 DEF NoSave, TypeOK, ProcType
      <4>2. UNCHANGED <<credits, raced, holds, treasury>>
        BY <2>2 DEF NodeReceipt, holdVars
      <4>3. QED
        BY <3>2, <4>1, <4>2, SameAnswers
    <3>3. QED
      BY <2>2, <3>1, <3>2 DEF NodeReceipt
  <2>3. QED
    BY <1>4, <2>1, <2>2 DEF PoolNext
<1>5. CASE EnvNext
  <2>1. ASSUME Tick \/ \E w : RegistryChange(w) PROVE AnsweredIsSaved'
    BY <1>1, <2>1 DEF Tick, RegistryChange, holdVars, poolVars
  <2>2. ASSUME Crash PROVE AnsweredIsSaved'
    BY <2>2 DEF Crash, AnsweredIsSaved
  <2>3. QED
    BY <1>5, <2>1, <2>2, RestartAnswers DEF EnvNext
<1>6. ASSUME NEW w, NEW a, Spend(w, a) PROVE AnsweredIsSaved'
  BY <1>6, SaveAnswers DEF Spend
<1>7. CASE UNCHANGED vars
  BY <1>1, <1>7 DEF vars, holdVars, poolVars
<1>8. QED
  BY <1>2, <1>3, <1>4, <1>5, <1>6, <1>7 DEF Next

\* What the coordinator answered with 200 is on disk when it answers, unless
\* a refused bonus left a refund unsaved or an undo overwrote a balance that
\* another request had moved.
THEOREM AnswersSaved == Spec => []AnsweredIsSaved
<1>1. Init => TypeOK /\ DerivedInv /\ AnsweredIsSaved
  <2>1. Init => DerivedInv
    BY DEF Init, DerivedInv, BalanceIsDerived, BeforeIsCurrent
  <2>2. Init => AnsweredIsSaved
    BY DEF Init, AnsweredIsSaved, Stores, Files
  <2>3. QED
    BY <2>1, <2>2, InitType
<1>2. (TypeOK /\ DerivedInv /\ AnsweredIsSaved) /\ [Next]_vars
        => (TypeOK /\ DerivedInv /\ AnsweredIsSaved)'
  BY NextType, NextDerived, NextAnswers
<1>3. QED
  BY <1>1, <1>2, PTL DEF Spec

-----------------------------------------------------------------------------
(***************************************************************************)
(* The coordinator implements TollTickets, for all values of its           *)
(* constants: every step of Coordinator is, for the tickets, a step of     *)
(* TollTickets or none.                                                    *)
(***************************************************************************)

\* The tickets as TollTickets sees them: the mapping of Tolls.
Ticket(h) ==
  [terms |-> <<h.wallet, h.amount>>, deadline |-> h.expiresAt, status |-> h.status]
Mapped == [t \in DOMAIN holds |-> Ticket(holds[t])]

\* TollTickets' actions over the mapping.
LEMMA IssueMaps ==
  ASSUME NEW t \in Tickets,
         t \notin DOMAIN Mapped, DOMAIN Mapped' = DOMAIN Mapped \cup {t},
         \A x \in DOMAIN Mapped : Mapped'[x] = Mapped[x],
         Mapped'[t].terms \in Wallets \X Amounts,
         Mapped'[t].deadline \in Int, Mapped'[t].deadline >= now,
         Mapped'[t].status = "held", UNCHANGED <<now, settled>>
  PROVE  Tolls!TNext
<1>1. Tolls!Issue(t)
  BY DEF Tolls!Issue, Mapped, Ticket
<1>2. QED
  BY <1>1 DEF Tolls!TNext

\* A change of status before the deadline is a Move of the abstract ticket.
LEMMA MoveMaps ==
  ASSUME NEW t \in DOMAIN holds, NEW status, holds[t].expiresAt >= now,
         Mapped' = [Mapped EXCEPT ![t].status = status], UNCHANGED now
  PROVE  Tolls!Move(t, status)
BY DEF Tolls!Move, Mapped, Ticket

\* A step that touches no ticket is a stutter of the abstract specification.
LEMMA SameMaps ==
  ASSUME UNCHANGED <<now, holds, settled>>
  PROVE  UNCHANGED Tolls!tvars
BY DEF Tolls!tvars

\* A hold put back with another status and site is a ticket that moved.
LEMMA PutMaps ==
  ASSUME TypeOK, NEW t \in DOMAIN holds, NEW status, NEW s,
         holds' = Put(holds, t, [holds[t] EXCEPT !.status = status, !.site = s])
  PROVE  Mapped' = [Mapped EXCEPT ![t].status = status]
<1> DEFINE h == holds[t]
           g == [holds[t] EXCEPT !.status = status, !.site = s]
<1>1. /\ g.wallet = h.wallet /\ g.amount = h.amount /\ g.expiresAt = h.expiresAt
      /\ g.status = status
  BY DEF TypeOK, HoldType, HoldsType, Hold
<1>2. Ticket(g) = [Ticket(h) EXCEPT !.status = status]
  BY <1>1 DEF Ticket
<1>3. Mapped' = [x \in DOMAIN holds |-> IF x = t THEN Ticket(g) ELSE Ticket(holds[x])]
  BY DEF Put, Mapped
<1>4. QED
  BY <1>2, <1>3 DEF Mapped

\* CreateHold is Issue, or a stutter when it is refused.
LEMMA CreateHoldMaps ==
  ASSUME TypeOK, TicketInv, NEW w \in Wallets, NEW s, NEW a \in Amounts,
         NEW t \in Tickets, CreateHold(w, s, a, t)
  PROVE  [Tolls!TNext]_(Tolls!tvars)
<1>1. CASE UNCHANGED holdVars
  BY <1>1, SameMaps DEF CreateHold, envVars, holdVars
<1>2. CASE GrantHold(w, s, a, t)
  <2> DEFINE h == [wallet |-> w, site |-> s, amount |-> a, status |-> "held",
                   expiresAt |-> now + HoldTtl]
  <2>1. holds' = Put(holds, t, h) /\ UNCHANGED <<now, settled>>
    BY <1>2 DEF GrantHold, CreateHold, envVars
  <2>2. now \in Int /\ HoldTtl \in Nat
    BY Constants, ConstantsAssumption DEF TypeOK, EnvType
  <2>3. now + HoldTtl \in Int /\ now + HoldTtl >= now
    BY <2>2
  <2>4. t \notin DOMAIN holds
    BY DEF CreateHold, TicketInv
  <2>5. Ticket(h) = [terms |-> <<w, a>>, deadline |-> now + HoldTtl, status |-> "held"]
    BY DEF Ticket
  <2>6. /\ DOMAIN Mapped' = DOMAIN Mapped \cup {t} /\ t \notin DOMAIN Mapped
        /\ \A x \in DOMAIN Mapped : Mapped'[x] = Mapped[x]
        /\ Mapped'[t] = Ticket(h)
    BY <2>1, <2>4 DEF Put, Mapped
  <2>7. Tolls!TNext
    BY <2>1, <2>3, <2>5, <2>6, IssueMaps
  <2>8. QED
    BY <2>7
<1>3. QED
  BY <1>1, <1>2 DEF CreateHold

\* SubmitHold is Submit.
LEMMA SubmitHoldMaps ==
  ASSUME TypeOK, NEW t \in DOMAIN holds, SubmitHold(t)
  PROVE  Tolls!TNext
<1>1. holds' = [holds EXCEPT ![t].status = "submitted"] /\ UNCHANGED <<now, settled>>
  BY DEF SubmitHold, envVars
<1>2. holds[t].expiresAt >= now
  BY DEF SubmitHold, Live
<1>3. Mapped' = [Mapped EXCEPT ![t].status = "submitted"]
  BY <1>1 DEF Mapped, Ticket, TypeOK, HoldType, HoldsType, Hold
<1>4. Tolls!Submit(t)
  BY <1>1, <1>2, <1>3, MoveMaps DEF Tolls!Submit
<1>5. QED
  BY <1>4, HoldFacts DEF Tolls!TNext

\* Both settlements are Settle.
LEMMA FinalizeMaps ==
  ASSUME TypeOK, NEW t \in DOMAIN holds, NEW s,
         NEW result \in {"approved", "spam", "trash"},
         Settleable(t), MarkSettled(t), UNCHANGED now,
         holds' = Put(holds, t, Finalized(t, result, s))
  PROVE  Tolls!TNext
<1>1. Mapped' = [Mapped EXCEPT ![t].status = result]
  BY PutMaps DEF Finalized
<1>2. Tolls!Move(t, result)
  BY <1>1, MoveMaps DEF Settleable, Live
<1>3. Tolls!Settle(t, result)
  BY <1>2 DEF Tolls!Settle, MarkSettled
<1>4. QED
  BY <1>3, HoldFacts DEF Tolls!TNext, Tolls!Verdicts

\* Restart is Reload: the files hold tickets that memory held.
LEMMA RestartMaps ==
  ASSUME TypeOK, TicketInv, Restart
  PROVE  Tolls!TNext
<1>1. holds' = Load("holds", EmptyMap) /\ UNCHANGED <<now, settled>>
  BY DEF Restart, envVars
<1>2. \A t \in DOMAIN holds' : t \in DOMAIN holds /\ SameTicket(holds'[t], holds[t])
  BY <1>1 DEF Load, EmptyMap, TicketInv, SavedTickets
<1>3. HoldsType(holds')
  BY RestartType DEF TypeOK, HoldType
<1>4. \A t \in DOMAIN Mapped' : /\ t \in DOMAIN Mapped
                               /\ Mapped'[t].terms = Mapped[t].terms
                               /\ Mapped'[t].deadline = Mapped[t].deadline
                               /\ Mapped'[t].status \in Tolls!Statuses
  BY <1>2, <1>3 DEF Mapped, Ticket, SameTicket, HoldsType, Hold, Tolls!Statuses,
     Tolls!Verdicts
<1>5. Tolls!Reload
  BY <1>1, <1>4 DEF Tolls!Reload, Mapped, Ticket
<1>6. QED
  BY <1>5 DEF Tolls!TNext

\* The initial states map to TInit.
LEMMA InitMaps == Init => Tolls!TInit
BY DEF Init, Tolls!TInit, EmptyMap

\* Every step maps to a step or a stutter: one case per action.
LEMMA NextMaps ==
  ASSUME TypeOK, TicketInv, [Next]_vars
  PROVE  [Tolls!TNext]_(Tolls!tvars)
<1>1. CASE ReceiptNext
  BY <1>1, SameMaps DEF ReceiptNext, SubmitReceipt, CheckSignature, CheckAuthority, Apply,
     Reject, AuditChallenge, envVars, holdVars
<1>2. CASE TollNext
  <2>1. ASSUME NEW t \in DOMAIN holds, NEW s \in Sites, NEW m, FinalizeApproved(t, s, m)
        PROVE  Tolls!TNext
    BY <2>1, FinalizeMaps DEF FinalizeApproved, envVars
  <2>2. ASSUME NEW t \in DOMAIN holds, NEW s \in Sites, NEW result \in {"spam", "trash"},
               FinalizeForfeit(t, s, result)
        PROVE  Tolls!TNext
    BY <2>2, FinalizeMaps DEF FinalizeForfeit, envVars
  <2>3. QED
    BY <1>2, <2>1, <2>2, CreateHoldMaps, SubmitHoldMaps DEF TollNext
<1>3. CASE PoolNext
  BY <1>3, SameMaps DEF PoolNext, NodeVerify, NodeReceipt, envVars, holdVars
<1>4. CASE EnvNext
  <2>1. ASSUME Tick PROVE Tolls!TNext
    BY <2>1 DEF Tick, holdVars, Tolls!Pass, Tolls!TNext
  <2>2. ASSUME NEW w, RegistryChange(w) PROVE UNCHANGED Tolls!tvars
    BY <2>2, SameMaps DEF RegistryChange, holdVars
  <2>3. ASSUME Crash PROVE UNCHANGED Tolls!tvars
    BY <2>3, SameMaps DEF Crash, envVars, holdVars
  <2>4. QED
    BY <1>4, <2>1, <2>2, <2>3, RestartMaps DEF EnvNext
<1>5. CASE \E w \in Wallets, a \in Amounts : Spend(w, a)
  BY <1>5, SameMaps DEF Spend, envVars, holdVars
<1>6. CASE UNCHANGED vars
  BY <1>6, SameMaps DEF vars, envVars, holdVars
<1>7. QED
  BY <1>1, <1>2, <1>3, <1>4, <1>5, <1>6 DEF Next

\* createHold, submitHold and finalizeHold, with every crash and restart of
\* the process, implement TollTickets: no ticket is invented, its owner, its
\* amount and its deadline never change, and it settles only in time.
THEOREM TicketsRefine == Spec => TicketLifecycle
<1>1. Init => TypeOK /\ TicketInv
  BY InitType, InitTickets
<1>2. (TypeOK /\ TicketInv) /\ [Next]_vars => (TypeOK /\ TicketInv)'
  BY NextType, NextTickets
<1>3. (TypeOK /\ TicketInv) /\ [Next]_vars => [Tolls!TNext]_(Tolls!tvars)
  BY NextMaps
<1>4. Init => Tolls!TInit
  BY InitMaps
<1>5. QED
  BY <1>1, <1>2, <1>3, <1>4, PTL DEF Spec, TicketLifecycle, Tolls!TSpec

-----------------------------------------------------------------------------
(***************************************************************************)
(* The plugin and the coordinator together: every step of TollPlugin is,   *)
(* for the coordinator, one of its own or none, so what is proved above of *)
(* Coordinator holds with the plugin; and value is conserved.              *)
(***************************************************************************)

CommentType == [ticket : Tickets, site : Sites, status : Verdicts \cup {"unapproved"}]
CallType == [id : Nat, ticket : Tickets, result : Verdicts, site : Sites,
             multiplier : Multipliers]

\* The plugin's comments and the requests it has sent.
PluginType ==
  /\ known \subseteq Tickets /\ sent \in Nat
  /\ \A c \in DOMAIN comments : comments[c] \in CommentType
  /\ calls \subseteq CallType

\* The initial states are those of the coordinator.
LEMMA InitPlugin == PInit => TypeOK /\ PluginType
BY InitType DEF PInit, PluginType, EmptyMap

\* Whatever the plugin does is done by the coordinator too, or is none of its
\* business.
LEMMA PluginSteps ==
  ASSUME TypeOK, PluginType, PNext
  PROVE  [Next]_vars /\ PluginType'
<1>1. ASSUME NEW w \in Wallets, NEW s \in Sites, NEW a \in Amounts, NEW t \in Tickets,
             RestHold(w, s, a, t)
      PROVE  [Next]_vars /\ PluginType'
  <2>1. Next
    BY <1>1 DEF RestHold, Next, TollNext
  <2>2. TypeOK'
    BY <2>1, NextType
  <2>3. known' \subseteq Tickets
    BY <1>1, <2>2 DEF RestHold, PluginType, TypeOK, HoldType
  <2>4. QED
    BY <1>1, <2>1, <2>3 DEF RestHold, PluginType
<1>2. ASSUME NEW c \in Comments, NEW t \in known, NEW s \in Sites, PostComment(c, t, s)
      PROVE  [Next]_vars /\ PluginType'
  <2>1. t \in DOMAIN holds /\ SubmitHold(t)
    BY <1>2 DEF PostComment, SubmitHold, Live
  <2>2. Next
    BY <2>1 DEF Next, TollNext
  <2>3. [ticket |-> t, site |-> s, status |-> "unapproved"] \in CommentType
    BY DEF CommentType, PluginType
  <2>4. \A d \in DOMAIN comments' : comments'[d] \in CommentType
    BY <1>2, <2>3 DEF PostComment, Put, PluginType
  <2>5. QED
    BY <1>2, <2>2, <2>4 DEF PostComment, PluginType
<1>3. ASSUME NEW c \in DOMAIN comments, NEW status \in Verdicts \cup {"unapproved"},
             NEW m \in Multipliers, Moderate(c, status, m)
      PROVE  [Next]_vars /\ PluginType'
  <2>1. UNCHANGED vars
    BY <1>3 DEF Moderate
  <2>2. comments[c] \in CommentType /\ comments' = [comments EXCEPT ![c].status = status]
    BY <1>3 DEF Moderate, PluginType
  <2>3. \A d \in DOMAIN comments' : comments'[d] \in CommentType
    BY <2>2 DEF CommentType, PluginType
  <2>4. CASE status \notin Verdicts
    BY <1>3, <2>1, <2>3, <2>4 DEF Moderate, PluginType
  <2>5. CASE status \in Verdicts
    <3>1. [id |-> sent, ticket |-> comments[c].ticket, result |-> status,
           site |-> comments[c].site, multiplier |-> m] \in CallType
      BY <2>2, <2>5 DEF CommentType, CallType, PluginType
    <3>2. calls' \subseteq CallType /\ sent' \in Nat
      BY <1>3, <2>5, <3>1 DEF Moderate, PluginType
    <3>3. QED
      BY <1>3, <2>1, <2>3, <3>2 DEF Moderate, PluginType
  <2>6. QED
    BY <2>4, <2>5
<1>4. ASSUME NEW call \in calls, Deliver(call) \/ Fail(call)
      PROVE  [Next]_vars /\ PluginType'
  <2>1. PluginType'
    BY <1>4 DEF Deliver, Fail, PluginType
  <2>2. CASE Fail(call)
    BY <2>1, <2>2 DEF Fail
  <2>3. CASE Deliver(call)
    <3>1. /\ call.site \in Sites /\ call.multiplier \in Multipliers
          /\ call.result \in {"approved", "spam", "trash"}
      BY DEF PluginType, CallType, Verdicts
    <3>2. CASE call.result = "approved"
      <4>1. FinalizeApproved(call.ticket, call.site, call.multiplier)
        BY <2>3, <3>2 DEF Deliver
      <4>2. call.ticket \in DOMAIN holds
        BY <4>1 DEF FinalizeApproved, Settleable, Live
      <4>3. QED
        BY <2>1, <3>1, <4>1, <4>2 DEF Next, TollNext
    <3>3. CASE call.result # "approved"
      <4>1. FinalizeForfeit(call.ticket, call.site, call.result)
        BY <2>3, <3>3 DEF Deliver
      <4>2. call.ticket \in DOMAIN holds
        BY <4>1 DEF FinalizeForfeit, Settleable, Live
      <4>3. QED
        BY <2>1, <3>1, <3>3, <4>1, <4>2 DEF Next, TollNext
    <3>4. QED
      BY <3>2, <3>3
  <2>4. QED
    BY <1>4, <2>2, <2>3
<1>5. CASE (PoolNext \/ EnvNext) /\ UNCHANGED pluginVars
  BY <1>5 DEF Next, PluginType, pluginVars
<1>6. QED
  BY <1>1, <1>2, <1>3, <1>4, <1>5 DEF PNext

\* A stutter of both, too.
LEMMA PluginStutters ==
  ASSUME TypeOK, PluginType, [PNext]_<<vars, pluginVars>>
  PROVE  [Next]_vars /\ PluginType' /\ TypeOK'
<1>1. [Next]_vars /\ PluginType'
  <2>1. CASE PNext
    BY <2>1, PluginSteps
  <2>2. CASE UNCHANGED <<vars, pluginVars>>
    BY <2>2 DEF PluginType, pluginVars
  <2>3. QED
    BY <2>1, <2>2
<1>2. QED
  BY <1>1, NextType

\* Behind the plugin the coordinator behaves as Coordinator says, however
\* requests are lost, overtaken and answered: preprocess_comment,
\* comment_post and transition_comment_status only send what any site may
\* send, so that every theorem about Spec holds of PSpec.
THEOREM PluginIsACaller == PSpec => Spec
<1>1. PInit => Init /\ TypeOK /\ PluginType
  BY InitPlugin DEF PInit
<1>2. (TypeOK /\ PluginType) /\ [PNext]_<<vars, pluginVars>>
        => [Next]_vars /\ (TypeOK /\ PluginType)'
  BY PluginStutters
<1>3. QED
  BY <1>1, <1>2, PTL DEF PSpec, Spec

\* What stands on both sides of the books, and that each ticket is unsettled
\* until it is issued.
Assets == SumFunction(credits) + SumFunction(pools) + treasury + SumFunction(Worth)
Books ==
  /\ up /\ IsFiniteSet(DOMAIN holds) /\ DOMAIN holds \subseteq issued
  /\ \A t \in Tickets \ issued : settled[t] = 0
  /\ Assets = SumFunction(InitLedger) + SumFunction(InitPools) + SumFunction(Earned)
ValueInv == crashes = 0 => Books

\* A run of the process that has not crashed yet.
LEMMA NoCrashYet ==
  ASSUME TypeOK, SaveState \/ (\E dirty \in BOOLEAN : NoSave(dirty)), crashes' = 0
  PROVE  crashes = 0 /\ up' = up
BY DEF SaveState, NoSave, DieInSave, TypeOK, ProcType

\* Sums over the accounts: one of them written over.
LEMMA CreditsMove ==
  ASSUME TypeOK, NEW w \in Wallets, NEW b \in Int, credits' = [credits EXCEPT ![w] = b]
  PROVE  /\ SumFunction(credits) \in Int /\ SumFunction(credits') \in Int
         /\ SumFunction(credits') = SumFunction(credits) + b - credits[w]
<1>1. credits \in [Wallets -> Int] /\ IsFiniteSet(DOMAIN credits)
  BY PluginAssumption DEF TypeOK, LedgerType
<1>2. DOMAIN credits' = DOMAIN credits \cup {w} /\ w \in DOMAIN credits /\ credits'[w] = b
  BY <1>1
<1>3. \A x \in DOMAIN credits : credits[x] \in Int
  BY <1>1
<1>4. \A x \in DOMAIN credits \ {w} : credits'[x] = credits[x]
  BY <1>1
<1>5. credits'[w] \in Int
  BY <1>2
<1>6. /\ SumFunction(credits) \in Int /\ SumFunction(credits') \in Int
      /\ SumFunction(credits') = SumFunction(credits) + credits'[w]
           - (IF w \in DOMAIN credits THEN credits[w] ELSE 0)
  BY <1>1, <1>2, <1>3, <1>4, <1>5, SumWrites
<1>7. QED
  BY <1>2, <1>6

LEMMA PoolsMove ==
  ASSUME TypeOK, NEW s \in Sites, NEW b \in Int, pools' = [pools EXCEPT ![s] = b]
  PROVE  /\ SumFunction(pools) \in Int /\ SumFunction(pools') \in Int
         /\ SumFunction(pools') = SumFunction(pools) + b - pools[s]
<1>1. pools \in [Sites -> Int] /\ IsFiniteSet(DOMAIN pools)
  BY PluginAssumption DEF TypeOK, PoolType
<1>2. DOMAIN pools' = DOMAIN pools \cup {s} /\ s \in DOMAIN pools /\ pools'[s] = b
  BY <1>1
<1>3. \A x \in DOMAIN pools : pools[x] \in Int
  BY <1>1
<1>4. \A x \in DOMAIN pools \ {s} : pools'[x] = pools[x]
  BY <1>1
<1>5. pools'[s] \in Int
  BY <1>2
<1>6. /\ SumFunction(pools) \in Int /\ SumFunction(pools') \in Int
      /\ SumFunction(pools') = SumFunction(pools) + pools'[s]
           - (IF s \in DOMAIN pools THEN pools[s] ELSE 0)
  BY <1>1, <1>2, <1>3, <1>4, <1>5, SumWrites
<1>7. QED
  BY <1>2, <1>6

\* The sums are numbers.
LEMMA BooksAdd ==
  ASSUME TypeOK, IsFiniteSet(DOMAIN holds)
  PROVE  /\ SumFunction(credits) \in Int /\ SumFunction(pools) \in Int
         /\ SumFunction(Worth) \in Int /\ treasury \in Int
         /\ DOMAIN Worth = DOMAIN holds /\ \A t \in DOMAIN holds : Worth[t] \in Int
<1>1. \A w \in DOMAIN credits : credits[w] \in Int
  BY DEF TypeOK, LedgerType
<1>2. \A s \in DOMAIN pools : pools[s] \in Int
  BY DEF TypeOK, PoolType
<1>3. ASSUME NEW t \in DOMAIN holds PROVE Worth[t] \in Int
  <2>1. t \in Tickets /\ holds[t].amount \in Nat
    BY HoldFacts
  <2>2. settled[t] \in Int
    BY <2>1 DEF TypeOK, HoldType
  <2>3. holds[t].amount * (1 - settled[t]) \in Int
    BY <2>1, <2>2
  <2>4. QED
    BY <2>3 DEF Worth
<1>4. DOMAIN Worth = DOMAIN holds
  BY DEF Worth
<1>5. DOMAIN credits = Wallets /\ DOMAIN pools = Sites
  BY DEF TypeOK, LedgerType, PoolType
<1>6. IsFiniteSet(DOMAIN credits) /\ IsFiniteSet(DOMAIN pools) /\ IsFiniteSet(DOMAIN Worth)
  BY <1>4, <1>5, PluginAssumption
<1>7. \A t \in DOMAIN Worth : Worth[t] \in Int
  BY <1>3, <1>4
<1>8. SumFunction(Worth) \in Int
  BY <1>6, <1>7, SumAll, SumInt
<1>9. SumFunction(credits) \in Int
  BY <1>1, <1>6, SumAll, SumInt
<1>10. SumFunction(pools) \in Int
  BY <1>2, <1>6, SumAll, SumInt
<1>11. QED
  BY <1>3, <1>4, <1>8, <1>9, <1>10 DEF TypeOK, PoolType

\* A new ticket is worth its amount.
LEMMA WorthIssued ==
  ASSUME TypeOK, Books, NEW t \in Tickets \ issued, NEW h, h.amount \in Nat,
         holds' = Put(holds, t, h), settled' = settled
  PROVE  /\ IsFiniteSet(DOMAIN holds')
         /\ SumFunction(Worth)' = SumFunction(Worth) + h.amount
<1>1. /\ t \notin DOMAIN holds /\ settled[t] = 0
      /\ DOMAIN holds' = DOMAIN holds \cup {t} /\ holds'[t] = h
      /\ \A x \in DOMAIN holds : holds'[x] = holds[x]
  BY DEF Books, Put
<1>2. IsFiniteSet(DOMAIN Worth) /\ \A x \in DOMAIN Worth : Worth[x] \in Int
  BY BooksAdd DEF Books
<1>3. DOMAIN Worth = DOMAIN holds /\ DOMAIN Worth' = DOMAIN holds'
  BY DEF Worth
<1>4. Worth'[t] = h.amount * (1 - 0)
  BY <1>1 DEF Worth
<1>5. Worth'[t] = h.amount
  BY <1>4
<1>6. \A x \in DOMAIN Worth \ {t} : Worth'[x] = Worth[x]
  BY <1>1 DEF Worth
<1>7. DOMAIN Worth' = DOMAIN Worth \cup {t} /\ Worth'[t] \in Int
  BY <1>1, <1>3, <1>5
<1>8. /\ SumFunction(Worth) \in Int /\ IsFiniteSet(DOMAIN Worth')
      /\ SumFunction(Worth') = SumFunction(Worth) + Worth'[t]
           - (IF t \in DOMAIN Worth THEN Worth[t] ELSE 0)
  <2> DEFINE f == Worth
             g == Worth'
  <2>1. \A x \in DOMAIN f : f[x] \in Int
    BY <1>2
  <2>2. \A x \in DOMAIN f \ {t} : g[x] = f[x]
    BY <1>6
  <2>3. IsFiniteSet(DOMAIN f) /\ DOMAIN g = DOMAIN f \cup {t} /\ g[t] \in Int
    BY <1>2, <1>7
  <2> HIDE DEF f, g
  <2>4. /\ SumFunction(f) \in Int /\ IsFiniteSet(DOMAIN g)
        /\ SumFunction(g) = SumFunction(f) + g[t] - (IF t \in DOMAIN f THEN f[t] ELSE 0)
    BY <2>1, <2>2, <2>3, SumWrites
  <2>5. QED
    BY <2>4 DEF f, g
<1>9. t \notin DOMAIN Worth
  BY <1>1, <1>3
<1>10. QED
  BY <1>3, <1>5, <1>8, <1>9

\* One settlement more.
LEMMA Once ==
  ASSUME NEW a \in Int, NEW n \in Int
  PROVE  a * (1 - (n + 1)) = a * (1 - n) - a
BY SMTT(30)

\* A settled ticket is worth its amount less.
LEMMA WorthSettled ==
  ASSUME TypeOK, Books, NEW t \in DOMAIN holds, NEW s, NEW result,
         holds' = Put(holds, t, Finalized(t, result, s)), MarkSettled(t)
  PROVE  /\ IsFiniteSet(DOMAIN holds') /\ DOMAIN holds' = DOMAIN holds
         /\ SumFunction(Worth)' = SumFunction(Worth) - holds[t].amount
<1> DEFINE a == holds[t].amount
           n == settled[t]
<1>0. t \in Tickets /\ a \in Nat
  BY HoldFacts
<1>1. t \in Tickets /\ holds[t] \in Hold /\ a \in Int /\ n \in Int
  BY <1>0 DEF TypeOK, HoldType, HoldsType
<1>2. /\ DOMAIN holds' = DOMAIN holds /\ holds'[t] = Finalized(t, result, s)
      /\ \A x \in DOMAIN holds \ {t} : holds'[x] = holds[x]
  BY DEF Put
<1>3. Finalized(t, result, s).amount = a
  BY <1>1 DEF Finalized, Hold
<1>4. settled'[t] = n + 1 /\ \A x \in DOMAIN holds \ {t} : settled'[x] = settled[x]
  BY <1>1 DEF MarkSettled, TypeOK, HoldType, HoldsType
<1>5. DOMAIN Worth = DOMAIN holds /\ DOMAIN Worth' = DOMAIN holds
  BY <1>2 DEF Worth
<1>6. Worth[t] = a * (1 - n)
  BY DEF Worth
<1>7. Worth'[t] = a * (1 - (n + 1))
  BY <1>2, <1>3, <1>4 DEF Worth
<1>8. Worth'[t] = Worth[t] - a /\ Worth[t] \in Int
  BY <1>1, <1>6, <1>7, Once
<1>9. \A x \in DOMAIN Worth \ {t} : Worth'[x] = Worth[x]
  BY <1>2, <1>4 DEF Worth
<1>10. IsFiniteSet(DOMAIN Worth) /\ \A x \in DOMAIN Worth : Worth[x] \in Int
  BY BooksAdd DEF Books
<1>11. /\ SumFunction(Worth) \in Int
       /\ SumFunction(Worth') = SumFunction(Worth) + Worth'[t]
            - (IF t \in DOMAIN Worth THEN Worth[t] ELSE 0)
  <2> DEFINE f == Worth
             g == Worth'
  <2>1. \A x \in DOMAIN f : f[x] \in Int
    BY <1>10
  <2>2. \A x \in DOMAIN f \ {t} : g[x] = f[x]
    BY <1>9
  <2>3. IsFiniteSet(DOMAIN f) /\ DOMAIN g = DOMAIN f \cup {t} /\ g[t] \in Int
    BY <1>1, <1>5, <1>8, <1>10
  <2> HIDE DEF f, g
  <2>5. IsFiniteSet(DOMAIN f)
    BY <2>3
  <2>6. DOMAIN g = DOMAIN f \cup {t}
    BY <2>3
  <2>7. g[t] \in Int
    BY <2>3
  <2>4. /\ SumFunction(f) \in Int /\ SumFunction(g) \in Int
        /\ IsFiniteSet(DOMAIN g)
        /\ SumFunction(g) = SumFunction(f) + g[t] - (IF t \in DOMAIN f THEN f[t] ELSE 0)
    BY <2>1, <2>2, <2>5, <2>6, <2>7, SumWrites
  <2>8. QED
    BY <2>4 DEF f, g
<1>12. QED
  BY <1>1, <1>2, <1>5, <1>8, <1>11 DEF Books

\* The days of a run are finitely many.
LEMMA DaysFinite == IsFiniteSet(Days)
<1>1. IsFiniteSet(0..MaxTime)
  BY Constants, FS_Interval
<1>2. ASSUME NEW t \in 0..MaxTime PROVE t \div DayLength \in 0..MaxTime
  <2> DEFINE q == t \div DayLength
  <2>1. q \in Nat /\ DayLength * q <= t /\ t <= MaxTime /\ t \in Nat
    BY DivBounds, Constants
  <2> HIDE DEF q
  <2>2. q * 1 <= q * DayLength
    BY <2>1, MulMono, Constants
  <2>3. q * 1 = q /\ q * DayLength = DayLength * q /\ DayLength * q \in Nat
    BY <2>1, Constants, SMTT(30)
  <2>4. q <= MaxTime
    BY <2>1, <2>2, <2>3, Constants
  <2>5. QED
    BY <2>1, <2>4, Constants DEF q
<1>3. Days \in SUBSET (0..MaxTime)
  BY <1>2 DEF Days
<1>4. QED
  BY <1>1, <1>3, FS_Subset

\* What the pools earned is a number for each, and for all of them.
LEMMA EarnedAdds ==
  ASSUME CapType
  PROVE  /\ \A s \in Sites : Earned[s] \in Int
         /\ DOMAIN Earned = Sites /\ SumFunction(Earned) \in Int
<1>1. ASSUME NEW s \in Sites PROVE Earned[s] \in Int
  <2> DEFINE g == given[<<"pool", s>>]
  <2>1. g \in [Days -> Nat]
    BY DEF CapType, CapKeys
  <2>2. IsFiniteSet(DOMAIN g) /\ \A d \in DOMAIN g : g[d] \in Int
    BY <2>1, DaysFinite
  <2> HIDE DEF g
  <2>3. SumFunction(g) \in Int
    BY <2>2, SumAll, SumInt
  <2>4. QED
    BY <2>3 DEF g, Earned
<1>2. DOMAIN Earned = Sites
  BY DEF Earned
<1>3. IsFiniteSet(DOMAIN Earned) /\ \A s \in DOMAIN Earned : Earned[s] \in Int
  BY <1>1, <1>2, PluginAssumption
<1>4. SumFunction(Earned) \in Int
  BY <1>3, SumAll, SumInt
<1>5. QED
  BY <1>1, <1>2, <1>4

\* One credit earned by a node receipt.
LEMMA EarnedMoves ==
  ASSUME CapType, EnvType, NEW s \in Sites, Charge(<<"pool", s>>, 1)
  PROVE  SumFunction(Earned)' = SumFunction(Earned) + 1
<1> DEFINE k == <<"pool", s>>
           f == given[k]
           g == given'[k]
<1>1. k \in CapKeys /\ \A r \in Sites \ {s} : <<"pool", r>> \in CapKeys /\ <<"pool", r>> # k
  BY DEF CapKeys
<1>2. given \in [CapKeys -> [Days -> Nat]] /\ Today \in Days
  BY TodayInDays DEF CapType
<1>3. given' = [given EXCEPT ![k][Today] = @ + 1]
  BY DEF Charge
<1>4. f \in [Days -> Nat] /\ g = [f EXCEPT ![Today] = @ + 1]
  BY <1>1, <1>2, <1>3
<1>5. \A r \in Sites \ {s} : given'[<<"pool", r>>] = given[<<"pool", r>>]
  BY <1>1, <1>2, <1>3
<1>6. PICK d \in Days : d = Today
  BY <1>2
<1>7. SumFunction(g) = SumFunction(f) + 1 /\ SumFunction(g) \in Int /\ SumFunction(f) \in Int
  <2>1. f \in [Days -> Nat] /\ g = [f EXCEPT ![d] = @ + 1]
    BY <1>4, <1>6
  <2> HIDE DEF f, g
  <2>2. IsFiniteSet(DOMAIN f)
    BY <2>1, DaysFinite
  <2>3. DOMAIN g = DOMAIN f \cup {d} /\ d \in DOMAIN f
    BY <2>1
  <2>4. \A y \in DOMAIN f : f[y] \in Int
    BY <2>1
  <2>5. g[d] = f[d] + 1 /\ g[d] \in Int
    BY <2>1
  <2>6. \A y \in DOMAIN f \ {d} : g[y] = f[y]
    BY <2>1
  <2>7. DOMAIN g = DOMAIN f \cup {d}
    BY <2>3
  <2>8. g[d] \in Int
    BY <2>5
  <2>9. /\ SumFunction(f) \in Int /\ SumFunction(g) \in Int
        /\ IsFiniteSet(DOMAIN g)
        /\ SumFunction(g) = SumFunction(f) + g[d] - (IF d \in DOMAIN f THEN f[d] ELSE 0)
    BY <2>2, <2>4, <2>6, <2>7, <2>8, SumWrites
  <2>10. f[d] \in Int
    BY <2>3, <2>4
  <2>11. QED
    BY <2>3, <2>5, <2>9, <2>10
<1>8. Earned[s] = SumFunction(f) /\ Earned'[s] = SumFunction(g)
  BY DEF Earned
<1>9. \A r \in Sites \ {s} : Earned'[r] = Earned[r]
  BY <1>5 DEF Earned
<1>10. QED
  <2> DEFINE e == Earned
             q == Earned'
  <2>1. DOMAIN e = Sites /\ DOMAIN q = Sites
    BY DEF Earned
  <2>2. \A r \in Sites : e[r] \in Int
    BY EarnedAdds
  <2>3. q[s] = e[s] + 1 /\ q[s] \in Int /\ e[s] \in Int
    BY <1>7, <1>8
  <2>4. \A r \in Sites \ {s} : q[r] = e[r]
    BY <1>9
  <2> HIDE DEF e, q
  <2>5. IsFiniteSet(DOMAIN e)
    BY <2>1, PluginAssumption
  <2>6. DOMAIN q = DOMAIN e \cup {s}
    BY <2>1
  <2>7. \A y \in DOMAIN e : e[y] \in Int
    BY <2>1, <2>2
  <2>8. q[s] \in Int
    BY <2>3
  <2>9. \A y \in DOMAIN e \ {s} : q[y] = e[y]
    BY <2>1, <2>4
  <2>10. /\ SumFunction(e) \in Int /\ SumFunction(q) \in Int
         /\ IsFiniteSet(DOMAIN q)
         /\ SumFunction(q) = SumFunction(e) + q[s] - (IF s \in DOMAIN e THEN e[s] ELSE 0)
    BY <2>5, <2>6, <2>7, <2>8, <2>9, SumWrites
  <2>11. SumFunction(q) = SumFunction(e) + 1
    BY <2>1, <2>3, <2>10
  <2>12. QED
    BY <2>11 DEF e, q

\* A bonus is not what pools earn.
LEMMA EarnedStays ==
  ASSUME CapType, EnvType,
         \/ UNCHANGED given
         \/ \E w \in Wallets, n \in Nat : Charge(<<"bonus", w>>, n)
  PROVE  Earned' = Earned
<1>1. CASE UNCHANGED given
  BY <1>1 DEF Earned
<1>2. ASSUME NEW w \in Wallets, NEW n \in Nat, Charge(<<"bonus", w>>, n)
      PROVE  Earned' = Earned
  <2>1. <<"bonus", w>> \in CapKeys
        /\ \A s \in Sites : <<"pool", s>> \in CapKeys /\ <<"pool", s>> # <<"bonus", w>>
    BY DEF CapKeys
  <2>2. \A s \in Sites : given'[<<"pool", s>>] = given[<<"pool", s>>]
    BY <1>2, <2>1 DEF Charge, CapType
  <2>3. QED
    BY <2>2 DEF Earned
<1>3. QED
  BY <1>1, <1>2

\* A ticket that is bought moves its amount from the balance into the ticket.
LEMMA CreateHoldValue ==
  ASSUME TypeOK, ValueInv, NEW w \in Wallets, NEW s \in Sites, NEW a \in Amounts,
         NEW t \in Tickets, CreateHold(w, s, a, t)
  PROVE  ValueInv'
<1>1. Earned' = Earned
  BY EarnedStays DEF CreateHold, TypeOK
<1>2. CASE UNCHANGED <<procVars, ledgerVars, holdVars>>
  <2>1. UNCHANGED <<crashes, up, credits, holds, issued, settled, pools, treasury>>
    BY <1>2 DEF CreateHold, procVars, ledgerVars, holdVars, poolVars
  <2>2. Worth' = Worth
    BY <2>1 DEF Worth
  <2>3. QED
    BY <1>1, <2>1, <2>2 DEF ValueInv, Books, Assets
<1>3. CASE GrantHold(w, s, a, t)
  <2> DEFINE h == [wallet |-> w, site |-> s, amount |-> a, status |-> "held",
                   expiresAt |-> now + HoldTtl]
  <2>1. /\ holds' = Put(holds, t, h) /\ UNCHANGED settled /\ issued' = issued \cup {t}
        /\ credits' = [credits EXCEPT ![w] = credits[w] - a]
        /\ UNCHANGED <<pools, treasury>> /\ SaveState
    BY <1>3 DEF GrantHold, SetBalance, CreateHold, poolVars
  <2>2. SUFFICES ASSUME crashes' = 0 PROVE Books'
    BY DEF ValueInv
  <2>3. crashes = 0 /\ up' = up
    BY <2>1, <2>2, NoCrashYet
  <2>4. Books
    BY <2>3 DEF ValueInv
  <2>5. t \in Tickets \ issued /\ a \in Nat /\ h.amount = a
    BY Constants DEF CreateHold
  <2> HIDE DEF h
  <2>6. IsFiniteSet(DOMAIN holds') /\ SumFunction(Worth)' = SumFunction(Worth) + h.amount
    BY <2>1, <2>4, <2>5, WorthIssued
  <2>7. credits[w] \in Int /\ credits[w] - a \in Int
    BY <2>5 DEF TypeOK, LedgerType
  <2>8. SumFunction(credits') = SumFunction(credits) + (credits[w] - a) - credits[w]
    BY <2>1, <2>7, CreditsMove
  <2>9. /\ SumFunction(credits) \in Int /\ SumFunction(pools) \in Int
        /\ SumFunction(Worth) \in Int /\ treasury \in Int
    BY <2>4, BooksAdd DEF Books
  <2>10. Assets' = Assets
    BY <2>1, <2>5, <2>6, <2>7, <2>8, <2>9 DEF Assets
  <2>11. DOMAIN holds' \subseteq issued' /\ \A x \in Tickets \ issued' : settled'[x] = 0
    BY <2>1, <2>4 DEF Books, Put
  <2>12. QED
    BY <1>1, <2>3, <2>4, <2>6, <2>10, <2>11 DEF Books
<1>4. QED
  BY <1>2, <1>3 DEF CreateHold

\* A ticket that is used keeps its worth.
LEMMA SubmitHoldValue ==
  ASSUME TypeOK, ValueInv, NEW t \in DOMAIN holds, SubmitHold(t)
  PROVE  ValueInv'
<1>1. Earned' = Earned
  BY EarnedStays DEF SubmitHold, capVars, TypeOK
<1>2. /\ holds' = [holds EXCEPT ![t].status = "submitted"] /\ SaveState
      /\ UNCHANGED <<credits, issued, settled, pools, treasury>>
  BY DEF SubmitHold, ledgerVars, poolVars
<1>3. /\ DOMAIN holds' = DOMAIN holds
      /\ \A x \in DOMAIN holds : holds'[x].amount = holds[x].amount
  BY <1>2 DEF TypeOK, HoldType, HoldsType, Hold
<1>4. Worth' = Worth
  BY <1>2, <1>3 DEF Worth
<1>5. SUFFICES ASSUME crashes' = 0 PROVE Books'
  BY DEF ValueInv
<1>6. crashes = 0 /\ up' = up
  BY <1>2, <1>5, NoCrashYet
<1>7. QED
  BY <1>1, <1>2, <1>3, <1>4, <1>6 DEF ValueInv, Books, Assets

\* What any settlement does to the ticket, for the books.
LEMMA SettledBooks ==
  ASSUME TypeOK, Books, NEW t \in DOMAIN holds, NEW s, NEW result,
         holds' = Put(holds, t, Finalized(t, result, s)), MarkSettled(t),
         UNCHANGED issued
  PROVE  /\ IsFiniteSet(DOMAIN holds') /\ DOMAIN holds' \subseteq issued'
         /\ \A x \in Tickets \ issued' : settled'[x] = 0
         /\ SumFunction(Worth)' = SumFunction(Worth) - holds[t].amount
<1>1. /\ IsFiniteSet(DOMAIN holds') /\ DOMAIN holds' = DOMAIN holds
      /\ SumFunction(Worth)' = SumFunction(Worth) - holds[t].amount
  BY WorthSettled
<1>2. t \in issued
  BY DEF Books
<1>3. settled \in [Tickets -> Nat]
  BY DEF TypeOK, HoldType
<1>4. \A x \in Tickets \ issued' : settled'[x] = 0
  BY <1>2, <1>3 DEF MarkSettled, Books
<1>5. QED
  BY <1>1, <1>4 DEF Books

\* A refund moves the ticket's worth back, a bonus comes out of the pool.
LEMMA FinalizeApprovedValue ==
  ASSUME TypeOK, ValueInv, NEW t \in DOMAIN holds, NEW s \in Sites,
         NEW m \in Multipliers, FinalizeApproved(t, s, m)
  PROVE  ValueInv'
<1> DEFINE a == holds[t].amount
           w == holds[t].wallet
           bonus == Bonus(holds[t].amount, m)
<1>0. w \in Wallets /\ a \in Nat /\ bonus \in Nat /\ m \in Nat
  BY HoldFacts, BonusNat, Constants
<1>1. /\ holds' = Put(holds, t, Finalized(t, "approved", s)) /\ MarkSettled(t)
      /\ UNCHANGED <<issued, treasury>>
  BY DEF FinalizeApproved
<1>2. SUFFICES ASSUME crashes' = 0 PROVE Books'
  BY DEF ValueInv
<1>3. SaveState \/ NoSave(TRUE)
  BY DEF FinalizeApproved, Refund, RefundBonusRefused, RefundWithBonus
<1>4. crashes = 0 /\ up' = up
  BY <1>2, <1>3, NoCrashYet
<1>5. Books
  BY <1>4 DEF ValueInv
<1>6. /\ IsFiniteSet(DOMAIN holds') /\ DOMAIN holds' \subseteq issued'
      /\ \A x \in Tickets \ issued' : settled'[x] = 0
      /\ SumFunction(Worth)' = SumFunction(Worth) - a
  BY <1>1, <1>5, SettledBooks
<1>7. /\ SumFunction(credits) \in Int /\ SumFunction(pools) \in Int
      /\ SumFunction(Worth) \in Int /\ treasury \in Int
  BY <1>5, BooksAdd DEF Books
<1>8. credits[w] \in Int /\ pools[s] \in Int
  BY <1>0 DEF TypeOK, LedgerType, PoolType
<1> HIDE DEF a, w, bonus
<1>9. ASSUME credits' = [credits EXCEPT ![w] = credits[w] + a], UNCHANGED pools
      PROVE  Assets' = Assets
  <2>1. credits[w] + a \in Int
    BY <1>0, <1>8
  <2>2. SumFunction(credits') = SumFunction(credits) + (credits[w] + a) - credits[w]
    BY <1>0, <1>9, <2>1, CreditsMove
  <2>3. QED
    BY <1>0, <1>1, <1>6, <1>7, <1>8, <1>9, <2>2 DEF Assets
<1>10. CASE Refund(t, s)
  <2>1. credits' = [credits EXCEPT ![w] = credits[w] + a] /\ UNCHANGED <<pools, given>>
    BY <1>10 DEF Refund, SetBalance, a, w
  <2>2. Earned' = Earned
    BY <2>1, EarnedStays DEF TypeOK
  <2>3. Assets' = Assets
    BY <1>9, <2>1
  <2>4. QED
    BY <1>4, <1>5, <1>6, <2>2, <2>3 DEF Books
<1>11. CASE RefundBonusRefused(t)
  <2>1. credits' = [credits EXCEPT ![w] = credits[w] + a] /\ UNCHANGED <<pools, given>>
    BY <1>11 DEF RefundBonusRefused, Refuse, SetBalance, a, w
  <2>2. Earned' = Earned
    BY <2>1, EarnedStays DEF TypeOK
  <2>3. Assets' = Assets
    BY <1>9, <2>1
  <2>4. QED
    BY <1>4, <1>5, <1>6, <2>2, <2>3 DEF Books
<1>12. CASE RefundWithBonus(t, s, bonus)
  <2> DEFINE paid == IF pools[s] >= bonus THEN bonus ELSE 0
  <2>0. paid \in Nat
    BY <1>0
  <2>1. /\ credits' = [credits EXCEPT ![w] = credits[w] + a + paid]
        /\ pools' = [pools EXCEPT ![s] = pools[s] - paid]
        /\ Charge(<<"bonus", w>>, bonus)
    BY <1>12 DEF RefundWithBonus, SetBalance, a, w
  <2> HIDE DEF paid
  <2>2. Earned' = Earned
    BY <1>0, <2>1, EarnedStays DEF TypeOK
  <2>3. credits[w] + a + paid \in Int /\ pools[s] - paid \in Int
    BY <1>0, <1>8, <2>0
  <2>4. SumFunction(credits') = SumFunction(credits) + (credits[w] + a + paid) - credits[w]
    BY <1>0, <2>1, <2>3, CreditsMove
  <2>5. SumFunction(pools') = SumFunction(pools) + (pools[s] - paid) - pools[s]
    BY <2>1, <2>3, PoolsMove
  <2>6. Assets' = Assets
    BY <1>0, <1>1, <1>6, <1>7, <1>8, <2>0, <2>4, <2>5 DEF Assets
  <2>7. QED
    BY <1>4, <1>5, <1>6, <2>2, <2>6 DEF Books
<1>13. QED
  BY <1>10, <1>11, <1>12 DEF FinalizeApproved, bonus

\* A forfeit splits the ticket's worth between the pool and the treasury.
LEMMA FinalizeForfeitValue ==
  ASSUME TypeOK, ValueInv, NEW t \in DOMAIN holds, NEW s \in Sites,
         NEW result \in {"spam", "trash"}, FinalizeForfeit(t, s, result)
  PROVE  ValueInv'
<1> DEFINE a == holds[t].amount
           p == PoolShare(a)
<1>0. a \in Nat /\ p \in Nat /\ TreasuryShare(a) = a - p
  BY HoldFacts, PoolShareBounds DEF TreasuryShare
<1>1. /\ holds' = Put(holds, t, Finalized(t, result, s)) /\ MarkSettled(t)
      /\ UNCHANGED issued /\ UNCHANGED credits /\ SaveState
      /\ pools' = [pools EXCEPT ![s] = pools[s] + p]
      /\ treasury' = treasury + TreasuryShare(a)
  BY DEF FinalizeForfeit, ledgerVars
<1>2. Earned' = Earned
  BY EarnedStays DEF FinalizeForfeit, capVars, TypeOK
<1>3. SUFFICES ASSUME crashes' = 0 PROVE Books'
  BY DEF ValueInv
<1>4. crashes = 0 /\ up' = up
  BY <1>1, <1>3, NoCrashYet
<1>5. Books
  BY <1>4 DEF ValueInv
<1>6. /\ IsFiniteSet(DOMAIN holds') /\ DOMAIN holds' \subseteq issued'
      /\ \A x \in Tickets \ issued' : settled'[x] = 0
      /\ SumFunction(Worth)' = SumFunction(Worth) - a
  BY <1>1, <1>5, SettledBooks
<1>7. /\ SumFunction(credits) \in Int /\ SumFunction(pools) \in Int
      /\ SumFunction(Worth) \in Int /\ treasury \in Int
  BY <1>5, BooksAdd DEF Books
<1>8. pools[s] \in Int
  BY DEF TypeOK, PoolType
<1> HIDE DEF a, p
<1>9. pools[s] + p \in Int
  BY <1>0, <1>8
<1>10. SumFunction(pools') = SumFunction(pools) + (pools[s] + p) - pools[s]
  BY <1>1, <1>9, PoolsMove
<1>11. Assets' = Assets
  BY <1>0, <1>1, <1>6, <1>7, <1>8, <1>10 DEF Assets
<1>12. QED
  BY <1>2, <1>4, <1>5, <1>6, <1>11 DEF Books

\* What a node's receipt puts into the pool it also earns.
LEMMA NodeReceiptValue ==
  ASSUME TypeOK, ValueInv, NEW v, NEW s \in Sites, NEW w, NodeReceipt(v, s, w)
  PROVE  ValueInv'
<1>1. /\ UNCHANGED <<credits, treasury, holds, issued, settled>>
      /\ SaveState \/ NoSave(FALSE)
  BY DEF NodeReceipt, holdVars
<1>2. Worth' = Worth
  BY <1>1 DEF Worth
<1>3. SUFFICES ASSUME crashes' = 0 PROVE Books'
  BY DEF ValueInv
<1>4. crashes = 0 /\ up' = up
  BY <1>1, <1>3, NoCrashYet
<1>5. Books
  BY <1>4 DEF ValueInv
<1>6. /\ SumFunction(credits) \in Int /\ SumFunction(pools) \in Int
      /\ SumFunction(Worth) \in Int /\ treasury \in Int
  BY <1>5, BooksAdd DEF Books
<1>7. SumFunction(Earned) \in Int
  BY EarnedAdds DEF TypeOK
<1>8. CASE /\ Charge(<<"pool", s>>, 1) /\ pools' = [pools EXCEPT ![s] = pools[s] + 1]
  <2>1. SumFunction(Earned)' = SumFunction(Earned) + 1
    BY <1>8, EarnedMoves DEF TypeOK
  <2>2. pools[s] \in Int /\ pools[s] + 1 \in Int
    BY DEF TypeOK, PoolType
  <2>3. SumFunction(pools') = SumFunction(pools) + (pools[s] + 1) - pools[s]
    BY <1>8, <2>2, PoolsMove
  <2>4. Assets' = Assets + 1 /\ Assets \in Int
    BY <1>1, <1>2, <1>6, <2>2, <2>3 DEF Assets
  <2>5. SumFunction(InitLedger) + SumFunction(InitPools) \in Int
    <3>1. IsFiniteSet(DOMAIN InitLedger) /\ IsFiniteSet(DOMAIN InitPools)
      BY PluginAssumption, ConstantsAssumption
    <3>2. \A x \in DOMAIN InitLedger : InitLedger[x] \in Int
      BY ConstantsAssumption
    <3>3. \A x \in DOMAIN InitPools : InitPools[x] \in Int
      BY ConstantsAssumption
    <3>4. SumFunction(InitLedger) \in Int
      BY <3>1, <3>2, SumAll, SumInt
    <3>5. SumFunction(InitPools) \in Int
      BY <3>1, <3>3, SumAll, SumInt
    <3>6. QED
      BY <3>4, <3>5
  <2>6. Assets' = SumFunction(InitLedger) + SumFunction(InitPools) + SumFunction(Earned)'
    BY <1>5, <1>7, <2>1, <2>4, <2>5 DEF Books
  <2>7. QED
    BY <1>1, <1>4, <1>5, <2>6 DEF Books
<1>9. CASE UNCHANGED <<given, pools>>
  <2>1. Earned' = Earned
    BY <1>9, EarnedStays DEF TypeOK
  <2>2. QED
    BY <1>1, <1>2, <1>4, <1>5, <1>9, <2>1 DEF Books, Assets
<1>10. QED
  BY <1>8, <1>9 DEF NodeReceipt, Refuse

\* Steps that move no value.
LEMMA SameValue ==
  ASSUME ValueInv, UNCHANGED <<credits, pools, treasury, holds, settled, issued, given>>,
         crashes' = 0 => crashes = 0 /\ up' = up
  PROVE  ValueInv'
<1>1. Worth' = Worth /\ Earned' = Earned
  BY DEF Worth, Earned
<1>2. QED
  BY <1>1 DEF ValueInv, Books, Assets

\* Every step of the two keeps the books: one case per action.
LEMMA PluginValue ==
  ASSUME TypeOK, PluginType, ValueInv, [PNext]_<<vars, pluginVars>>
  PROVE  ValueInv'
<1>1. ASSUME NEW w \in Wallets, NEW s \in Sites, NEW a \in Amounts, NEW t \in Tickets,
             RestHold(w, s, a, t)
      PROVE  ValueInv'
  BY <1>1, CreateHoldValue DEF RestHold
<1>2. ASSUME NEW c, NEW t, NEW s, PostComment(c, t, s) PROVE ValueInv'
  <2>1. t \in DOMAIN holds /\ SubmitHold(t)
    BY <1>2 DEF PostComment, SubmitHold, Live
  <2>2. QED
    BY <2>1, SubmitHoldValue
<1>3. ASSUME NEW c, NEW status, NEW m, Moderate(c, status, m) PROVE ValueInv'
  BY <1>3, SameValue DEF Moderate, vars, procVars, ledgerVars, capVars, holdVars, poolVars
<1>4. ASSUME NEW call \in calls, Deliver(call) PROVE ValueInv'
  <2>1. /\ call.site \in Sites /\ call.multiplier \in Multipliers
        /\ call.result \in {"approved", "spam", "trash"}
    BY DEF PluginType, CallType, Verdicts
  <2>2. CASE call.result = "approved"
    <3>1. FinalizeApproved(call.ticket, call.site, call.multiplier)
      BY <1>4, <2>2 DEF Deliver
    <3>2. call.ticket \in DOMAIN holds
      BY <3>1 DEF FinalizeApproved, Settleable, Live
    <3>3. QED
      BY <2>1, <3>1, <3>2, FinalizeApprovedValue
  <2>3. CASE call.result # "approved"
    <3>1. FinalizeForfeit(call.ticket, call.site, call.result)
      BY <1>4, <2>3 DEF Deliver
    <3>2. call.ticket \in DOMAIN holds /\ call.result \in {"spam", "trash"}
      BY <2>1, <2>3, <3>1 DEF FinalizeForfeit, Settleable, Live
    <3>3. QED
      BY <2>1, <3>1, <3>2, FinalizeForfeitValue
  <2>4. QED
    BY <2>2, <2>3
<1>5. ASSUME NEW call, Fail(call) PROVE ValueInv'
  BY <1>5, SameValue DEF Fail, vars, procVars, ledgerVars, capVars, holdVars, poolVars
<1>6. CASE PoolNext
  <2>1. ASSUME NEW v, NEW s, NodeVerify(v, s) PROVE ValueInv'
    BY <2>1, SameValue DEF NodeVerify, procVars, ledgerVars, capVars, holdVars
  <2>2. QED
    BY <1>6, <2>1, NodeReceiptValue DEF PoolNext
<1>7. CASE EnvNext
  <2>1. ASSUME Tick \/ (\E w : RegistryChange(w)) PROVE ValueInv'
    BY <2>1, SameValue DEF Tick, RegistryChange, procVars, ledgerVars, capVars, holdVars,
       poolVars
  <2>2. CASE Crash
    <3>1. crashes' # 0
      BY <2>2 DEF Crash, TypeOK, ProcType
    <3>2. QED
      BY <3>1 DEF ValueInv
  <2>3. CASE Restart
    <3>1. ~up /\ crashes' = crashes
      BY <2>3 DEF Restart
    <3>2. crashes # 0
      BY <3>1 DEF ValueInv, Books
    <3>3. QED
      BY <3>1, <3>2 DEF ValueInv
  <2>4. QED
    BY <1>7, <2>1, <2>2, <2>3 DEF EnvNext
<1>8. CASE UNCHANGED <<vars, pluginVars>>
  BY <1>8, SameValue DEF vars, procVars, ledgerVars, capVars, holdVars, poolVars
<1>9. QED
  BY <1>1, <1>2, <1>3, <1>4, <1>5, <1>6, <1>7, <1>8 DEF PNext

\* At the start there are no tickets and nothing is earned.
LEMMA InitValue == PInit => ValueInv
<1> SUFFICES ASSUME PInit PROVE Books
  BY DEF ValueInv
<1>1. /\ up /\ credits = InitLedger /\ pools = InitPools /\ treasury = 0
      /\ DOMAIN holds = {} /\ settled = [t \in Tickets |-> 0]
      /\ given = [k \in CapKeys |-> [d \in Days |-> 0]]
  BY DEF PInit, Init, EmptyMap
<1>2. IsFiniteSet(DOMAIN holds)
  BY <1>1, FS_EmptySet
<1>3. DOMAIN Worth = {}
  BY <1>1 DEF Worth
<1>4. SumFunction(Worth) = 0
  BY <1>3, SumNone
<1>5. ASSUME NEW s \in Sites PROVE Earned[s] = 0
  <2> DEFINE g == given[<<"pool", s>>]
  <2>1. g = [d \in Days |-> 0]
    BY <1>1 DEF CapKeys
  <2>2. IsFiniteSet(DOMAIN g) /\ \A d \in DOMAIN g : g[d] = 0
    BY <2>1, DaysFinite
  <2> HIDE DEF g
  <2>3. SumFunction(g) = 0
    BY <2>2, SumZero
  <2>4. QED
    BY <2>3 DEF g, Earned
<1>6. SumFunction(Earned) = 0
  <2>1. DOMAIN Earned = Sites
    BY DEF Earned
  <2>2. IsFiniteSet(DOMAIN Earned) /\ \A s \in DOMAIN Earned : Earned[s] = 0
    BY <1>5, <2>1, PluginAssumption
  <2>3. QED
    BY <2>2, SumZero
<1>7. SumFunction(credits) \in Int /\ SumFunction(pools) \in Int
  BY <1>2, InitPlugin, BooksAdd
<1>8. Assets = SumFunction(InitLedger) + SumFunction(InitPools) + SumFunction(Earned)
  BY <1>1, <1>4, <1>6, <1>7 DEF Assets
<1>9. QED
  BY <1>1, <1>2, <1>8 DEF Books

\* As long as the coordinator does not crash, the toll comments create and
\* destroy nothing: createHold, the refund, the bonus out of the site pool
\* and the forfeit split of finalizeHold only move value, in whatever order
\* the requests of the plugin arrive and however often a ticket is settled,
\* and POST /node/receipts adds exactly what it counts against the pool's cap.
THEOREM ValueIsConserved == PSpec => []ValueConserved
<1>1. PInit => TypeOK /\ PluginType /\ ValueInv
  BY InitPlugin, InitValue
<1>2. (TypeOK /\ PluginType /\ ValueInv) /\ [PNext]_<<vars, pluginVars>>
        => (TypeOK /\ PluginType /\ ValueInv)'
  BY PluginStutters, PluginValue
<1>3. ValueInv => ValueConserved
  BY DEF ValueInv, ValueConserved, Books, Assets
<1>4. QED
  BY <1>1, <1>2, <1>3, PTL DEF PSpec

=============================================================================
