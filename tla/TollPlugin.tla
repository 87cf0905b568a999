----------------------------- MODULE TollPlugin -----------------------------
(***************************************************************************)
(* The WordPress plugin of a comment site (plugins/toll-comments) together *)
(* with the coordinator it calls.  A visitor buys a ticket, posts a        *)
(* comment with it, and every moderation of the comment sends one finalize *)
(* request.  Requests of different moderators may overtake one another;    *)
(* one that fails or times out is neither noticed nor repeated.            *)
(***************************************************************************)
EXTENDS Coordinator, Functions

CONSTANTS Comments,  \* names for the comments of the sites
          MaxCalls   \* bound on the finalize requests sent

\* The ledger and the pools are JSON objects: they have finitely many keys.
ASSUME PluginAssumption ==
  IsFiniteSet(Wallets) /\ IsFiniteSet(Sites) /\ MaxCalls \in Nat

VARIABLES known,     \* tickets the visitors' pages have received
          comments,  \* comments with their toll meta data and status
          calls,     \* finalize requests on their way
          sent       \* how many have been sent

pluginVars == <<known, comments, calls, sent>>

PInit == Init /\ known = {} /\ comments = EmptyMap /\ calls = {} /\ sent = 0

\* The hold route: the answer may not arrive.
RestHold(w, s, a, t) ==
  /\ CreateHold(w, s, a, t)
  /\ \/ known' = known
     \/ up' /\ known' = known \cup (issued' \ issued)
  /\ UNCHANGED <<comments, calls, sent>>

\* preprocess_comment and comment_post: the comment is stored only if the
\* submit request is answered.  Any known ticket will do, used or not.
PostComment(c, t, s) ==
  /\ t \in known /\ c \notin DOMAIN comments
  /\ SubmitHold(t)
  /\ \/ comments' = comments
     \/ up' /\ comments' = Put(comments, c,
                  [ticket |-> t, site |-> s, status |-> "unapproved"])
  /\ UNCHANGED <<known, calls, sent>>

Verdicts == {"approved", "spam", "trash"}

\* transition_comment_status: the status changes first, whatever becomes of
\* the request.
Moderate(c, status, multiplier) ==
  /\ c \in DOMAIN comments /\ comments[c].status # status
  /\ comments' = [comments EXCEPT ![c].status = status]
  /\ IF status \notin Verdicts THEN UNCHANGED <<calls, sent>>
     ELSE /\ sent < MaxCalls /\ sent' = sent + 1
          /\ calls' = calls \cup
               {[id |-> sent, ticket |-> comments[c].ticket, result |-> status,
                 site |-> comments[c].site, multiplier |-> multiplier]}
  /\ UNCHANGED <<known, vars>>

Deliver(call) ==
  /\ calls' = calls \ {call}
  /\ IF call.result = "approved"
     THEN FinalizeApproved(call.ticket, call.site, call.multiplier)
     ELSE FinalizeForfeit(call.ticket, call.site, call.result)
  /\ UNCHANGED <<known, comments, sent>>

\* The request is lost, or the coordinator is down or refuses it.
Fail(call) ==
  /\ calls' = calls \ {call}
  /\ UNCHANGED <<known, comments, sent, vars>>

PNext ==
  \/ \E w \in Wallets, s \in Sites, a \in Amounts, t \in Tickets :
       RestHold(w, s, a, t)
  \/ \E c \in Comments, t \in known, s \in Sites : PostComment(c, t, s)
  \/ \E c \in DOMAIN comments, status \in Verdicts \cup {"unapproved"},
        m \in Multipliers : Moderate(c, status, m)
  \/ \E call \in calls : Deliver(call) \/ Fail(call)
  \/ (PoolNext \/ EnvNext) /\ UNCHANGED pluginVars

PSpec == PInit /\ [][PNext]_<<vars, pluginVars>>

-----------------------------------------------------------------------------
\* What the unsettled tickets are worth; a ticket settled twice is worth less
\* than nothing.
Worth == [t \in DOMAIN holds |-> holds[t].amount * (1 - settled[t])]
\* What each pool earned by node receipts in this run.
Earned == [s \in Sites |-> SumFunction(given[<<"pool", s>>])]

\* Value moves and is not made: the balances, the pools, the treasury and the
\* unsettled tickets add up to what was there at the start and what node
\* receipts earned since.  Every settlement of a ticket counts, so a second
\* one shows as a ticket of negative worth: refunds, bonuses and the forfeit
\* split of POST /comments/finalize create nothing else.
ValueConserved ==
  crashes = 0 =>
    SumFunction(credits) + SumFunction(pools) + treasury + SumFunction(Worth)
    = SumFunction(InitLedger) + SumFunction(InitPools) + SumFunction(Earned)
=============================================================================
