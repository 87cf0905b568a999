------------------------------ MODULE Payments ------------------------------
(* The mock payments provider and the gateway's payment endpoints: a quote   *)
(* is locked for a while, checkouts are opened on it, and a checkout is paid *)
(* or runs out.  The expiry of a checkout is noticed only when somebody asks.*)
EXTENDS Integers

CONSTANTS
  PaySkus,       \* the skus of the pricing file: sku -> the set of its rails
  PayQuoteTtl,   \* MOCK_QUOTE_TTL_MS, in ticks
  PayMaxNow,     \* bound: the last tick
  PayQuoteIds,   \* bound: the quotes that are made
  PayCheckoutIds \* bound: the checkouts that are made

ASSUME PayAssumption == PayQuoteTtl \in Nat

VARIABLES payNow, quotes, checkouts
payVars == <<payNow, quotes, checkouts>>

PaymentStatus == {"pending", "paid", "expired", "failed", "refunded"}
PayRails == UNION {PaySkus[sku] : sku \in DOMAIN PaySkus}
NoQuote == [rails |-> {}, expires |-> 0, status |-> "none"]
NoCheckout == [quote |-> 0, rail |-> "none", expires |-> 0, status |-> "none",
               paidAt |-> -1]

PayInit ==
  /\ payNow = 0
  /\ quotes = [q \in PayQuoteIds |-> NoQuote]
  /\ checkouts = [c \in PayCheckoutIds |-> NoCheckout]

IsExpired(expires) == expires <= payNow

\* POST /v1/payments/quote: a sku with at least one known rail.
CreateQuote ==
  /\ \E q \in PayQuoteIds, rails \in SUBSET PayRails \ {{}} :
       /\ quotes[q].status = "none"
       /\ quotes' = [quotes EXCEPT ![q] =
            [rails |-> rails, expires |-> payNow + PayQuoteTtl,
             status |-> "pending"]]
  /\ UNCHANGED <<payNow, checkouts>>

\* POST /v1/payments/checkout on a live quote, by one of its rails.
CreateCheckout ==
  /\ \E c \in PayCheckoutIds, q \in PayQuoteIds, rail \in PayRails :
       /\ checkouts[c].status = "none"
       /\ quotes[q].status # "none"
       /\ ~IsExpired(quotes[q].expires)
       /\ rail \in quotes[q].rails
       /\ checkouts' = [checkouts EXCEPT ![c] =
            [quote |-> q, rail |-> rail, expires |-> quotes[q].expires,
             status |-> "pending", paidAt |-> -1]]
  /\ UNCHANGED <<payNow, quotes>>

\* A checkout asked for on a quote that ran out marks the quote.
CheckoutTooLate ==
  /\ \E q \in PayQuoteIds :
       /\ quotes[q].status # "none"
       /\ IsExpired(quotes[q].expires)
       /\ quotes' = [quotes EXCEPT ![q].status = "expired"]
  /\ UNCHANGED <<payNow, checkouts>>

\* GET /v1/payments/status: a pending checkout that ran out is marked.
StatusAfterAsking(c) ==
  IF checkouts[c].status = "pending" /\ IsExpired(checkouts[c].expires)
  THEN "expired" ELSE checkouts[c].status

GetStatus ==
  /\ \E c \in PayCheckoutIds :
       /\ checkouts[c].status # "none"
       /\ checkouts' = [checkouts EXCEPT ![c].status = StatusAfterAsking(c)]
  /\ UNCHANGED <<payNow, quotes>>

\* (For the mutation check: paying after the expiry.)
CanPayMut(c) == checkouts[c].status # "none"

\* POST /mock-pay/mark-paid: the expiry is looked at first, whatever the
\* status, so marking again after the expiry takes a payment back.
CanPay(c) == ~IsExpired(checkouts[c].expires)

MarkPaid ==
  /\ \E c \in PayCheckoutIds :
       /\ checkouts[c].status # "none"
       /\ checkouts' = [checkouts EXCEPT ![c] =
            IF CanPay(c) THEN [@ EXCEPT !.status = "paid", !.paidAt = payNow]
                         ELSE [@ EXCEPT !.status = "expired"]]
  /\ UNCHANGED <<payNow, quotes>>

PayTick == payNow < PayMaxNow /\ payNow' = payNow + 1
           /\ UNCHANGED <<quotes, checkouts>>

PayNext == CreateQuote \/ CreateCheckout \/ CheckoutTooLate \/ GetStatus
           \/ MarkPaid \/ PayTick
PaySpec == PayInit /\ [][PayNext]_payVars

\* What is paid was paid on a rail the quote offers and while the price of
\* the quote was locked, and a quote that is marked expired has no checkout
\* left that can still be paid.
PaidInTime ==
  \A c \in PayCheckoutIds :
    LET quote == quotes[checkouts[c].quote]
    IN /\ checkouts[c].status = "paid" =>
            /\ checkouts[c].rail \in quote.rails
            /\ checkouts[c].paidAt < quote.expires
       /\ checkouts[c].status \notin {"none", "paid"} /\ quote.status = "expired"
            => StatusAfterAsking(c) = "expired"
=============================================================================
