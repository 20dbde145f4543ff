------------------------------ MODULE Timers ------------------------------
(***************************************************************************)
(* What the timer of an event loop promises: an accepted item is handed    *)
(* out by the first collection at or after its expiry, with every other    *)
(* item that is due by then, earliest expiry first; until then it may be   *)
(* withdrawn.  Collections that would go back in time hand out nothing.    *)
(***************************************************************************)
EXTENDS Sequences, Integers

CONSTANTS Item,
          Time,    \* the instants
          Span     \* an expiry must be less than Span ahead of the last collection

VARIABLES pending, \* the accepted items that have not been handed out
          expiry,  \* item -> the expiry it was last offered with
          latest,  \* time of the last collection, 0 before the first use
          due      \* the items of the last collection, in order

timerVars == <<pending, expiry, latest, due>>

Init ==
    /\ pending = {}
    /\ expiry \in [Item -> {0}]
    /\ latest = 0
    /\ due = <<>>

Base(now) == IF latest = 0 THEN now ELSE latest

Accepts(now, e) == Base(now) <= now /\ now <= e /\ e - Base(now) < Span

Offer(i, now, e) ==
    /\ i \notin pending
    /\ expiry' = [expiry EXCEPT ![i] = e]
    /\ latest' = Base(now)
    /\ pending' = IF Accepts(now, e) THEN pending \cup {i} ELSE pending
    /\ UNCHANGED due

Withdraw(i) ==
    /\ i \in pending
    /\ pending' = pending \ {i}
    /\ UNCHANGED <<expiry, latest, due>>

InExpiryOrder(q) ==
    \A j, k \in 1..Len(q) : j < k => expiry[q[j]] <= expiry[q[k]]

Collect(now) ==
    LET back == now < Base(now)
    IN  /\ \A j, k \in 1..Len(due') : due'[j] = due'[k] => j = k
        /\ {due'[j] : j \in 1..Len(due')} =
              IF back THEN {} ELSE {i \in pending : expiry[i] <= now}
        /\ InExpiryOrder(due')
        /\ pending' = {i \in pending : \A j \in 1..Len(due') : due'[j] # i}
        /\ latest' = IF back THEN latest ELSE now
        /\ UNCHANGED expiry

Next ==
    \/ \E i \in Item, now \in Time : Offer(i, now, expiry'[i])
    \/ \E i \in Item : Withdraw(i)
    \/ \E now \in Time : Collect(now)

Spec == Init /\ [][Next]_timerVars

=============================================================================
