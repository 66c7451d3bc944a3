----------------------------- MODULE LeaseQueue -----------------------------
(***************************************************************************)
(* What the outbox promises its workers: a message is taken by one holder  *)
(* at a time, it can be taken back from a holder that keeps a copy of it,  *)
(* and settling a copy affects the message only if its holder still has    *)
(* the message.  A message is forgotten only if it was marked for that     *)
(* when it was settled.  The promises end for a message that is revived    *)
(* while copies of it are around, or with the mark on it.  Nothing here    *)
(* mentions attempts, workers, leases or SQL.                              *)
(***************************************************************************)
CONSTANTS Msg, Holder, None

VARIABLES state,    \* of each message: none, ready, taken, done, dead or gone
          holder,   \* who has it, if it is taken
          copy,     \* the message each holder has a copy of
          spoilt,   \* it was revived under a copy
          marked    \* messages that are about to be forgotten

vars == <<state, holder, copy, spoilt, marked>>

Init ==
    /\ state = [m \in Msg |-> "none"]
    /\ holder = [m \in Msg |-> None]
    /\ copy = [h \in Holder |-> None]
    /\ spoilt = [m \in Msg |-> FALSE]
    /\ marked = {}

Put(m) ==
    /\ state[m] = "none"
    /\ state' = [state EXCEPT ![m] = "ready"]
    /\ UNCHANGED <<holder, copy, spoilt, marked>>

\* The holders in G, none of which has a copy, take one ready message each.
Take(G, pick) ==
    /\ \A h1, h2 \in G : pick[h1] = pick[h2] => h1 = h2
    /\ copy' = [h \in Holder |-> IF h \in G THEN pick[h] ELSE copy[h]]
    /\ state' = [m \in Msg |-> IF \E h \in G : pick[h] = m THEN "taken" ELSE state[m]]
    /\ holder' = [m \in Msg |-> IF \E h \in G : pick[h] = m
                                THEN CHOOSE h \in G : pick[h] = m ELSE holder[m]]
    /\ UNCHANGED <<spoilt, marked>>

\* Messages are taken, and the news never reaches a holder.
TakeForNobody(S) ==
    /\ state' = [m \in Msg |-> IF m \in S THEN "taken" ELSE state[m]]
    /\ UNCHANGED <<holder, copy, spoilt, marked>>

\* The holders in H settle.  Only the messages they still have change state, and those of
\* the spoilt ones in S of which they have a copy.
Settle(H, S, to) ==
    LET theirs == {m \in Msg : holder[m] \in H} \cup S
    IN  /\ copy' = [h \in Holder |-> IF h \in H THEN None ELSE copy[h]]
        /\ \A m \in theirs : state[m] = "taken" /\ \E h \in H : copy[h] = m
        /\ state' = [m \in Msg |-> IF m \in theirs THEN to ELSE state[m]]
        /\ holder' = [m \in Msg |-> IF m \in theirs THEN None ELSE holder[m]]
        /\ UNCHANGED <<spoilt, marked>>

\* The holders in H vanish; what they had stays taken, by nobody.
Abandon(H) ==
    /\ copy' = [h \in Holder |-> IF h \in H THEN None ELSE copy[h]]
    /\ holder' = [m \in Msg |-> IF holder[m] \in H THEN None ELSE holder[m]]
    /\ UNCHANGED <<state, spoilt, marked>>

\* Messages are taken back; copies remain with their former holders.
TakeBack(S) ==
    /\ state' = [m \in Msg |-> IF m \in S THEN "ready" ELSE state[m]]
    /\ holder' = [m \in Msg |-> IF m \in S THEN None ELSE holder[m]]
    /\ UNCHANGED <<copy, spoilt, marked>>

\* Settled messages in S are about to be forgotten.
Mark(S) ==
    /\ marked' = marked \cup S
    /\ UNCHANGED <<state, holder, copy, spoilt>>

\* Marked messages are forgotten, whatever has become of them.
Forget(S) ==
    /\ state' = [m \in Msg |-> IF m \in S THEN "gone" ELSE state[m]]
    /\ holder' = [m \in Msg |-> IF m \in S THEN None ELSE holder[m]]
    /\ marked' = marked \ S
    /\ UNCHANGED <<copy, spoilt>>

\* A dead message starts over.
Revive(m) ==
    /\ state[m] = "dead"
    /\ state' = [state EXCEPT ![m] = "ready"]
    /\ spoilt' = [spoilt EXCEPT ![m] = @ \/ \E h \in Holder : copy[h] = m]
    /\ UNCHANGED <<holder, copy, marked>>

In(states) == {m \in Msg : state[m] \in states}
Holding == {h \in Holder : copy[h] # None}

Next ==
    \/ \E m \in Msg : Put(m) \/ Revive(m)
    \/ \E S \in SUBSET In({"ready"}) : TakeForNobody(S)
    \/ \E S \in SUBSET In({"taken"}) : TakeBack(S)
    \/ \E S \in SUBSET In({"done", "dead"}) : Mark(S)
    \/ \E S \in SUBSET marked : Forget(S)
    \/ \E G \in SUBSET (Holder \ Holding) : \E pick \in [G -> In({"ready"})] : Take(G, pick)
    \/ \E H \in SUBSET Holding :
         \/ Abandon(H)
         \/ \E S \in SUBSET {m \in Msg : spoilt[m]}, to \in {"done", "dead", "ready"} :
              Settle(H, S, to)

Spec == Init /\ [][Next]_vars
=============================================================================
