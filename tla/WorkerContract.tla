--------------------------- MODULE WorkerContract ---------------------------
(***************************************************************************)
(* What a worker process promises the queue it takes messages from: it is  *)
(* answerable for a message from the moment it takes it until it reports   *)
(* one outcome of it, exactly once; it hands a message back for another    *)
(* attempt only while attempts are left, and hands the attempt itself back *)
(* only once it is leaving; it takes nothing more into its custody then,   *)
(* and it is over only with empty hands.  Nothing here mentions polling,   *)
(* pools, goroutines, channels or buffers.                                 *)
(***************************************************************************)
EXTENDS Integers

CONSTANT Msg

VARIABLES state, attempt,   \* of each message, as the queue has them
          budget,           \* the attempts a message is allowed
          custody,          \* the messages the worker is answerable for
          phase             \* of the worker: serving, leaving, over

vars == <<state, attempt, budget, custody, phase>>

Init ==
    /\ state \in [Msg -> {"ready", "done"}]
    /\ attempt = [m \in Msg |-> 0]
    /\ budget \in Nat \ {0}
    /\ custody = {}
    /\ phase = "serving"

Ready == {m \in Msg : state[m] = "ready"}

Taken(S) ==
    /\ state' = [m \in Msg |-> IF m \in S THEN "taken" ELSE state[m]]
    /\ attempt' = [m \in Msg |-> IF m \in S THEN attempt[m] + 1 ELSE attempt[m]]
    /\ UNCHANGED <<budget, phase>>

Take(S) == phase = "serving" /\ Taken(S) /\ custody' = custody \cup S

\* Messages are taken, and the worker does not learn of it.
TakeUnheard(S) == phase # "over" /\ Taken(S) /\ UNCHANGED custody

\* What can become of a message and its attempt: the report is lost, the message is done or
\* dead, it waits for another attempt, or the attempt never was.
Outcomes(m) ==
    {<<s, attempt[m]>> : s \in {"taken", "done", "dead"}}
    \cup {<<"ready", a>> : a \in {x \in {attempt[m]} : x < budget}}
    \cup {<<"ready", a>> : a \in {x \in {attempt[m] - 1} : phase = "leaving"}}

\* The worker reports what became of some messages in its custody, one outcome for each.
Report(S) ==
    /\ phase # "over"
    /\ \A m \in Msg : IF m \in S THEN <<state'[m], attempt'[m]>> \in Outcomes(m)
                      ELSE state'[m] = state[m] /\ attempt'[m] = attempt[m]
    /\ custody' = custody \ S
    /\ UNCHANGED <<budget, phase>>

Leave ==
    /\ phase = "serving"
    /\ phase' = "leaving"
    /\ UNCHANGED <<state, attempt, budget, custody>>

Finish ==
    /\ phase = "leaving" /\ custody = {}
    /\ phase' = "over"
    /\ UNCHANGED <<state, attempt, budget, custody>>

Next ==
    \/ \E S \in SUBSET Ready : Take(S) \/ TakeUnheard(S)
    \/ \E S \in SUBSET custody : Report(S)
    \/ Leave \/ Finish

Spec == Init /\ [][Next]_vars
=============================================================================
