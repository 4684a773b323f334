----------------------------- MODULE MCWebhooks -----------------------------
(***************************************************************************)
(* The webhook outbox for TLC: endpoints that stay as they are, two events *)
(* and a tick that stops; or operators at work around one event.           *)
(***************************************************************************)
EXTENDS WebhookOutbox, TLC

CONSTANTS g1, g2

VARIABLE operated         \* whether operators are at work

TwoEvents == <<g1, g2>>
Waits == [n \in 1..MaxAttempts |-> 1]

Interchangeable == Permutations(Ticks)

Url == CHOOSE u \in Urls \ Unsafe : TRUE

Starts == \E t \in Ticks : Start(t)
Steps == \E t \in Ticks : Step(t)

Steady == Starts \/ Steps \/ (\E t \in Ticks : Crash(t)) \/ Log \/ Time
Operated == Starts \/ Steps \/ (logged = 0 /\ Log) \/ Time \/ Operate

OutboxInit ==
  /\ Init /\ operated \in BOOLEAN
  /\ ~operated => \A e \in Endpoints : endpoints[e].to.url = Url
OutboxNext ==
  /\ UNCHANGED operated
  /\ \/ ~operated /\ Steady
     \/ operated /\ Operated
OutboxSpec == OutboxInit /\ [][OutboxNext]_<<vars, operated>>

\* No event is lost behind the cursor while endpoints stay as they are,
\* wherever ticks overlap or stop (enqueueSource). One that is created or
\* enabled while a tick runs may miss events, for enqueueWebhooks reads the
\* active endpoints once.
NoSteadyEventSkipped == ~operated => NoEventSkipped
=============================================================================
