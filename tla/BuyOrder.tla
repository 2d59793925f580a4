------------------------------ MODULE BuyOrder ------------------------------
(* How one entry of the robot becomes an order at the broker: the gateway's  *)
(* loop over the candidates of a cycle, the POST that may be given up while  *)
(* the broker service still works on it, the service's retry, and the client *)
(* library, which waits five seconds for two messages of which only one      *)
(* names the request it answers.                                             *)
EXTENDS Naturals, Sequences, FiniteSets

CONSTANTS Cand,        \* candidates of a cycle, tried in order: 1..n
          Otc,         \* those the digital channel is never asked for
          MaxCycle,    \* cycles with a signal
          MaxSilence   \* answers that do not arrive in time

\* MAX_ORDER_ATTEMPTS_PER_CYCLE
MaxAttempts == 3

Refusals == {"over", "balance", "unavailable", "funds"}

\* What a purchase is answered with: an order's id, or a reason and id 0.
Accepted(id) == [id |-> id, why |-> "accepted"]
Refusal(why) == [id |-> 0, why |-> why]
Nothing == Refusal("nothing")

ASSUME BuyAssumption ==
    /\ Otc \subseteq Cand /\ Cand \subseteq Nat \ {0} /\ MaxCycle \in Nat
    /\ MaxSilence \in Nat

VARIABLES cycle,      \* the cycle whose signal is being bought
          step,       \* what execute_robot_cycle waits for
          cand,       \* its candidate, 0 before the first
          attempts,   \* order_attempts
          followed,   \* order id the robot records for the cycle, 0 for none
          calls,      \* POSTs in the service: the head holds the user's lock
          phase,      \* of the head
          flight,     \* the broker's message for the head's request
          results,    \* uncorrelated "result" messages on the way
          slot,       \* buy_multi_option[req_id] / digital_option_placed_id
          answered,   \* api.result is not 0
          opened,     \* orders at the broker
          silences

buyVars == <<cycle, step, cand, attempts, followed, calls, phase, flight,
             results, slot, answered, opened, silences>>

Message == {Nothing} \cup {Refusal(r) : r \in Refusals}
           \cup [id: Nat, why: {"accepted"}]
Call == [op: {"turbo", "digital"}, cycle: 1..MaxCycle, cand: Cand,
         heard: BOOLEAN, again: BOOLEAN]
BrokerOrder == [id: Nat, cycle: 1..MaxCycle, cand: Cand,
                op: {"turbo", "digital"}]

BuyTypeOK ==
    /\ cycle \in 0..MaxCycle
    /\ step \in {"idle", "turbo", "again", "digital"}
    /\ cand \in Cand \cup {0}
    /\ attempts \in 0..MaxAttempts
    /\ followed \in Nat
    /\ calls \in Seq(Call)
    /\ phase \in {"start", "sent", "waiting"}
    /\ flight \in Message /\ slot \in Message
    /\ results \in Nat /\ answered \in BOOLEAN
    /\ opened \subseteq BrokerOrder
    /\ silences \in 0..MaxSilence

BuyInit ==
    /\ cycle = 0 /\ step = "idle" /\ cand = 0 /\ attempts = 0
    /\ followed = 0 /\ calls = <<>> /\ phase = "start"
    /\ flight = Nothing /\ results = 0 /\ slot = Nothing /\ answered = FALSE
    /\ opened = {} /\ silences = 0

Library == <<flight, results, slot, answered>>

----------------------------------------------------------------------------
(* The gateway *)

Post(op, c) == [op |-> op, cycle |-> cycle, cand |-> c, heard |-> TRUE,
                again |-> FALSE]

\* The signal's window opens: the first candidate is sent.
BeginEntry ==
    /\ step = "idle" /\ cycle < MaxCycle
    /\ cycle' = cycle + 1
    /\ \E c \in Cand :
        /\ \A d \in Cand : c <= d
        /\ cand' = c
        /\ calls' = Append(calls, [Post("turbo", c) EXCEPT !.cycle = cycle + 1])
    /\ step' = "turbo" /\ attempts' = 1 /\ followed' = 0
    /\ UNCHANGED <<phase, opened, silences>> /\ UNCHANGED Library

\* start_sending_order follows: record_trade and the monitor.
Follow(id, queue) ==
    /\ followed' = id /\ step' = "idle" /\ calls' = queue
    /\ UNCHANGED <<cand, attempts>>

\* reject_order, or the robot stops for lack of money.
GiveUp(queue) ==
    /\ step' = "idle" /\ calls' = queue
    /\ UNCHANGED <<cand, attempts, followed>>

Later == {d \in Cand : d > cand}

\* Mutant: the limit of attempts is checked after the next one is counted.
NextCandidateUnlimited(queue) ==
    IF attempts > MaxAttempts \/ Later = {} THEN GiveUp(queue)
    ELSE \E c \in Later :
            /\ \A d \in Later : c <= d
            /\ cand' = c /\ attempts' = attempts + 1
            /\ step' = "turbo"
            /\ calls' = Append(queue, Post("turbo", c))
            /\ UNCHANGED followed

\* An unavailable asset passes the turn to the next candidate.
NextCandidate(queue) ==
    IF attempts = MaxAttempts \/ Later = {} THEN GiveUp(queue)
    ELSE \E c \in Later :
            /\ \A d \in Later : c <= d
            /\ cand' = c /\ attempts' = attempts + 1
            /\ step' = "turbo"
            /\ calls' = Append(queue, Post("turbo", c))
            /\ UNCHANGED followed

Resend(s, op, queue) ==
    /\ step' = s /\ calls' = Append(queue, Post(op, cand))
    /\ UNCHANGED <<cand, attempts, followed>>

\* Mutant: a purchase nobody answered is taken for an unavailable asset.
ReactTryAgain(answer, queue) ==
    CASE answer.why = "accepted" -> Follow(answer.id, queue)
      [] answer.why = "over" /\ step = "turbo" ->
            Resend("again", "turbo", queue)
      [] OTHER -> NextCandidate(queue)

\* submit_order_with_digital_fallback and the loop around it. A purchase that
\* came too late was not created, so it is sent once more; only an unavailable
\* asset goes to the digital channel, whose own refusal, of any kind, leaves
\* the first answer standing.
React(answer, queue) ==
    CASE answer.why = "accepted" -> Follow(answer.id, queue)
      [] answer.why = "over" /\ step = "turbo" ->
            Resend("again", "turbo", queue)
      [] answer.why = "unavailable" /\ step # "digital" /\ cand \notin Otc ->
            Resend("digital", "digital", queue)
      [] \/ answer.why = "unavailable" /\ step # "digital" /\ cand \in Otc
         \/ answer.why # "accepted" /\ step = "digital" ->
            NextCandidate(queue)
      [] OTHER -> GiveUp(queue)

Awaited == {i \in DOMAIN calls : calls[i].heard}

\* The POST outlives its HTTP timeout: 45 s for a purchase, the 5 s of any
\* other call for the digital channel. The service is not told.
HttpTimesOut ==
    /\ silences < MaxSilence /\ silences' = silences + 1
    /\ \E i \in Awaited :
        React(Nothing, [calls EXCEPT ![i].heard = FALSE])
    /\ UNCHANGED <<cycle, phase, opened>> /\ UNCHANGED Library

----------------------------------------------------------------------------
(* The broker service, one call of the user at a time *)

Busy == calls # <<>>
Request == Head(calls)

\* Mutant: an answer is taken by whichever call is awaited.
AnswerAnyone(answer) ==
    /\ React(answer, Tail(calls))
    /\ phase' = "start" /\ flight' = Nothing /\ slot' = Nothing
    /\ answered' = FALSE
    /\ UNCHANGED <<cycle, opened, results>>

\* The answer reaches whoever still listens.
Answer(answer) ==
    /\ IF Request.heard THEN React(answer, Tail(calls))
       ELSE calls' = Tail(calls)
            /\ UNCHANGED <<step, cand, attempts, followed>>
    /\ phase' = "start" /\ flight' = Nothing /\ slot' = Nothing
    /\ answered' = FALSE
    /\ UNCHANGED <<cycle, opened, results>>

\* The cached catalogue says the channel is closed: nothing is sent.
ChannelClosed ==
    /\ Busy /\ phase = "start" /\ Request.op = "turbo"
    /\ Answer(Refusal("unavailable"))
    /\ UNCHANGED silences

\* The request leaves; the broker opens the order or refuses it.
BrokerDecides ==
    /\ Busy /\ phase = "start"
    /\ \/ LET id == Cardinality(opened) + 1 IN
          /\ opened' = opened \cup
                {[id |-> id, cycle |-> Request.cycle, cand |-> Request.cand,
                  op |-> Request.op]}
          /\ flight' = Accepted(id)
       \/ flight' \in {Refusal(r) : r \in Refusals} /\ UNCHANGED opened
    /\ phase' = "sent"
    /\ results' = IF Request.op = "turbo" THEN results + 1 ELSE results
    /\ UNCHANGED <<cycle, step, cand, attempts, followed, calls, slot,
                   answered, silences>>

\* Messages arrive on the socket's thread at any moment.
MessageArrives ==
    /\ flight # Nothing
    /\ slot' = flight /\ flight' = Nothing
    /\ UNCHANGED <<cycle, step, cand, attempts, followed, calls, phase,
                   results, answered, opened, silences>>

ResultArrives ==
    /\ results > 0
    /\ results' = results - 1
    /\ answered' = Busy
    /\ UNCHANGED <<cycle, step, cand, attempts, followed, calls, phase,
                   flight, slot, opened, silences>>

\* buy forgets an answer that came before it began to wait.
LibraryWaits ==
    /\ phase = "sent"
    /\ phase' = "waiting" /\ answered' = FALSE
    /\ UNCHANGED <<cycle, step, cand, attempts, followed, calls, flight,
                   results, slot, opened, silences>>

Refused == phase = "waiting" /\ slot.why \in Refusals

\* Both messages are in; the digital channel needs one.
OrderAccepted ==
    /\ phase = "waiting" /\ slot.why = "accepted"
    /\ Request.op = "turbo" => answered
    /\ Answer(slot)
    /\ UNCHANGED silences

\* The stale balance id is the one refusal the service itself tries again.
RetriesBalance ==
    /\ Refused /\ slot.why = "balance" /\ Request.op = "turbo" /\ ~Request.again
    /\ calls' = [calls EXCEPT ![1].again = TRUE]
    /\ phase' = "start" /\ slot' = Nothing
    /\ UNCHANGED <<cycle, step, cand, attempts, followed, flight, results,
                   answered, opened, silences>>

OrderRefused ==
    /\ Refused
    /\ ~(slot.why = "balance" /\ Request.op = "turbo" /\ ~Request.again)
    /\ Answer(slot)
    /\ UNCHANGED silences

\* Five seconds, twelve on the digital channel, without what it waits for.
LibraryGivesUp ==
    /\ phase = "waiting" /\ slot.why \notin Refusals
    /\ ~(slot.why = "accepted" /\ (Request.op = "turbo" => answered))
    /\ IF slot.why = "accepted" /\ results = 0 THEN UNCHANGED silences
       ELSE silences < MaxSilence /\ silences' = silences + 1
    /\ Answer(Nothing)

ServiceSteps ==
    \/ ChannelClosed \/ BrokerDecides \/ MessageArrives \/ ResultArrives
    \/ LibraryWaits \/ OrderAccepted \/ RetriesBalance \/ OrderRefused
    \/ LibraryGivesUp

BuyNext == BeginEntry \/ HttpTimesOut \/ ServiceSteps

BuySpec == BuyInit /\ [][BuyNext]_buyVars

----------------------------------------------------------------------------
(* Properties *)

OrdersOf(n) == {o \in opened : o.cycle = n}

\* The order the robot records is one the broker opened, in this cycle, for
\* the candidate at hand: messages of an abandoned request never pass for the
\* answer of the next one.
FollowedIsMine ==
    step = "idle" /\ followed # 0 =>
        \E o \in OrdersOf(cycle) : o.id = followed /\ o.cand = cand

\* Whatever is refused, lost or late, the channel of the robot's own orders
\* opens at most one order per cycle: a purchase is sent again only when the
\* broker refused the one before.
OneTurboOrder ==
    \A n \in 1..MaxCycle :
        Cardinality({o \in OrdersOf(n) : o.op = "turbo"}) <= 1

\* The same of both channels.
OneOrderPerCycle == \A n \in 1..MaxCycle : Cardinality(OrdersOf(n)) <= 1

=============================================================================
