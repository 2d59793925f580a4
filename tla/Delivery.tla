------------------------------ MODULE Delivery -------------------------------
(* What becomes of one event of the outbox on one of its channels: the      *)
(* request to a customer's webhook, or the e-mail. A row keeps its status   *)
(* and the attempts; Celery tasks read it, call outside, and save what they *)
(* had read, changed. Beside them the operator has the webhook called once  *)
(* more, or lists the e-mails. A task whose process dies before the         *)
(* acknowledgement comes again (task_acks_late).                            *)
EXTENDS Naturals

CONSTANTS MaxTries,     \* MAX_ATTEMPTS, and the retries of a task
          MaxCalls,     \* times the event is queued
          MaxTrouble    \* deaths, errors and answers that do not arrive

ASSUME SendAssumption ==
    MaxTries \in Nat \ {0} /\ MaxCalls \in Nat \ {0} /\ MaxTrouble \in Nat

VARIABLES
    channel,    \* which of the two
    outgoing,   \* its row, in webhook_deliveries or email_deliveries
    hand,       \* who may write it: the step and the copy
    call,       \* how far queue_event_deliveries is
    calls, trouble,
    sent,       \* copies that went out
    \* history: nobody is left to try again; two held the row at a time; one
    \* who held it died, ended in an error or got no answer
    abandoned, mingled, doubtful

sendVars == <<channel, outgoing, hand, call, calls, trouble, sent, abandoned,
              mingled, doubtful>>
marks == <<abandoned, mingled, doubtful>>

Tasks == {"first task", "second task"}
Hand == Tasks \cup {"replay", "inline", "listing"}
Row == [status : {"none", "pending", "retrying", "delivered", "failed"},
        tries : 0..(MaxTries + MaxCalls + MaxTrouble)]
New == [status |-> "pending", tries |-> 0]
At(step) == [step |-> step, copy |-> New, retries |-> 0]

SendTypeOK ==
    /\ channel \in {"webhook", "mail"} /\ outgoing \in Row
    /\ hand \in [Hand -> [step : {"away", "queued", "holds", "answered", "saved", "over"},
                          copy : Row, retries : 0..MaxTries]]
    /\ call \in {"row", "task", "over"}
    /\ calls \in 1..MaxCalls /\ trouble \in 0..MaxTrouble /\ sent \in Nat
    /\ {abandoned, mingled, doubtful} \subseteq BOOLEAN

\* The webhook's row comes with the event, in one transaction.
SendInit ==
    /\ channel \in {"webhook", "mail"}
    /\ outgoing = IF channel = "webhook" THEN New ELSE [New EXCEPT !.status = "none"]
    /\ hand = [h \in Hand |-> At("away")]
    /\ call = "row" /\ calls = 1 /\ trouble = 0 /\ sent = 0
    /\ abandoned = FALSE /\ mingled = FALSE /\ doubtful = FALSE

Trouble == trouble < MaxTrouble /\ trouble' = trouble + 1
Steps(h, step) == hand' = [hand EXCEPT ![h].step = step]
Ends(h) == hand' = [hand EXCEPT ![h] = At("over")]
Queues(h, n) == hand' = [hand EXCEPT ![h] = [At("queued") EXCEPT !.retries = n]]

\* No other task is left that would try again.
NoTaskBut(h) == \A g \in Tasks \ {h} : hand[g].step \in {"away", "over"}

\* The rows of two who hold it at a time are older than one of their writes.
Reads(h) ==
    /\ hand' = [hand EXCEPT ![h].step = "holds", ![h].copy = outgoing]
    /\ mingled' = (mingled \/ \E g \in Hand \ {h} :
                                  hand[g].step \in {"holds", "answered"})

----------------------------------------------------------------------------
(* WebhookService.queue_event_deliveries *)

\* queue_for_event: a row for the mail, unless the event has one already.
RowNoted ==
    /\ call = "row"
    /\ IF outgoing.status = "none"
       THEN outgoing' = New /\ call' = "task"
       ELSE call' = (IF channel = "mail" THEN "over" ELSE "task") /\ UNCHANGED outgoing
    /\ UNCHANGED <<channel, hand, calls, trouble, sent, marks>>

TaskQueued ==
    /\ call = "task"
    /\ call' = "over"
    /\ Steps(IF calls = 1 THEN "first task" ELSE "second task", "queued")
    /\ abandoned' = FALSE
    /\ UNCHANGED <<channel, outgoing, calls, trouble, sent, mingled, doubtful>>

\* Celery is not there: the process sends the mail itself, once.
MailSentInline ==
    /\ call = "task" /\ channel = "mail"
    /\ Trouble
    /\ call' = "over"
    /\ Reads("inline")
    /\ UNCHANGED <<channel, outgoing, calls, sent, abandoned, doubtful>>

\* The process dies, or Celery is not there for the webhook.
CallFails ==
    /\ call # "over"
    /\ Trouble
    /\ call' = "over"
    /\ abandoned' = (abandoned \/ NoTaskBut("replay"))
    /\ UNCHANGED <<channel, outgoing, hand, calls, sent, mingled, doubtful>>

\* The same event comes again.
CalledAgain ==
    /\ call = "over" /\ calls < MaxCalls
    /\ call' = "row" /\ calls' = calls + 1
    /\ UNCHANGED <<channel, outgoing, hand, trouble, sent, marks>>

----------------------------------------------------------------------------
(* WebhookService.deliver_event, EmailService.deliver_now and their tasks *)

\* Mutant: a webhook's task does not look whether it is delivered.
NeverDone == FALSE

\* Only a webhook looks whether it is delivered already.
DoneAlready == channel = "webhook" /\ outgoing.status = "delivered"

Taken(h) ==
    /\ h \in Tasks /\ hand[h].step = "queued"
    /\ IF DoneAlready THEN Ends(h) /\ UNCHANGED mingled ELSE Reads(h)
    /\ UNCHANGED <<channel, outgoing, call, calls, trouble, sent, abandoned, doubtful>>

\* replay_delivery, of any delivery the operator sees.
Replayed ==
    /\ channel = "webhook" /\ hand["replay"].step = "away"
    /\ ~DoneAlready
    /\ Reads("replay")
    /\ UNCHANGED <<channel, outgoing, call, calls, trouble, sent, abandoned, doubtful>>

\* _schedule_retry, and the same in deliver_now
AfterFailure(tries) == IF tries >= MaxTries THEN "failed" ELSE "retrying"

Answered(h, ok) ==
    LET tries == hand[h].copy.tries + 1
    IN  hand' = [hand EXCEPT
                  ![h].step = "answered",
                  ![h].copy = [status |-> IF ok THEN "delivered" ELSE AfterFailure(tries),
                               tries |-> tries]]

Reaches(h) ==
    /\ hand[h].step = "holds" /\ h # "listing"
    /\ Answered(h, TRUE)
    /\ sent' = sent + 1
    /\ UNCHANGED <<channel, outgoing, call, calls, trouble, marks>>

Refused(h) ==
    /\ hand[h].step = "holds" /\ h # "listing"
    /\ Answered(h, FALSE)
    /\ UNCHANGED <<channel, outgoing, call, calls, trouble, sent, marks>>

\* It arrived, and the answer does not.
AnswerLost(h) ==
    /\ hand[h].step = "holds" /\ h # "listing"
    /\ Trouble
    /\ Answered(h, FALSE)
    /\ sent' = sent + 1 /\ doubtful' = TRUE
    /\ UNCHANGED <<channel, outgoing, call, calls, abandoned, mingled>>

\* save_delivery writes the whole outgoing.
Saved(h) ==
    /\ hand[h].step = "answered"
    /\ outgoing' = hand[h].copy
    /\ Steps(h, "saved")
    /\ UNCHANGED <<channel, call, calls, trouble, sent, marks>>

\* Mutant: the last attempt that the row allows is not made.
TriesOneLess(h) ==
    h \in Tasks /\ hand[h].copy.status = "retrying" /\ hand[h].retries + 2 < MaxTries

\* A task that is to be tried again is queued before it is acknowledged.
TriesAgain(h) ==
    h \in Tasks /\ hand[h].copy.status = "retrying" /\ hand[h].retries < MaxTries

Finished(h) ==
    /\ hand[h].step = "saved"
    /\ IF TriesAgain(h)
       THEN /\ Queues(h, hand[h].retries + 1)
            /\ UNCHANGED abandoned
       ELSE /\ Ends(h)
            /\ abandoned' = (abandoned \/ (/\ h \notin Tasks /\ NoTaskBut(h)
                                           /\ hand[h].copy.status = "retrying"))
    /\ UNCHANGED <<channel, outgoing, call, calls, trouble, sent, mingled, doubtful>>

\* The process dies: a task comes again, nobody else does.
Dies(h) ==
    /\ hand[h].step \in {"holds", "answered", "saved"}
    /\ Trouble
    /\ IF h \in Tasks THEN Queues(h, hand[h].retries) ELSE Ends(h)
    /\ doubtful' = TRUE
    /\ abandoned' = (abandoned \/ (h \notin Tasks /\ NoTaskBut(h)))
    /\ UNCHANGED <<channel, outgoing, call, calls, sent, mingled>>

\* An error that is caught nowhere (no address for the name, an endpoint that
\* is inactive, a row that cannot be read or saved): the task is over.
Raises(h) ==
    /\ h \in Tasks /\ hand[h].step \in {"queued", "holds", "answered"}
    /\ Trouble
    /\ Ends(h)
    /\ doubtful' = TRUE
    /\ abandoned' = (abandoned \/ NoTaskBut(h))
    /\ UNCHANGED <<channel, outgoing, call, calls, sent, mingled>>

----------------------------------------------------------------------------
(* EmailService.list_deliveries *)

\* A mail that is pending for five minutes without an attempt counts as lost,
Listed ==
    /\ channel = "mail" /\ hand["listing"].step = "away"
    /\ outgoing = New
    /\ Reads("listing")
    /\ UNCHANGED <<channel, outgoing, call, calls, trouble, sent, abandoned, doubtful>>

\* and is saved as failed.
MarkedFailed ==
    /\ hand["listing"].step = "holds"
    /\ outgoing' = [hand["listing"].copy EXCEPT !.status = "failed"]
    /\ Ends("listing")
    /\ UNCHANGED <<channel, call, calls, trouble, sent, marks>>

Queueing == RowNoted \/ TaskQueued
Attempt(h) == Taken(h) \/ Reaches(h) \/ Refused(h) \/ Saved(h) \/ Finished(h)

SendNext ==
    \/ Queueing \/ MailSentInline \/ CallFails \/ CalledAgain
    \/ Replayed \/ Listed \/ MarkedFailed
    \/ \E h \in Hand : Attempt(h) \/ AnswerLost(h) \/ Dies(h) \/ Raises(h)

SendSpec == SendInit /\ [][SendNext]_sendVars

----------------------------------------------------------------------------
(* Properties *)

\* An attempt that is owed is made: in the end the delivery is done or given
\* up, whoever dies. Unless nobody is left to try (the event was not queued,
\* an error ended the task, the operator's attempt or the one without Celery
\* failed), or the copies of two who held the row crossed.
DeliverySettles ==
    call = "over" ~> outgoing.status \in {"delivered", "failed"} \/ abandoned \/ mingled

\* What is delivered stays so, and no other copy goes out, when the event is
\* queued again, the operator repeats it or a process dies: unless two mingled
\* or, for a mail, a task that had sent it came again.
DeliveredIsFinal ==
    [][outgoing.status = "delivered" /\ ~mingled /\ ~(channel = "mail" /\ doubtful) =>
          outgoing'.status = "delivered" /\ sent' = sent]_sendVars
=============================================================================
