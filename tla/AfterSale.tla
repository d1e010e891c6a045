------------------------------ MODULE AfterSale ------------------------------
(***************************************************************************)
(* What completeOrder owes a customer once the order is committed: the     *)
(* tickets as PDF files, a confirmation by e-mail, and dashboards that     *)
(* know of the sale.  The commit, the cache and the dashboards are those   *)
(* of EventStatistics; here are the steps between the commit and the       *)
(* invalidation, the queue of e-mails with its worker, and the ends of the *)
(* process, a check-in at the door being one of them.                      *)
(*                                                                         *)
(* The hash order:<code> is not part of the state: cancelOrder deletes it  *)
(* as well, and both are in OrderLifecycle.  No step after the commit      *)
(* reads it, and a job that comes back is refused whether the hash says    *)
(* COMPLETED or is gone.                                                   *)
(***************************************************************************)
EXTENDS EventStatistics

CONSTANT MaxCrashes \* bound: ends of the process

ASSUME CrashesAssumption == MaxCrashes \in Nat

VARIABLES
  step,     \* step[o]: the step of completeOrder that is next
  mail,     \* mail[o]: the job of its confirmation
  received, \* received[o]: confirmations that reached the customer
  stalls,   \* stalls[o]: times that the job lost its worker
  info,     \* the event has an info row
  crashes

afterVars == <<step, mail, received, stalls, info, crashes>>
allVars == <<vars, afterVars>>

StepState == {"commit", "render", "confirm", "delete", "invalidate", "over"}
MailState == {"none", "queued", "sending", "completed", "failed"}

AfterSaleInit ==
  /\ Init
  /\ step = [o \in Orders |-> "commit"]
  /\ mail = [o \in Orders |-> "none"]
  /\ received = [o \in Orders |-> 0]
  /\ stalls = [o \in Orders |-> 0]
  /\ info = TRUE
  /\ crashes = 0

-----------------------------------------------------------------------------
(* completeOrder, from the commit to its end *)

Continue(o, from, to) ==
  /\ step[o] = from
  /\ step' = [step EXCEPT ![o] = to]
  /\ UNCHANGED <<received, stalls, info, crashes>>

Commit(o) ==
  /\ Continue(o, "commit", "render")
  /\ CommitOrder(o)
  /\ UNCHANGED mail

(* generatePdfTicketsWithQRCode reads the order and draws; it writes nothing. *)
GeneratePdfTickets(o) ==
  /\ Continue(o, "render", "confirm")
  /\ UNCHANGED <<mail, vars>>

\* Variant: the job has the id of the event, and BullMQ drops it when there is
\* one of that id.
QueueOncePerEvent(o) ==
  /\ info
  /\ Continue(o, "confirm", "delete")
  /\ mail' = IF \A p \in Orders : mail[p] = "none"
               THEN [mail EXCEPT ![o] = "queued"] ELSE mail
  /\ UNCHANGED vars

(* sendOrderSuccessEmail reads the order with the info of its event, and
   queues the mail. *)
SendOrderSuccessEmail(o) ==
  /\ info
  /\ Continue(o, "confirm", "delete")
  /\ mail' = [mail EXCEPT ![o] = "queued"]
  /\ UNCHANGED vars

(* The DEL of the hash; it can fail like any other call. *)
DeleteOrder(o) ==
  /\ Continue(o, "delete", "invalidate")
  /\ UNCHANGED <<mail, vars>>

Invalidate(o) ==
  /\ Continue(o, "invalidate", "over")
  /\ InvalidateEventStatisticsCache(o)
  /\ UNCHANGED mail

Owing == {"render", "confirm", "delete", "invalidate"}

(* A call throws and the job is over: its next attempts are refused by the
   status that the first one has written.  An event without an info makes
   sendOrderSuccessEmail throw whenever it comes to it. *)
CompletionFails(o) ==
  /\ \E from \in Owing : Continue(o, from, "over")
  /\ \/ InvalidationFails(o)
     \/ step[o] = "confirm" /\ ~info /\ InvalidationLost(o) /\ UNCHANGED faults
  /\ UNCHANGED mail

-----------------------------------------------------------------------------
(* SendSuccessOrderEmailWorker *)

Job(o, from, to) ==
  /\ mail[o] = from
  /\ mail' = [mail EXCEPT ![o] = to]
  /\ UNCHANGED <<step, info, crashes>>

TakeMail(o) ==
  /\ Job(o, "queued", "sending")
  /\ UNCHANGED <<received, stalls, vars>>

SendMail(o) ==
  /\ Job(o, "sending", "completed")
  /\ received' = [received EXCEPT ![o] = @ + 1]
  /\ UNCHANGED <<stalls, vars>>

\* The server has taken the mail, or has not, when its answer does not come.
Perhaps(o) == received' \in {received, [received EXCEPT ![o] = @ + 1]}

\* Variant: a job has several attempts.
SendAgain(o) ==
  /\ Fault
  /\ Job(o, "sending", "queued")
  /\ Perhaps(o)
  /\ UNCHANGED <<sales, cache, requests, day, overtaken, stalls>>

(* The queue is registered without attempts: the job fails for good. *)
SendFails(o) ==
  /\ Fault
  /\ Job(o, "sending", "failed")
  /\ Perhaps(o)
  /\ UNCHANGED <<sales, cache, requests, day, overtaken, stalls>>

-----------------------------------------------------------------------------
(* The event and the process *)

(* DELETE event-info/:id *)
DeleteInfo ==
  /\ info
  /\ info' = FALSE
  /\ UNCHANGED <<step, mail, received, stalls, crashes, vars>>

\* BullMQ queues a job that lost its worker once more, and fails it the second
\* time.
Recovered(o) ==
  IF mail[o] # "sending" THEN mail[o]
  ELSE IF stalls[o] = 0 THEN "queued" ELSE "failed"

(* The process ends.  Transaction jobs are redelivered, and refused; what they
   still owed is lost.  A mail that was being sent may have been. *)
Crash ==
  /\ crashes < MaxCrashes
  /\ crashes' = crashes + 1
  /\ step' = [o \in Orders |-> IF step[o] \in Owing THEN "over" ELSE step[o]]
  /\ completion' = [o \in Orders |-> IF step[o] \in Owing THEN "done" ELSE completion[o]]
  /\ overtaken' = (overtaken \/ \E o \in Orders : step[o] \in Owing)
  /\ request' = [d \in Dashboards |-> "idle"]
  /\ mail' = [o \in Orders |-> Recovered(o)]
  /\ stalls' = [o \in Orders |-> IF mail[o] = "sending" THEN stalls[o] + 1 ELSE stalls[o]]
  /\ \E S \in SUBSET {o \in Orders : mail[o] = "sending"} :
       received' = [o \in Orders |-> IF o \in S THEN received[o] + 1 ELSE received[o]]
  /\ UNCHANGED <<soldQuantity, today, bought, cache, result, day, faults, info>>

(* GET ticket/:serial-number/check-in, which Express matches only when the
   serial number is followed by `-number': TicketService looks for it among the
   events, which Prisma rejects; TicketController waits for nothing, and main.ts
   ends the process on an unhandled rejection.  No ticket is ever checked in. *)
ValidateCheckIn == Crash

-----------------------------------------------------------------------------
CompletionStep(o) ==
  \/ GeneratePdfTickets(o) \/ SendOrderSuccessEmail(o)
  \/ DeleteOrder(o) \/ Invalidate(o)

MailStep(o) == TakeMail(o) \/ SendMail(o)

Meanwhile ==
  /\ \/ \E d \in Dashboards : CacheHit(d) \/ CacheMiss(d) \/ GetFails(d)
                              \/ ComputeStep(d) \/ SetFails(d)
     \/ Expire \/ Midnight
  /\ UNCHANGED afterVars

AfterSaleNext ==
  \/ \E o \in Orders :
       \/ Commit(o) \/ CompletionStep(o) \/ CompletionFails(o)
       \/ MailStep(o) \/ SendFails(o)
  \/ DeleteInfo
  \/ ValidateCheckIn
  \/ Meanwhile

\* Settled calls continue, workers take waiting jobs, entries expire.
AfterSaleFairness ==
  /\ \A o \in Orders : WF_allVars(CompletionStep(o)) /\ WF_allVars(MailStep(o))
  /\ \A d \in Dashboards : WF_allVars(ComputeStep(d) /\ UNCHANGED afterVars)
  /\ WF_allVars(Expire /\ UNCHANGED afterVars)

AfterSaleSpec == AfterSaleInit /\ [][AfterSaleNext]_allVars /\ AfterSaleFairness

-----------------------------------------------------------------------------
(* Properties *)

\* Every variable stays in its domain, and the two views of a completion agree.
AfterSaleTypeOK ==
  /\ TypeOK
  /\ step \in [Orders -> StepState]
  /\ mail \in [Orders -> MailState]
  /\ received \in [Orders -> Nat]
  /\ stalls \in [Orders -> 0 .. MaxCrashes]
  /\ info \in BOOLEAN
  /\ crashes \in 0 .. MaxCrashes
  /\ \A o \in Orders : /\ step[o] = "commit" <=> completion[o] = "idle"
                       /\ step[o] \in Owing <=> completion[o] = "notify"

\* Nobody is sent a confirmation of an order that is not committed, and nobody
\* a second one unless the process ended while it was being sent.
MailedOnce ==
  \A o \in Orders :
    /\ received[o] <= 1 + stalls[o]
    /\ received[o] > 0 => step[o] # "commit"

\* While no call fails, the process does not end and the event keeps its info,
\* everyone who bought gets the confirmation in the end; and, whatever fails, no
\* job of the e-mail queue stays in it.
ConfirmationsArrive ==
  <>[]\A o \in Orders :
    /\ mail[o] \notin {"queued", "sending"}
    /\ step[o] # "commit" => received[o] = 1 \/ faults + crashes > 0 \/ ~info
=============================================================================
