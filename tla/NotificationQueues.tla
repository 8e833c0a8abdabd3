------------------------- MODULE NotificationQueues -------------------------
(***************************************************************************)
(* Mails: QueueTenant and QueueAuthentication add jobs, TenantWorkers and  *)
(* AuthenticationWorkers send one mail per job through the transporter of  *)
(* nodemailer.setup.ts, which all of them share.                           *)
(*                                                                         *)
(* The transporter is made by the first job that needs it, and every job   *)
(* that finds none in the meantime makes its own: each await of            *)
(* getOrCreateTransporter is a step. Once an attempt fails, the property   *)
(* transporter holds a JSON transport that takes mails and sends none.     *)
(*                                                                         *)
(* A job stands for one call of a queue's method; what its mail says is    *)
(* left out. All workers live in one process. Env: "queueError" (an add    *)
(* fails), "smtpDown" (the mail server is not reached while the            *)
(* transporter is made), "mailError" (sendMail rejects), "mailAckLost"     *)
(* (the mail is sent, its caller sees an error), "crash".                  *)
(***************************************************************************)
EXTENDS Naturals, FiniteSets

CONSTANTS
    MailJobs,
    QueueOf,          \* the queue each job is for
    Addressed,        \* the jobs whose data has an e-mail address
    MaxStalledCount,  \* BullMQ's maxStalledCount, 1 unless configured
    MailEnv

Queues == {"tenant", "authentication"}

ASSUME QueueOfAssumption == QueueOf \in [MailJobs -> Queues]
ASSUME AddressedAssumption == Addressed \subseteq MailJobs
ASSUME MailStalledAssumption == MaxStalledCount \in Nat
ASSUME MailEnvAssumption ==
    MailEnv \subseteq {"queueError", "smtpDown", "mailError", "mailAckLost", "crash"}

VARIABLES
    mailJob,      \* BullMQ's record of each job
    at,           \* where the handler of each active job is
    transporter,  \* EtherealMailSetup.transporter
    mails,        \* how many mails each job sent
    dropped       \* jobs whose mail the JSON transport took

mailVars == <<mailJob, at, transporter, mails, dropped>>

JobState == {"absent", "refused", "waiting", "active", "delayed", "completed", "failed"}
MailJob == [state : JobState, attemptsMade : Nat, stalledCounter : Nat]

\* "dead" is a handler whose process is gone.
Handling == {"account", "verify", "smtp", "json", "done", "threw"}
Location == Handling \cup {"none", "dead"}

MailInit ==
    /\ mailJob = [j \in MailJobs |->
                    [state |-> "absent", attemptsMade |-> 0, stalledCounter |-> 0]]
    /\ at = [j \in MailJobs |-> "none"]
    /\ transporter = "null"
    /\ mails = [j \in MailJobs |-> 0]
    /\ dropped = {}

MailFault(kind) == kind \in MailEnv
GotoStep(j, location) == at' = [at EXCEPT ![j] = location]
SetState(j, state) == mailJob' = [mailJob EXCEPT ![j].state = state]

-----------------------------------------------------------------------------
(* The queues.                                                             *)

\* Options of the queues: attempts 3 for tenant jobs, one otherwise.
Attempts(j) == IF QueueOf[j] = "tenant" THEN 3 ELSE 1

\* The workers' option concurrency, 1 unless given.
Concurrency(q) == IF q = "tenant" THEN 5 ELSE 1

\* queue.add. When it fails, QueueTenant.enqueue logs the error and its caller
\* goes on as if the job were there.
Enqueue(j) ==
    /\ mailJob[j].state = "absent"
    /\ \/ SetState(j, "waiting")
       \/ MailFault("queueError") /\ SetState(j, "refused")
    /\ UNCHANGED <<at, transporter, mails, dropped>>

ActiveIn(q) == {j \in MailJobs : QueueOf[j] = q /\ at[j] \in Handling}

\* What getOrCreateTransporter returns at once.
UseTransporter(j, t) == GotoStep(j, IF t = "null" THEN "account" ELSE t)

\* A handler of TenantWorkers logs a missing address and returns; the others
\* go on to transporter.sendMail.
TakeMailJob(j) ==
    /\ mailJob[j].state = "waiting"
    /\ Cardinality(ActiveIn(QueueOf[j])) < Concurrency(QueueOf[j])
    /\ SetState(j, "active")
    /\ IF QueueOf[j] = "tenant" /\ j \notin Addressed
       THEN GotoStep(j, "done")
       ELSE UseTransporter(j, transporter)
    /\ UNCHANGED <<transporter, mails, dropped>>

-----------------------------------------------------------------------------
(* getOrCreateTransporter and sendMail.                                    *)

\* The catch block, which replaces whatever transporter there is by now.
FallBack(j) ==
    /\ MailFault("smtpDown")
    /\ transporter' = "json"
    /\ GotoStep(j, "json")

\* await createTestAccount(), and createTransport
CreateAccount(j) ==
    /\ at[j] = "account"
    /\ \/ transporter' = "smtp" /\ GotoStep(j, "verify")
       \/ FallBack(j)
    /\ UNCHANGED <<mailJob, mails, dropped>>

\* await verify(), and the return of the transporter of that moment
Verify(j) ==
    /\ at[j] = "verify"
    /\ \/ UseTransporter(j, transporter) /\ UNCHANGED transporter
       \/ FallBack(j)
    /\ UNCHANGED <<mailJob, mails, dropped>>

\* Seeded fault of SendMail: the error is logged and not thrown again.
SendMailSwallows(j) ==
    /\ at[j] \in {"smtp", "json"}
    /\ \/ at[j] = "smtp" /\ mails' = [mails EXCEPT ![j] = @ + 1]
       \/ (at[j] = "json" \/ MailFault("mailError")) /\ UNCHANGED mails
    /\ dropped' = IF at[j] = "json" THEN dropped \cup {j} ELSE dropped
    /\ GotoStep(j, "done")
    /\ UNCHANGED <<mailJob, transporter>>

\* await sendMail
SendMail(j) ==
    /\ \/ /\ at[j] = "smtp"
          /\ \/ mails' = [mails EXCEPT ![j] = @ + 1] /\ GotoStep(j, "done")
             \/ MailFault("mailError") /\ GotoStep(j, "threw") /\ UNCHANGED mails
             \/ /\ MailFault("mailAckLost")
                /\ mails' = [mails EXCEPT ![j] = @ + 1]
                /\ GotoStep(j, "threw")
          /\ UNCHANGED dropped
       \/ /\ at[j] = "json"
          /\ dropped' = dropped \cup {j}
          /\ GotoStep(j, "done")
          /\ UNCHANGED mails
    /\ UNCHANGED <<mailJob, transporter>>

-----------------------------------------------------------------------------
(* BullMQ.                                                                 *)

\* The handler returned.
Finish(j) ==
    /\ at[j] = "done"
    /\ mailJob' = [mailJob EXCEPT ![j].state = "completed", ![j].attemptsMade = @ + 1]
    /\ GotoStep(j, "none")
    /\ UNCHANGED <<transporter, mails, dropped>>

\* Seeded fault of Fail: a failed job backs off however often it failed.
FailAlwaysRetries(j) ==
    /\ at[j] = "threw"
    /\ mailJob' = [mailJob EXCEPT ![j].state = "delayed"]
    /\ GotoStep(j, "none")
    /\ UNCHANGED <<transporter, mails, dropped>>

\* Seeded fault of Fail: one attempt more than the queue gives.
FailOnceMore(j) ==
    /\ at[j] = "threw"
    /\ mailJob' = [mailJob EXCEPT
                     ![j].state = IF mailJob[j].attemptsMade < Attempts(j)
                                  THEN "delayed" ELSE "failed",
                     ![j].attemptsMade = @ + 1]
    /\ GotoStep(j, "none")
    /\ UNCHANGED <<transporter, mails, dropped>>

\* The handler threw: back off while attempts remain, else fail for good.
Fail(j) ==
    /\ at[j] = "threw"
    /\ mailJob' = [mailJob EXCEPT
                     ![j].state = IF mailJob[j].attemptsMade + 1 < Attempts(j)
                                  THEN "delayed" ELSE "failed",
                     ![j].attemptsMade = @ + 1]
    /\ GotoStep(j, "none")
    /\ UNCHANGED <<transporter, mails, dropped>>

BackoffOver(j) ==
    /\ mailJob[j].state = "delayed"
    /\ SetState(j, "waiting")
    /\ UNCHANGED <<at, transporter, mails, dropped>>

\* The process dies and restarts: the jobs stay active without a handler.
Crash ==
    /\ MailFault("crash")
    /\ \E j \in MailJobs : at[j] \in Handling
    /\ at' = [j \in MailJobs |-> IF at[j] \in Handling THEN "dead" ELSE at[j]]
    /\ transporter' = "null"
    /\ UNCHANGED <<mailJob, mails, dropped>>

\* The stalled-job checker.
Stall(j) ==
    /\ at[j] = "dead"
    /\ mailJob' = [mailJob EXCEPT
                     ![j].state = IF mailJob[j].stalledCounter + 1 > MaxStalledCount
                                  THEN "failed" ELSE "waiting",
                     ![j].stalledCounter = @ + 1]
    /\ GotoStep(j, "none")
    /\ UNCHANGED <<transporter, mails, dropped>>

-----------------------------------------------------------------------------
HandleMail(j) == CreateAccount(j) \/ Verify(j) \/ SendMail(j) \/ Finish(j) \/ Fail(j)

MailNext ==
    \/ \E j \in MailJobs : Enqueue(j) \/ TakeMailJob(j) \/ HandleMail(j)
                           \/ BackoffOver(j) \/ Stall(j)
    \/ Crash

MailSpec == MailInit /\ [][MailNext]_mailVars

\* The workers poll, awaits settle, BullMQ ends backoffs and finds stalled
\* jobs. Nobody has to enqueue, nothing has to fail.
MailFairness ==
    \A j \in MailJobs :
        /\ WF_mailVars(TakeMailJob(j))
        /\ WF_mailVars(HandleMail(j))
        /\ WF_mailVars(BackoffOver(j))
        /\ WF_mailVars(Stall(j))

FairMailSpec == MailSpec /\ MailFairness

-----------------------------------------------------------------------------
MailTypeOK ==
    /\ mailJob \in [MailJobs -> MailJob]
    /\ at \in [MailJobs -> Location]
    /\ transporter \in {"null", "smtp", "json"}
    /\ mails \in [MailJobs -> Nat]
    /\ dropped \subseteq MailJobs
    /\ \A j \in MailJobs : (at[j] # "none") <=> (mailJob[j].state = "active")

\* However errors, lost acknowledgements and crashes fall, nobody gets the
\* same mail more often than the queue has attempts and stalls to give.
MailBudget ==
    \A j \in MailJobs : mails[j] <= Attempts(j) + MaxStalledCount

\* A job with an address that BullMQ counts as completed has left a mail, with
\* the mail server or with the JSON transport: no error on the way is lost.
CompletedMeansMailed ==
    \A j \in MailJobs :
        (mailJob[j].state = "completed" /\ (QueueOf[j] = "tenant" => j \in Addressed))
            => (mails[j] > 0 \/ j \in dropped)

\* Every job that reached Redis ends, whatever the mail server does and
\* however often the process dies.
MailJobsEnd ==
    \A j \in MailJobs :
        mailJob[j].state = "waiting" ~> mailJob[j].state \in {"completed", "failed"}
=============================================================================
