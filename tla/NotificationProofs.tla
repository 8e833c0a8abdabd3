------------------------- MODULE NotificationProofs -------------------------
(***************************************************************************)
(* What NotificationQueues promises about mails, for any set of jobs, any  *)
(* number of allowed stalls and any faults.                                *)
(***************************************************************************)
EXTENDS NotificationQueues, TLAPS

USE QueueOfAssumption, AddressedAssumption, MailStalledAssumption

\* The actions that move one job, without what surrounds them in MailNext.
JobStep(j) == Enqueue(j) \/ TakeMailJob(j) \/ HandleMail(j) \/ BackoffOver(j) \/ Stall(j)

-----------------------------------------------------------------------------
(* Types.                                                                  *)

LEMMA AttemptsPositive == \A j \in MailJobs : Attempts(j) \in Nat /\ Attempts(j) >= 1
  BY DEF Attempts

LEMMA InitTyped == MailInit => MailTypeOK
  BY DEF MailInit, MailTypeOK, MailJob, JobState, Location

LEMMA JobStepTyped ==
  ASSUME MailTypeOK, NEW j \in MailJobs, JobStep(j)
  PROVE  MailTypeOK'
<1> USE DEF MailTypeOK, MailJob, JobState, Location, Handling
<1>1. CASE Enqueue(j)
  BY <1>1 DEF Enqueue, SetState
<1>2. CASE TakeMailJob(j)
  BY <1>2 DEF TakeMailJob, SetState, UseTransporter, GotoStep
<1>3. CASE CreateAccount(j)
  BY <1>3 DEF CreateAccount, FallBack, GotoStep
<1>4. CASE Verify(j)
  BY <1>4 DEF Verify, UseTransporter, FallBack, GotoStep
<1>5. CASE SendMail(j)
  BY <1>5 DEF SendMail, GotoStep
<1>6. CASE Finish(j)
  BY <1>6 DEF Finish, GotoStep
<1>7. CASE Fail(j)
  BY <1>7 DEF Fail, GotoStep
<1>8. CASE BackoffOver(j)
  BY <1>8 DEF BackoffOver, SetState
<1>9. CASE Stall(j)
  BY <1>9 DEF Stall, GotoStep
<1> QED
  BY <1>1, <1>2, <1>3, <1>4, <1>5, <1>6, <1>7, <1>8, <1>9 DEF JobStep, HandleMail

LEMMA CrashTyped == MailTypeOK /\ Crash => MailTypeOK'
  BY DEF MailTypeOK, Crash, Location, Handling

\* Every variable of NotificationQueues keeps its type, and a job has a
\* handler, or the remains of one, exactly while BullMQ counts it as active.
THEOREM MailTypeCorrect == MailSpec => []MailTypeOK
<1>1. MailTypeOK /\ [MailNext]_mailVars => MailTypeOK'
  <2> SUFFICES ASSUME MailTypeOK, [MailNext]_mailVars PROVE MailTypeOK'
    OBVIOUS
  <2>1. CASE \E j \in MailJobs : JobStep(j)
    BY <2>1, JobStepTyped
  <2>2. CASE Crash
    BY <2>2, CrashTyped
  <2>3. CASE UNCHANGED mailVars
    BY <2>3 DEF mailVars, MailTypeOK
  <2> QED
    BY <2>1, <2>2, <2>3 DEF MailNext, JobStep
<1> QED
  BY <1>1, InitTyped, PTL DEF MailSpec

-----------------------------------------------------------------------------
(* The budget of mails.                                                    *)

\* The runs of a job that have ended: its failed or finished attempts and
\* its stalls.
Ended(j) == mailJob[j].attemptsMade + mailJob[j].stalledCounter

\* Each run sends one mail at most, and only until it is past SendMail; a job
\* that has not ended has an attempt left, and has not stalled too often.
BudgetInv(j) ==
    /\ mails[j] <= Ended(j) + (IF at[j] \in {"done", "threw", "dead"} THEN 1 ELSE 0)
    /\ mailJob[j].state \notin {"completed", "failed"} =>
         /\ mailJob[j].attemptsMade < Attempts(j)
         /\ mailJob[j].stalledCounter <= MaxStalledCount
    /\ Ended(j) <= Attempts(j) + MaxStalledCount

BudgetKept == \A j \in MailJobs : BudgetInv(j)

LEMMA BudgetStart == MailInit => BudgetKept
  BY AttemptsPositive DEF MailInit, BudgetKept, BudgetInv, Ended

\* A step of job j leaves the other jobs as they are.
LEMMA OthersKeep ==
  ASSUME MailTypeOK, NEW j \in MailJobs, JobStep(j), NEW k \in MailJobs, k # j
  PROVE  mailJob'[k] = mailJob[k] /\ at'[k] = at[k] /\ mails'[k] = mails[k]
         /\ (k \in dropped => k \in dropped')
  BY DEF MailTypeOK, JobStep, Enqueue, TakeMailJob, HandleMail, CreateAccount, Verify,
         SendMail, Finish, Fail, BackoffOver, Stall, SetState, GotoStep,
         UseTransporter, FallBack

LEMMA JobStepInBudget ==
  ASSUME MailTypeOK, NEW j \in MailJobs, JobStep(j), BudgetInv(j)
  PROVE  BudgetInv(j)'
<1> USE AttemptsPositive DEF MailTypeOK, MailJob, JobState, BudgetInv, Ended, Attempts
<1>1. CASE Enqueue(j)
  BY <1>1 DEF Enqueue, SetState
<1>2. CASE TakeMailJob(j)
  BY <1>2 DEF TakeMailJob, SetState, UseTransporter, GotoStep
<1>3. CASE CreateAccount(j)
  BY <1>3 DEF CreateAccount, FallBack, GotoStep
<1>4. CASE Verify(j)
  BY <1>4 DEF Verify, UseTransporter, FallBack, GotoStep
<1>5. CASE SendMail(j)
  BY <1>5 DEF SendMail, GotoStep
<1>6. CASE Finish(j)
  BY <1>6 DEF Finish, GotoStep
<1>7. CASE Fail(j)
  BY <1>7 DEF Fail, GotoStep
<1>8. CASE BackoffOver(j)
  BY <1>8 DEF BackoffOver, SetState
<1>9. CASE Stall(j)
  BY <1>9 DEF Stall, GotoStep
<1> QED
  BY <1>1, <1>2, <1>3, <1>4, <1>5, <1>6, <1>7, <1>8, <1>9 DEF JobStep, HandleMail

LEMMA CrashInBudget == BudgetKept /\ MailTypeOK /\ Crash => BudgetKept'
  BY DEF MailTypeOK, MailJob, BudgetKept, BudgetInv, Ended, Attempts, Crash, Handling

\* However errors, lost answers and crashes fall, nobody gets the same mail
\* more often than the queue has attempts and stalls to give.
THEOREM MailsWithinBudget == MailSpec => []MailBudget
<1>1. MailTypeOK /\ BudgetKept /\ [MailNext]_mailVars => BudgetKept'
  <2> SUFFICES ASSUME MailTypeOK, BudgetKept, [MailNext]_mailVars PROVE BudgetKept'
    OBVIOUS
  <2>1. ASSUME NEW j \in MailJobs, JobStep(j) PROVE BudgetKept'
    <3>1. BudgetInv(j)'
      BY <2>1, JobStepInBudget DEF BudgetKept
    <3>2. ASSUME NEW k \in MailJobs, k # j PROVE BudgetInv(k)'
      <4>1. mailJob'[k] = mailJob[k] /\ at'[k] = at[k] /\ mails'[k] = mails[k]
        BY <2>1, <3>2, OthersKeep
      <4> QED
        BY <4>1 DEF BudgetKept, BudgetInv, Ended, Attempts
    <3> QED
      BY <3>1, <3>2 DEF BudgetKept
  <2>2. CASE Crash
    BY <2>2, CrashInBudget
  <2>3. CASE UNCHANGED mailVars
    BY <2>3 DEF mailVars, BudgetKept, BudgetInv, Ended, Attempts
  <2> QED
    BY <2>1, <2>2, <2>3 DEF MailNext, JobStep
<1>2. MailTypeOK /\ BudgetKept => MailBudget
  <2> SUFFICES ASSUME MailTypeOK, BudgetKept, NEW j \in MailJobs
               PROVE  mails[j] <= Attempts(j) + MaxStalledCount
    BY DEF MailBudget
  <2>1. BudgetInv(j)
    BY DEF BudgetKept
  <2>2. at[j] # "none" => mailJob[j].state = "active"
    BY DEF MailTypeOK
  <2> QED
    BY <2>1, <2>2, AttemptsPositive DEF MailTypeOK, MailJob, BudgetInv, Ended
<1> QED
  BY <1>1, <1>2, BudgetStart, MailTypeCorrect, PTL DEF MailSpec

-----------------------------------------------------------------------------
(* No error is lost.                                                       *)

Due(j) == QueueOf[j] = "tenant" => j \in Addressed

\* A handler that is going to return has left its mail.
MailLeft(j) == mails[j] > 0 \/ j \in dropped
LeftInv(j) ==
    Due(j) /\ (at[j] = "done" \/ mailJob[j].state = "completed") => MailLeft(j)
NoErrorLost == \A j \in MailJobs : LeftInv(j)

LEMMA JobStepLosesNothing ==
  ASSUME MailTypeOK, NEW j \in MailJobs, JobStep(j), LeftInv(j)
  PROVE  LeftInv(j)'
<1> USE DEF MailTypeOK, MailJob, JobState, Location, Handling, LeftInv, Due, MailLeft
<1>1. CASE Enqueue(j)
  BY <1>1 DEF Enqueue, SetState
<1>2. CASE TakeMailJob(j)
  BY <1>2 DEF TakeMailJob, SetState, UseTransporter, GotoStep
<1>3. CASE CreateAccount(j)
  BY <1>3 DEF CreateAccount, FallBack, GotoStep
<1>4. CASE Verify(j)
  BY <1>4 DEF Verify, UseTransporter, FallBack, GotoStep
<1>5. CASE SendMail(j)
  BY <1>5 DEF SendMail, GotoStep
<1>6. CASE Finish(j)
  BY <1>6 DEF Finish, GotoStep
<1>7. CASE Fail(j)
  BY <1>7 DEF Fail, GotoStep
<1>8. CASE BackoffOver(j)
  BY <1>8 DEF BackoffOver, SetState
<1>9. CASE Stall(j)
  BY <1>9 DEF Stall, GotoStep
<1> QED
  BY <1>1, <1>2, <1>3, <1>4, <1>5, <1>6, <1>7, <1>8, <1>9 DEF JobStep, HandleMail

\* A job with an address that BullMQ counts as completed has left a mail with
\* the mail server or with the JSON transport.
THEOREM NoMailForgotten == MailSpec => []CompletedMeansMailed
<1>1. MailInit => NoErrorLost
  BY DEF MailInit, NoErrorLost, LeftInv
<1>2. MailTypeOK /\ NoErrorLost /\ [MailNext]_mailVars => NoErrorLost'
  <2> SUFFICES ASSUME MailTypeOK, NoErrorLost, [MailNext]_mailVars PROVE NoErrorLost'
    OBVIOUS
  <2>1. ASSUME NEW j \in MailJobs, JobStep(j) PROVE NoErrorLost'
    <3>1. LeftInv(j)'
      BY <2>1, JobStepLosesNothing DEF NoErrorLost
    <3>2. ASSUME NEW k \in MailJobs, k # j PROVE LeftInv(k)'
      BY <2>1, <3>2, OthersKeep DEF NoErrorLost, LeftInv, Due, MailLeft
    <3> QED
      BY <3>1, <3>2 DEF NoErrorLost
  <2>2. CASE Crash
    BY <2>2 DEF MailTypeOK, NoErrorLost, LeftInv, Due, MailLeft, Crash, Handling
  <2>3. CASE UNCHANGED mailVars
    BY <2>3 DEF mailVars, NoErrorLost, LeftInv, Due, MailLeft
  <2> QED
    BY <2>1, <2>2, <2>3 DEF MailNext, JobStep
<1>3. NoErrorLost => CompletedMeansMailed
  BY DEF NoErrorLost, LeftInv, Due, MailLeft, CompletedMeansMailed
<1> QED
  BY <1>1, <1>2, <1>3, MailTypeCorrect, PTL DEF MailSpec
=============================================================================
