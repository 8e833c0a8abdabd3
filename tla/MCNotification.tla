--------------------------- MODULE MCNotification ---------------------------
(* NotificationQueues with two mails of tenants, one without an address, and *)
(* one to a user.                                                            *)
EXTENDS NotificationQueues, TLC

CONSTANTS t1, t2, a1

MCMailJobs == {t1, t2, a1}
MCQueueOf == t1 :> "tenant" @@ t2 :> "tenant" @@ a1 :> "authentication"
MCAddressed == {t1, a1}
MCMailEnv == {"queueError", "smtpDown", "mailError", "mailAckLost", "crash"}
=============================================================================
