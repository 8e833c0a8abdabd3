------------------------------ MODULE Accounts ------------------------------
(***************************************************************************)
(* AuthService: registration, login, e-mail verification and password      *)
(* reset, beside UserService.setCurrentTenant, which saves the same row.   *)
(*                                                                         *)
(* A call is a member of one of the five constant sets; the account it is  *)
(* about is named by the registration that inserts it. Each await on the   *)
(* database, on bcrypt and on the signing of a token is a step.            *)
(* verifyEmail, resetPassword and setCurrentTenant read the row, change    *)
(* one column of their copy and save it; a save writes the columns in      *)
(* which the copy differs from the row, which leaves the two equal.        *)
(*                                                                         *)
(* The adds to the queue 'authentication' are not awaited: a caller has    *)
(* its answer while its add runs, and an add that fails is an unhandled    *)
(* rejection, which ends the Node process with everything it runs.         *)
(*                                                                         *)
(* AccountEnv: "dbError", "dbAckLost" (a write takes effect, its caller    *)
(* sees an error), "queueError", "crash".                                  *)
(***************************************************************************)
EXTENDS Naturals

CONSTANTS
    Registrations, Logins, Verifications, Resets, Switches,
    AccountOf,    \* the registration whose account a call is about
    EmailOf,      \* the address of each registration
    PhoneOf,      \* its phone
    PasswordOf,   \* the password a registration, login or reset is given
    AccountEnv

Savers == Verifications \cup Resets \cup Switches
Calls == Registrations \cup Logins \cup Savers

ASSUME DifferentCalls ==
    /\ Registrations \cap (Logins \cup Savers) = {} /\ Logins \cap Savers = {}
    /\ Verifications \cap Resets = {} /\ Switches \cap (Verifications \cup Resets) = {}
ASSUME AccountAssumption == AccountOf \in [Calls \ Registrations -> Registrations]
ASSUME AccountEnvAssumption ==
    AccountEnv \subseteq {"dbError", "dbAckLost", "queueError", "crash"}

VARIABLES
    users,    \* the rows of `users` that exist
    row,      \* the columns password and isVerified of each
    pc,       \* where each call is
    copy,     \* the row a call loaded
    adding    \* calls whose add to the queue still runs

vars == <<users, row, pc, copy, adding>>

Fault(kind) == kind \in AccountEnv
Goto(c, location) == pc' = [pc EXCEPT ![c] = location]

\* The column password: a text, and how often bcrypt hashed it.
Password(text) == [text |-> text, hashes |-> 0]
Matches(text, password) == password = [text |-> text, hashes |-> 1]

NewUser(r) == [password |-> Password(PasswordOf[r]), isVerified |-> FALSE]

Init ==
    /\ users = {}
    /\ row = [r \in Registrations |-> NewUser(r)]
    /\ pc = [c \in Calls |-> "idle"]
    /\ copy = [c \in Calls \ Registrations |-> NewUser(AccountOf[c])]
    /\ adding = {}

Running == {c \in Calls : pc[c] \in {"insert", "compare", "answer", "save"}}

-----------------------------------------------------------------------------
(* createUser.                                                             *)

WithEmail(e) == {u \in users : EmailOf[u] = e}
WithPhone(p) == {u \in users : PhoneOf[u] = p}

\* findOne by email
CreateUser(r) ==
    /\ pc[r] = "idle"
    /\ \/ WithEmail(EmailOf[r]) = {} /\ Goto(r, "insert")
       \/ WithEmail(EmailOf[r]) # {} /\ Goto(r, "threw")
       \/ Fault("dbError") /\ Goto(r, "threw")
    /\ UNCHANGED <<users, row, copy, adding>>

\* UserEntity.hashPassword, run before an insert and before nothing else
HashPassword(user) == [user EXCEPT !.password.hashes = @ + 1]

\* Seeded fault of InsertUser: the columns have no unique index.
InsertUserUnindexed(r) ==
    /\ pc[r] = "insert"
    /\ users' = users \cup {r}
    /\ row' = [row EXCEPT ![r] = HashPassword(@)]
    /\ Goto(r, "answer")
    /\ UNCHANGED <<copy, adding>>

\* save(newUser): email and phone have unique indexes.
InsertUser(r) ==
    /\ pc[r] = "insert"
    /\ \/ /\ WithEmail(EmailOf[r]) \cup WithPhone(PhoneOf[r]) = {}
          /\ users' = users \cup {r}
          /\ row' = [row EXCEPT ![r] = HashPassword(@)]
          /\ \/ Goto(r, "answer")
             \/ Fault("dbAckLost") /\ Goto(r, "threw")
       \/ /\ \/ WithEmail(EmailOf[r]) \cup WithPhone(PhoneOf[r]) # {}
             \/ Fault("dbError")
          /\ Goto(r, "threw")
          /\ UNCHANGED <<users, row>>
    /\ UNCHANGED <<copy, adding>>

-----------------------------------------------------------------------------
(* login.                                                                  *)

\* findByEmail; findByPhone is alike.
FindUser(c) ==
    /\ pc[c] = "idle"
    /\ \/ /\ \E u \in WithEmail(EmailOf[AccountOf[c]]) :
               copy' = [copy EXCEPT ![c] = row[u]]
          /\ Goto(c, "compare")
       \/ /\ WithEmail(EmailOf[AccountOf[c]]) = {} \/ Fault("dbError")
          /\ Goto(c, "threw")
          /\ UNCHANGED copy
    /\ UNCHANGED <<users, row, adding>>

\* bcrypt.compare, which is false for a column that is no hash
ComparePassword(c) ==
    /\ pc[c] = "compare"
    /\ Goto(c, IF Matches(PasswordOf[c], copy[c].password) THEN "answer" ELSE "threw")
    /\ UNCHANGED <<users, row, copy, adding>>

\* The token is signed: the add starts and the call answers.
Answer(c) ==
    /\ pc[c] = "answer"
    /\ Goto(c, "done")
    /\ adding' = adding \cup {c}
    /\ UNCHANGED <<users, row, copy>>

-----------------------------------------------------------------------------
(* verifyEmail, resetPassword and setCurrentTenant.                        *)

\* Seeded fault of Changed: a reset asks for a new verification.
ChangedUnverifies(c, user) ==
    CASE c \in Verifications -> [user EXCEPT !.isVerified = TRUE]
      [] c \in Resets -> [password |-> Password(PasswordOf[c]), isVerified |-> FALSE]
      [] c \in Switches -> user

\* The column the call sets; resetPassword stores the text it is given, and
\* currentTenantId is not kept here.
Changed(c, user) ==
    CASE c \in Verifications -> [user EXCEPT !.isVerified = TRUE]
      [] c \in Resets -> [user EXCEPT !.password = Password(PasswordOf[c])]
      [] c \in Switches -> user

\* verifyAsync and findOne by id: a token names an account that exists, and
\* any error, an expired token's among them, becomes the same exception.
LoadUser(c) ==
    /\ pc[c] = "idle"
    /\ AccountOf[c] \in users
    /\ \/ /\ copy' = [copy EXCEPT ![c] = row[AccountOf[c]]]
          /\ Goto(c, "save")
       \/ Goto(c, "threw") /\ UNCHANGED copy
    /\ UNCHANGED <<users, row, adding>>

\* Seeded faults of SaveUser: the mail is queued whether or not the row was
\* saved; the hook also runs before an update.
SaveUserAlwaysMails(c) ==
    /\ pc[c] = "save"
    /\ \/ row' = [row EXCEPT ![AccountOf[c]] = Changed(c, copy[c])] /\ Goto(c, "done")
       \/ Fault("dbError") /\ Goto(c, "threw") /\ UNCHANGED row
    /\ adding' = adding \cup {c}
    /\ UNCHANGED <<users, copy>>
SaveUserHashes(c) ==
    /\ pc[c] = "save"
    /\ row' = [row EXCEPT ![AccountOf[c]] = HashPassword(Changed(c, copy[c]))]
    /\ Goto(c, "done")
    /\ UNCHANGED <<users, copy, adding>>

\* save(user), the start of the add and the answer
SaveUser(c) ==
    /\ pc[c] = "save"
    /\ \/ /\ row' = [row EXCEPT ![AccountOf[c]] = Changed(c, copy[c])]
          /\ Goto(c, "done")
          /\ adding' = IF c \in Switches THEN adding ELSE adding \cup {c}
       \/ /\ Fault("dbAckLost")
          /\ row' = [row EXCEPT ![AccountOf[c]] = Changed(c, copy[c])]
          /\ Goto(c, "threw")
          /\ UNCHANGED adding
       \/ /\ Fault("dbError")
          /\ Goto(c, "threw")
          /\ UNCHANGED <<row, adding>>
    /\ UNCHANGED <<users, copy>>

-----------------------------------------------------------------------------
(* The adds, and the death of the process.                                 *)

Die ==
    /\ pc' = [c \in Calls |-> IF c \in Running THEN "lost" ELSE pc[c]]
    /\ adding' = {}
    /\ UNCHANGED <<users, row, copy>>

\* The job is in the queue; what becomes of it, NotificationQueues has.
AddMail(c) ==
    /\ c \in adding
    /\ \/ /\ adding' = adding \ {c}
          /\ UNCHANGED <<users, row, pc, copy>>
       \/ Fault("queueError") /\ Die

Crash ==
    /\ Fault("crash")
    /\ Running # {} \/ adding # {}
    /\ Die

Next ==
    \/ \E r \in Registrations : CreateUser(r) \/ InsertUser(r)
    \/ \E c \in Logins : FindUser(c) \/ ComparePassword(c)
    \/ \E c \in Registrations \cup Logins : Answer(c)
    \/ \E c \in Savers : LoadUser(c) \/ SaveUser(c)
    \/ \E c \in Calls : AddMail(c)
    \/ Crash

Spec == Init /\ [][Next]_vars

-----------------------------------------------------------------------------
(* Properties.                                                             *)

Texts == {PasswordOf[c] : c \in Registrations \cup Resets}
User == [password : [text : Texts, hashes : Nat], isVerified : BOOLEAN]

\* Every variable stays in its type, and only an answered call adds a job.
TypeOK ==
    /\ users \subseteq Registrations
    /\ row \in [Registrations -> User]
    /\ copy \in [Calls \ Registrations -> User]
    /\ pc \in [Calls -> {"idle", "insert", "compare", "answer", "save",
                         "done", "threw", "lost"}]
    /\ adding \subseteq {c \in Calls : pc[c] = "done"}

\* However registrations race past the look-up of createUser, no two accounts
\* share an address or a phone, and one that answered owns both.
OneAccountPerAddress ==
    /\ \A u, v \in users : EmailOf[u] = EmailOf[v] \/ PhoneOf[u] = PhoneOf[v] => u = v
    /\ \A r \in Registrations : pc[r] \in {"answer", "done"} => r \in users

\* Until a reset of it begins to save, an account opens with the password it
\* was registered with, whatever other calls save of their copies.
RegisteredPasswordWorks ==
    \A u \in users :
      (\A c \in Resets : AccountOf[c] = u => pc[c] = "idle")
        => Matches(PasswordOf[u], row[u].password)

Rivals(c) == {x \in Savers \ {c} : AccountOf[x] = AccountOf[c] /\ pc[x] # "idle"}

\* What an answered verification or reset saved is lost only to a call that
\* had loaded the row before, or to a further reset: whoever loads the row
\* afterwards keeps it.
AnsweredSavesKept ==
    /\ \A c \in Verifications :
         pc[c] = "done" /\ (\A x \in Rivals(c) : copy[x].isVerified)
           => row[AccountOf[c]].isVerified
    /\ \A c \in Resets :
         LET new == Password(PasswordOf[c]) IN
         pc[c] = "done" /\ (\A x \in Rivals(c) : x \notin Resets /\ copy[x].password = new)
           => row[AccountOf[c]].password = new
=============================================================================
