---------------------------- MODULE AccountsProofs --------------------------
(***************************************************************************)
(* What Accounts promises, for any calls, any coincidence of their         *)
(* addresses, phones and passwords, and any faults.                        *)
(***************************************************************************)
EXTENDS Accounts, TLAPS

USE DifferentCalls, AccountAssumption DEF Calls, Savers

-----------------------------------------------------------------------------
(* Types.                                                                  *)

LEMMA NewUserTyped == \A r \in Registrations : NewUser(r) \in User
  BY DEF NewUser, User, Texts, Password

LEMMA ChangedTyped ==
  ASSUME NEW c \in Savers, NEW user \in User
  PROVE  Changed(c, user) \in User
<1>1. CASE c \in Verifications
  BY <1>1 DEF Changed, User
<1>2. CASE c \in Resets
  BY <1>2 DEF Changed, User, Password, Texts
<1>3. CASE c \in Switches
  BY <1>3 DEF Changed
<1> QED
  BY <1>1, <1>2, <1>3

LEMMA HashTyped == \A user \in User : HashPassword(user) \in User
  BY DEF HashPassword, User

LEMMA InitTyped == Init => TypeOK
  BY NewUserTyped DEF Init, TypeOK

LEMMA StepTyped == TypeOK /\ [Next]_vars => TypeOK'
<1> SUFFICES ASSUME TypeOK, [Next]_vars PROVE TypeOK'
  OBVIOUS
<1> USE DEF TypeOK, Goto
<1>1. ASSUME NEW r \in Registrations, CreateUser(r) PROVE TypeOK'
  BY <1>1 DEF CreateUser
<1>2. ASSUME NEW r \in Registrations, InsertUser(r) PROVE TypeOK'
  BY <1>2, HashTyped DEF InsertUser
<1>3. ASSUME NEW c \in Logins, FindUser(c) PROVE TypeOK'
  BY <1>3 DEF FindUser, WithEmail
<1>4. ASSUME NEW c \in Logins, ComparePassword(c) PROVE TypeOK'
  BY <1>4 DEF ComparePassword
<1>5. ASSUME NEW c \in Registrations \cup Logins, Answer(c) PROVE TypeOK'
  BY <1>5 DEF Answer
<1>6. ASSUME NEW c \in Savers, LoadUser(c) PROVE TypeOK'
  BY <1>6 DEF LoadUser
<1>7. ASSUME NEW c \in Savers, SaveUser(c) PROVE TypeOK'
  BY <1>7, ChangedTyped DEF SaveUser
<1>8. ASSUME Die PROVE TypeOK'
  BY <1>8 DEF Die, Running
<1>9. ASSUME NEW c \in Calls, AddMail(c) PROVE TypeOK'
  BY <1>8, <1>9 DEF AddMail
<1>10. CASE UNCHANGED vars
  BY <1>10 DEF vars
<1> QED
  BY <1>1, <1>2, <1>3, <1>4, <1>5, <1>6, <1>7, <1>8, <1>9, <1>10 DEF Next, Crash

\* Every variable of Accounts keeps its type, and only a call that answered
\* adds a job.
THEOREM TypeCorrect == Spec => []TypeOK
  BY InitTyped, StepTyped, PTL DEF Spec

-----------------------------------------------------------------------------
(* One account per address.                                                *)

\* The unique indexes, whose account an answer is about, and that a call
\* which loaded a row loaded one that exists.
AccountInv ==
    /\ OneAccountPerAddress
    /\ \A c \in Savers : pc[c] # "idle" => AccountOf[c] \in users
    /\ \A r \in Registrations \ users : row[r] = NewUser(r)

LEMMA AccountStep == TypeOK /\ AccountInv /\ [Next]_vars => AccountInv'
<1> SUFFICES ASSUME TypeOK, AccountInv, [Next]_vars PROVE AccountInv'
  OBVIOUS
<1> USE DEF TypeOK, Goto, AccountInv, OneAccountPerAddress, WithEmail, WithPhone
<1>1. ASSUME NEW r \in Registrations, CreateUser(r) PROVE AccountInv'
  BY <1>1 DEF CreateUser
<1>2. ASSUME NEW r \in Registrations, InsertUser(r) PROVE AccountInv'
  <2>1. pc' = [pc EXCEPT ![r] = pc'[r]] /\ pc'[r] \in {"answer", "threw"}
    BY <1>2 DEF InsertUser
  <2>2. \/ /\ users' = users \cup {r}
           /\ WithEmail(EmailOf[r]) \cup WithPhone(PhoneOf[r]) = {}
           /\ \A x \in Registrations \ {r} : row'[x] = row[x]
        \/ UNCHANGED <<users, row>> /\ pc'[r] = "threw"
    BY <1>2 DEF InsertUser
  <2>3. OneAccountPerAddress'
    BY <2>1, <2>2
  <2>4. \A c \in Savers : pc'[c] = pc[c]
    BY <2>1
  <2> QED
    BY <2>2, <2>3, <2>4
<1>3. ASSUME NEW c \in Logins, FindUser(c) \/ ComparePassword(c) PROVE AccountInv'
  <2>1. pc' = [pc EXCEPT ![c] = pc'[c]] /\ UNCHANGED <<users, row>>
    BY <1>3 DEF FindUser, ComparePassword
  <2> QED
    BY <2>1
<1>4. ASSUME NEW c \in Registrations \cup Logins, Answer(c) PROVE AccountInv'
  BY <1>4 DEF Answer
<1>5. ASSUME NEW c \in Savers, LoadUser(c) PROVE AccountInv'
  BY <1>5 DEF LoadUser
<1>6. ASSUME NEW c \in Savers, SaveUser(c) PROVE AccountInv'
  <2>1. pc' = [pc EXCEPT ![c] = pc'[c]] /\ UNCHANGED users /\ AccountOf[c] \in users
        /\ \A x \in Registrations \ {AccountOf[c]} : row'[x] = row[x]
    BY <1>6 DEF SaveUser
  <2>2. OneAccountPerAddress'
    BY <2>1
  <2>3. \A x \in Savers : pc'[x] # "idle" => AccountOf[x] \in users'
    BY <2>1
  <2>4. \A x \in Registrations \ users' : row'[x] = NewUser(x)
    BY <2>1
  <2> QED
    BY <2>2, <2>3, <2>4
<1>7. ASSUME Die PROVE AccountInv'
  BY <1>7 DEF Die, Running
<1>8. ASSUME NEW c \in Calls, AddMail(c) PROVE AccountInv'
  BY <1>7, <1>8 DEF AddMail
<1>9. CASE UNCHANGED vars
  BY <1>9 DEF vars
<1> QED
  BY <1>1, <1>2, <1>3, <1>4, <1>5, <1>6, <1>7, <1>8, <1>9 DEF Next, Crash

LEMMA AccountStart == Init => AccountInv
  BY DEF Init, AccountInv, OneAccountPerAddress

LEMMA AccountsHold == Spec => [](TypeOK /\ AccountInv)
<1>1. TypeOK /\ AccountInv /\ [Next]_vars => (TypeOK /\ AccountInv)'
  BY StepTyped, AccountStep
<1> QED
  BY <1>1, InitTyped, AccountStart, PTL DEF Spec

\* However registrations race past the look-up of createUser, no two accounts
\* share an address or a phone.
THEOREM AddressesUnique == Spec => []OneAccountPerAddress
<1>1. AccountInv => OneAccountPerAddress
  BY DEF AccountInv
<1> QED
  BY <1>1, AccountsHold, PTL

-----------------------------------------------------------------------------
(* The password of a registration.                                         *)

NoReset(u) == \A c \in Resets : AccountOf[c] = u => pc[c] = "idle"
Opens(u, user) == Matches(PasswordOf[u], user.password)

\* The row opens with the password of its registration, and so does every
\* copy that is going to be saved.
PasswordInv ==
    \A u \in users : NoReset(u) =>
      /\ Opens(u, row[u])
      /\ \A c \in Savers : AccountOf[c] = u /\ pc[c] = "save" => Opens(u, copy[c])

LEMMA PasswordStep == TypeOK /\ AccountInv /\ PasswordInv /\ [Next]_vars => PasswordInv'
<1> SUFFICES ASSUME TypeOK, AccountInv, PasswordInv, [Next]_vars PROVE PasswordInv'
  OBVIOUS
<1> USE DEF TypeOK, Goto, AccountInv, PasswordInv, NoReset, Opens
<1>1. ASSUME NEW r \in Registrations, CreateUser(r) PROVE PasswordInv'
  BY <1>1 DEF CreateUser
<1>2. ASSUME NEW r \in Registrations, InsertUser(r) PROVE PasswordInv'
  <2>1. CASE UNCHANGED <<users, row>>
    BY <1>2, <2>1 DEF InsertUser
  <2>2. CASE users' = users \cup {r} /\ row' = [row EXCEPT ![r] = HashPassword(@)]
             /\ WithEmail(EmailOf[r]) \cup WithPhone(PhoneOf[r]) = {}
    <3>1. r \notin users
      BY <2>2 DEF WithEmail
    <3>2. Opens(r, row'[r])
      BY <2>2, <3>1 DEF HashPassword, NewUser, Password, Matches
    <3>3. \A c \in Savers : AccountOf[c] = r => pc[c] = "idle"
      BY <3>1
    <3>4. \A c \in Savers : pc'[c] = pc[c] /\ copy'[c] = copy[c]
      BY <1>2 DEF InsertUser
    <3> QED
      BY <2>2, <3>1, <3>2, <3>3, <3>4
  <2> QED
    BY <1>2, <2>1, <2>2 DEF InsertUser
<1>3. ASSUME NEW c \in Logins, FindUser(c) \/ ComparePassword(c) PROVE PasswordInv'
  BY <1>3 DEF FindUser, ComparePassword
<1>4. ASSUME NEW c \in Registrations \cup Logins, Answer(c) PROVE PasswordInv'
  BY <1>4 DEF Answer
<1>5. ASSUME NEW c \in Savers, LoadUser(c) PROVE PasswordInv'
  BY <1>5 DEF LoadUser
<1>6. ASSUME NEW c \in Savers, SaveUser(c) PROVE PasswordInv'
  <2>1. c \notin Resets => Changed(c, copy[c]).password = copy[c].password
    BY DEF Changed, User
  <2> QED
    BY <1>6, <2>1 DEF SaveUser, Matches
<1>7. ASSUME Die PROVE PasswordInv'
  BY <1>7 DEF Die, Running
<1>8. ASSUME NEW c \in Calls, AddMail(c) PROVE PasswordInv'
  BY <1>7, <1>8 DEF AddMail
<1>9. CASE UNCHANGED vars
  BY <1>9 DEF vars
<1> QED
  BY <1>1, <1>2, <1>3, <1>4, <1>5, <1>6, <1>7, <1>8, <1>9 DEF Next, Crash

\* Until a reset of it begins, an account opens with the password it was
\* registered with, whatever other calls save of their copies.
THEOREM RegisteredPasswordKept == Spec => []RegisteredPasswordWorks
<1>1. Init => PasswordInv
  BY DEF Init, PasswordInv
<1>2. PasswordInv => RegisteredPasswordWorks
  BY DEF PasswordInv, NoReset, Opens, RegisteredPasswordWorks
<1> QED
  BY <1>1, <1>2, PasswordStep, AccountsHold, PTL DEF Spec

-----------------------------------------------------------------------------
(* What an answered save is worth.                                         *)

\* A step that starts no call and changes neither rows nor copies of those
\* that run keeps what was saved.
LEMMA SavesKeptByOthers ==
  ASSUME TypeOK, AnsweredSavesKept,
         \A c \in Savers : /\ pc'[c] = "done" => pc[c] = "done"
                           /\ pc[c] # "idle" => pc'[c] # "idle" /\ copy'[c] = copy[c],
         \A c \in Savers : pc[c] = "done" => row'[AccountOf[c]] = row[AccountOf[c]]
  PROVE  AnsweredSavesKept'
  BY DEF AnsweredSavesKept, Rivals

LEMMA SavesStep ==
  TypeOK /\ AccountInv /\ AnsweredSavesKept /\ [Next]_vars => AnsweredSavesKept'
<1> SUFFICES ASSUME TypeOK, AccountInv, AnsweredSavesKept, [Next]_vars
             PROVE  AnsweredSavesKept'
  OBVIOUS
<1> USE DEF TypeOK, Goto
<1>1. ASSUME NEW r \in Registrations, CreateUser(r) PROVE AnsweredSavesKept'
  BY <1>1, SavesKeptByOthers DEF CreateUser
<1>2. ASSUME NEW r \in Registrations, InsertUser(r) PROVE AnsweredSavesKept'
  <2>1. \A u \in users : row'[u] = row[u]
    BY <1>2 DEF InsertUser, WithEmail
  <2>2. \A c \in Savers : pc'[c] = pc[c] /\ copy'[c] = copy[c]
    BY <1>2 DEF InsertUser
  <2> QED
    BY <2>1, <2>2, SavesKeptByOthers DEF AccountInv
<1>3. ASSUME NEW c \in Logins, FindUser(c) \/ ComparePassword(c) PROVE AnsweredSavesKept'
  <2>1. \A x \in Savers : pc'[x] = pc[x] /\ copy'[x] = copy[x]
    BY <1>3 DEF FindUser, ComparePassword
  <2>2. row' = row
    BY <1>3 DEF FindUser, ComparePassword
  <2> QED
    BY <2>1, <2>2, SavesKeptByOthers
<1>4. ASSUME NEW c \in Registrations \cup Logins, Answer(c) PROVE AnsweredSavesKept'
  BY <1>4, SavesKeptByOthers DEF Answer
<1>5. ASSUME NEW c \in Savers, LoadUser(c) PROVE AnsweredSavesKept'
  BY <1>5, SavesKeptByOthers DEF LoadUser
<1>6. ASSUME NEW c \in Savers, SaveUser(c) PROVE AnsweredSavesKept'
  <2>1. /\ c \in Verifications \/ copy[c].isVerified => Changed(c, copy[c]).isVerified
        /\ c \notin Resets => Changed(c, copy[c]).password = copy[c].password
        /\ c \in Resets => Changed(c, copy[c]).password = Password(PasswordOf[c])
    BY DEF Changed, User
  <2>2. /\ pc[c] = "save" /\ pc' = [pc EXCEPT ![c] = pc'[c]] /\ copy' = copy
        /\ pc'[c] \in {"done", "threw"}
        /\ \/ row' = [row EXCEPT ![AccountOf[c]] = Changed(c, copy[c])]
           \/ row' = row /\ pc'[c] = "threw"
    BY <1>6 DEF SaveUser
  <2>3. ASSUME NEW v \in Verifications, pc'[v] = "done",
               \A x \in Rivals(v)' : copy'[x].isVerified
        PROVE  row'[AccountOf[v]].isVerified
    <3>1. CASE v = c
      BY <2>1, <2>2, <2>3, <3>1
    <3>2. CASE v # c
      <4>1. pc[v] = "done" /\ \A x \in Rivals(v) : copy[x].isVerified
        BY <2>2, <2>3, <3>2 DEF Rivals
      <4>2. row[AccountOf[v]].isVerified
        BY <4>1 DEF AnsweredSavesKept
      <4>3. AccountOf[c] = AccountOf[v] => copy[c].isVerified
        BY <2>2, <4>1, <3>2 DEF Rivals
      <4>4. \/ row'[AccountOf[v]] = Changed(c, copy[c]) /\ AccountOf[c] = AccountOf[v]
            \/ row'[AccountOf[v]] = row[AccountOf[v]]
        BY <2>2
      <4> QED
        BY <2>1, <4>2, <4>3, <4>4
    <3> QED
      BY <3>1, <3>2
  <2>4. ASSUME NEW p \in Resets, pc'[p] = "done",
               \A x \in Rivals(p)' : /\ x \notin Resets
                                     /\ copy'[x].password = Password(PasswordOf[p])
        PROVE  row'[AccountOf[p]].password = Password(PasswordOf[p])
    <3>1. CASE p = c
      BY <2>1, <2>2, <2>4, <3>1
    <3>2. CASE p # c
      <4>1. pc[p] = "done" /\ \A x \in Rivals(p) : /\ x \notin Resets
                                                   /\ copy[x].password = Password(PasswordOf[p])
        BY <2>2, <2>4, <3>2 DEF Rivals
      <4>2. row[AccountOf[p]].password = Password(PasswordOf[p])
        BY <4>1 DEF AnsweredSavesKept
      <4>3. AccountOf[c] = AccountOf[p] =>
              c \notin Resets /\ copy[c].password = Password(PasswordOf[p])
        BY <2>2, <4>1, <3>2 DEF Rivals
      <4>4. \/ row'[AccountOf[p]] = Changed(c, copy[c]) /\ AccountOf[c] = AccountOf[p]
            \/ row'[AccountOf[p]] = row[AccountOf[p]]
        BY <2>2
      <4> QED
        BY <2>1, <4>2, <4>3, <4>4
    <3> QED
      BY <3>1, <3>2
  <2> QED
    BY <2>3, <2>4 DEF AnsweredSavesKept, Password
<1>7. ASSUME Die PROVE AnsweredSavesKept'
  BY <1>7, SavesKeptByOthers DEF Die, Running
<1>8. ASSUME NEW c \in Calls, AddMail(c) PROVE AnsweredSavesKept'
  BY <1>7, <1>8, SavesKeptByOthers DEF AddMail
<1>9. CASE UNCHANGED vars
  BY <1>9, SavesKeptByOthers DEF vars
<1> QED
  BY <1>1, <1>2, <1>3, <1>4, <1>5, <1>6, <1>7, <1>8, <1>9 DEF Next, Crash

\* What an answered verification or reset saved is lost only to a call that
\* had loaded the row before, or to a further reset.
THEOREM AnsweredSavesLast == Spec => []AnsweredSavesKept
<1>1. Init => AnsweredSavesKept
  BY DEF Init, AnsweredSavesKept
<1> QED
  BY <1>1, SavesStep, AccountsHold, PTL DEF Spec
=============================================================================
