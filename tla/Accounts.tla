------------------------------- MODULE Accounts -------------------------------
(***************************************************************************)
(* Accounts, the provider identities linked to them, and the verification   *)
(* links mailed to them. An account is its email, which is unique; users    *)
(* are never deleted. Passwords, sessions and 2FA are left out. The event   *)
(* of a new account is delivered as in OutboxRelay, the mail by BullMQ.     *)
(***************************************************************************)
EXTENDS Integers, FiniteSets

CONSTANTS Emails, Subjects,    \* (provider, subject) pairs
          Callbacks, IdentityOf, \* IdentityOf[c]: the subject, its email, if verified
          Visits,              \* requests that open a mailed link
          MaxResends, MailTries, \* per account; and attempts of an email job
          Scenes,              \* scenarios: who takes part, and how much may fail
          Nobody               \* no account

ASSUME AccountsAssumption ==
  /\ IdentityOf \in [Callbacks -> [subject : Subjects, email : Emails, verified : BOOLEAN]]
  /\ Nobody \notin Emails /\ Emails # {} /\ MaxResends \in Nat
  /\ MailTries \in Nat \ {0}

Tokens == [of : Emails, n : 0 .. MaxResends]   \* n = 0: derived from UserRegistered

VARIABLES account,    \* account[e]
          owner,      \* owner[s]: the account that an identity is linked to
          registered, \* UserRegistered events not yet handled
          link,       \* link[t]: the Redis key of a token
          mailing,    \* mailing[t]: where the handler or the resend is that mails t
          mail, mailTries, \* the job of a token's mail, and its failed attempts
          visit,      \* visit[v]: a request that opens a link
          callback,   \* callback[c]: a sign-in with a provider
          scene, faults

accountVars == <<account, owner, registered, link, mailing, mail, mailTries, visit,
                 callback, scene, faults>>

AccountsTypeOK ==
  /\ account \in [Emails -> {"none", "unverified", "verified"}]
  /\ owner \in [Subjects -> Emails \cup {Nobody}]
  /\ registered \subseteq Emails
  /\ link \in [Tokens -> {"none", "live", "spent", "expired"}]
  /\ mailing \in [Tokens -> {"idle", "found", "stored", "over"}]
  /\ mail \in [Tokens -> {"none", "waiting", "failed", "sent"}]
  /\ mailTries \in [Tokens -> 0 .. MailTries]
  /\ visit \in [Visits -> [at : {"idle", "find", "update", "delete", "over"}, token : Tokens]]
  /\ callback \in [Callbacks ->
       [at : {"linked", "byEmail", "link", "create", "linkedAgain", "byEmailAgain",
              "relink", "raced", "signedIn", "refused"},
        user : Emails \cup {Nobody}, verified : BOOLEAN]]
  /\ scene \in Scenes /\ faults \in Nat

AccountsInit ==
  /\ account = [e \in Emails |-> "none"] /\ owner = [s \in Subjects |-> Nobody]
  /\ registered = {} /\ link = [t \in Tokens |-> "none"]
  /\ mailing = [t \in Tokens |-> "idle"]
  /\ mail = [t \in Tokens |-> "none"] /\ mailTries = [t \in Tokens |-> 0]
  /\ visit = [v \in Visits |-> [at |-> "idle", token |-> CHOOSE t \in Tokens : TRUE]]
  /\ callback = [c \in Callbacks |-> [at |-> "linked", user |-> Nobody, verified |-> FALSE]]
  /\ scene \in Scenes /\ faults = 0

linkVars == <<link, mailing, mail, mailTries>>

Fault == faults < scene.faults /\ faults' = faults + 1

-----------------------------------------------------------------------------
(* Registration. The account and its event are one transaction.             *)

Opened(e, state) ==
  /\ account' = [account EXCEPT ![e] = state]
  /\ registered' = registered \cup {e}

Register(e) ==
  /\ e \in scene.emails /\ account[e] = "none"
  /\ Opened(e, "unverified")
  /\ UNCHANGED <<owner, linkVars, visit, callback, scene, faults>>

-----------------------------------------------------------------------------
(* RegistrationVerificationHandler, and resendVerificationEmail.            *)

Mailing(t, from, to) ==
  /\ mailing[t] = from /\ mailing' = [mailing EXCEPT ![t] = to]
  /\ UNCHANGED <<account, owner, mailTries, visit, callback, scene>>

Handled(t) == registered' = IF t.n = 0 THEN registered \ {t.of} ELSE registered

Asked(t) == IF t.n = 0 THEN t.of \in registered ELSE account[t.of] # "none" /\ t.n <= scene.resends

\* findUserById, findUserByEmail: a verified account gets no mail.
FindUser(t) ==
  /\ Asked(t)
  /\ IF account[t.of] = "unverified"
     THEN Mailing(t, "idle", "found") /\ UNCHANGED registered
     ELSE Mailing(t, "idle", "over") /\ Handled(t)
  /\ UNCHANGED <<link, mail, faults>>

\* Also sets it again, with a new time to live, when the event is handled again.
StoreLink(t) ==
  /\ Mailing(t, "found", "stored")
  /\ link' = [link EXCEPT ![t] = "live"]
  /\ UNCHANGED <<registered, mail, faults>>

\* The jobId of a registration's mail is its user's: a job that is there is kept.
QueueMail(t) ==
  /\ Mailing(t, "stored", "over")
  /\ mail' = [mail EXCEPT ![t] = IF @ = "none" THEN "waiting" ELSE @]
  /\ Handled(t)
  /\ UNCHANGED <<link, faults>>

\* Mutant: the handler swallows the error.
GiveUpMailing(t) ==
  /\ mailing[t] \in {"found", "stored"} /\ Mailing(t, mailing[t], "over")
  /\ Fault /\ Handled(t)
  /\ UNCHANGED <<link, mail>>

\* An error or a crash, which may come after the job was added. The event is delivered
\* again; a resend has a random token, and is over.
MailingFails(t) ==
  /\ mailing[t] \in {"found", "stored"}
  /\ Mailing(t, mailing[t], IF t.n = 0 THEN "idle" ELSE "over")
  /\ Fault
  /\ mail' \in {mail, [mail EXCEPT ![t] = IF mailing[t] = "stored" /\ @ = "none"
                                          THEN "waiting" ELSE @]}
  /\ UNCHANGED <<registered, link>>

\* processEmail under BullMQ's attempts; a failed job is kept, and blocks its jobId.
SendMail(t) ==
  /\ mail[t] = "waiting" /\ mail' = [mail EXCEPT ![t] = "sent"]
  /\ UNCHANGED <<account, owner, registered, link, mailing, mailTries, visit, callback, scene, faults>>

SendFails(t) ==
  /\ mail[t] = "waiting" /\ Fault
  /\ mailTries' = [mailTries EXCEPT ![t] = @ + 1]
  /\ mail' = [mail EXCEPT ![t] = IF mailTries[t] + 1 = MailTries THEN "failed" ELSE @]
  /\ UNCHANGED <<account, owner, registered, link, mailing, visit, callback, scene>>

ExpireLink(t) ==
  /\ link[t] = "live" /\ link' = [link EXCEPT ![t] = "expired"]
  /\ UNCHANGED <<account, owner, registered, mailing, mail, mailTries, visit, callback, scene, faults>>

-----------------------------------------------------------------------------
(* verifyEmail.                                                             *)

VisitGoes(v, from, to) ==
  /\ visit[v].at = from /\ visit' = [visit EXCEPT ![v].at = to]
  /\ UNCHANGED <<owner, registered, mailing, mail, mailTries, callback, scene>>

Spend(v) == link' = [link EXCEPT ![visit[v].token] = IF @ = "live" THEN "spent" ELSE @]

\* Mutant: the link is taken out of the store when it is looked up.
TakeLink(v) ==
  /\ VisitGoes(v, "find", "update") /\ Spend(v)
  /\ UNCHANGED <<account, faults>>

OpenLink(v, t) ==
  /\ v \in scene.visits /\ mail[t] = "sent" /\ visit[v].at = "idle"
  /\ visit' = [visit EXCEPT ![v] = [at |-> IF link[t] = "live" THEN "find" ELSE "over", token |-> t]]
  /\ UNCHANGED <<account, owner, registered, linkVars, callback, scene, faults>>

FindVisitor(v) ==
  /\ VisitGoes(v, "find", IF account[visit[v].token.of] = "verified" THEN "delete" ELSE "update")
  /\ UNCHANGED <<account, link, faults>>

VerifyUser(v) ==
  /\ VisitGoes(v, "update", "delete")
  /\ account' = [account EXCEPT ![visit[v].token.of] = "verified"]
  /\ UNCHANGED <<link, faults>>

DeleteLink(v) ==
  /\ VisitGoes(v, "delete", "over") /\ Spend(v)
  /\ UNCHANGED <<account, faults>>

\* The request fails: the link can be opened again.
VisitFails(v) ==
  /\ visit[v].at \in {"find", "update", "delete"} /\ VisitGoes(v, visit[v].at, "idle")
  /\ Fault
  /\ UNCHANGED <<account, link>>

-----------------------------------------------------------------------------
(* resolveOAuthIdentity: a transaction, whose statements see what others have *)
(* committed; after a violated unique index, single statements without one.   *)

CallbackGoes(c, from, to, user) ==
  /\ c \in scene.callbacks /\ callback[c].at = from
  /\ callback' = [callback EXCEPT ![c] =
       [at |-> to, user |-> user, verified |-> user # Nobody /\ account'[user] = "verified"]]
  /\ UNCHANGED <<linkVars, visit, scene, faults>>

\* The service refuses an account that was not verified when its row was read.
Resolve(c, from, user) ==
  CallbackGoes(c, from, IF account[user] = "verified" THEN "signedIn" ELSE "refused", user)

ReadOnly == UNCHANGED <<account, owner, registered>>

OwnerOf(c) == owner[IdentityOf[c].subject]

LookForLink(c, from, otherwise) ==
  /\ ReadOnly
  /\ IF OwnerOf(c) # Nobody THEN Resolve(c, from, OwnerOf(c))
                            ELSE CallbackGoes(c, from, otherwise, Nobody)

\* An email that the provider has not verified is not linked to an account that is there.
LookForEmail(c, from, found, missing) ==
  LET e == IdentityOf[c].email IN
  /\ ReadOnly
  /\ IF account[e] = "none" THEN CallbackGoes(c, from, missing, Nobody)
     ELSE CallbackGoes(c, from, IF IdentityOf[c].verified THEN found ELSE "refused", e)

FindLinked(c) == LookForLink(c, "linked", "byEmail")
FindByEmail(c) == LookForEmail(c, "byEmail", "link", "create")

\* The account as it was read is the result, and is refused if it was not verified then.
InsertLink(c, from, otherwise) ==
  LET s == IdentityOf[c].subject  user == callback[c].user IN
  /\ c \in scene.callbacks /\ callback[c].at = from
  /\ callback' = [callback EXCEPT ![c].at =
       IF owner[s] # Nobody THEN otherwise
       ELSE IF callback[c].verified THEN "signedIn" ELSE "refused"]
  /\ owner' = [owner EXCEPT ![s] = IF @ = Nobody THEN user ELSE @]
  /\ UNCHANGED <<account, registered, linkVars, visit, scene, faults>>

LinkExisting(c) == InsertLink(c, "link", "linkedAgain")

\* Mutant: after a conflict the account with the email is taken, linked or not.
TakeByEmail(c) == LookForEmail(c, "linkedAgain", "signedIn", "refused")

\* The account and its link are inserted together, or neither.
CreateWithLink(c) ==
  LET i == IdentityOf[c] IN
  IF account[i.email] = "none" /\ owner[i.subject] = Nobody
  THEN /\ Opened(i.email, IF i.verified THEN "verified" ELSE "unverified")
       /\ owner' = [owner EXCEPT ![i.subject] = i.email]
       /\ CallbackGoes(c, "create", IF i.verified THEN "signedIn" ELSE "refused", i.email)
  ELSE ReadOnly /\ CallbackGoes(c, "create", "linkedAgain", Nobody)

FindLinkedAgain(c) == LookForLink(c, "linkedAgain", "byEmailAgain")

FindByEmailAgain(c) == LookForEmail(c, "byEmailAgain", "relink", "refused")
Relink(c)   == InsertLink(c, "relink", "raced")
FindRaced(c) == LookForLink(c, "raced", "refused")

-----------------------------------------------------------------------------
AccountsNext ==
  \/ \E e \in Emails : Register(e)
  \/ \E t \in Tokens :
       \/ FindUser(t) \/ StoreLink(t) \/ QueueMail(t) \/ MailingFails(t)
       \/ SendMail(t) \/ SendFails(t) \/ ExpireLink(t)
  \/ \E v \in Visits, t \in Tokens : OpenLink(v, t)
  \/ \E v \in Visits : FindVisitor(v) \/ VerifyUser(v) \/ DeleteLink(v) \/ VisitFails(v)
  \/ \E c \in Callbacks :
       \/ FindLinked(c) \/ FindByEmail(c) \/ LinkExisting(c) \/ CreateWithLink(c)
       \/ FindLinkedAgain(c) \/ FindByEmailAgain(c) \/ Relink(c) \/ FindRaced(c)

\* Handlers and email workers go on; the outbox delivers an event that is due again.
AccountsFairness ==
  \A t \in Tokens : t.n = 0 =>
    /\ WF_accountVars(FindUser(t)) /\ WF_accountVars(StoreLink(t))
    /\ WF_accountVars(QueueMail(t)) /\ WF_accountVars(SendMail(t))

AccountsSpec == AccountsInit /\ [][AccountsNext]_accountVars /\ AccountsFairness

-----------------------------------------------------------------------------
\* Sign-ins with one identity end in one account, the one that the identity is linked
\* to, whichever of them wins the races for the link and for the email, and though the
\* provider may name another email each time; and only if it was verified.
SameIdentitySameAccount ==
  \A c \in Callbacks :
    callback[c].at = "signedIn" =>
      callback[c].user = OwnerOf(c) /\ account[callback[c].user] = "verified"

\* A visit spends its link only when the account is verified: whatever fails on the way,
\* and however two visits of one link overlap, nobody is left without.
SpentLinkHasVerified ==
  \A t \in Tokens : link[t] = "spent" => account[t.of] = "verified"

\* With fewer failures than an email job has attempts, every account that is not
\* verified is mailed its link in the end, whatever crashed on the way.
RegistrationReachesMailbox ==
  \A e \in Emails :
    account[e] = "unverified" /\ scene.faults < MailTries
      ~> mail[[of |-> e, n |-> 0]] = "sent" \/ account[e] = "verified"
=============================================================================
