------------------------------ MODULE UserProofs ------------------------------
(***************************************************************************)
(* Proofs about a customer's sessions, account and cart, for every set of  *)
(* requests and every bound: one usable token per family, one account per  *)
(* identity, links that verified an account, pieces that stay gone.        *)
(***************************************************************************)
EXTENDS Accounts, Sessions, CartLine, TLAPS

-----------------------------------------------------------------------------
(* Sessions.                                                                 *)

\* Only tokens that have been created can be exchanged.
ActiveExist == \A t \in TokenIds : tokens[t] = "active" => t < nextToken

SessionsInv == SessionsTypeOK /\ ActiveExist /\ OneUsablePerFamily

-----------------------------------------------------------------------------
LEMMA SessionsInitInv == SessionsInit => SessionsInv
  BY MaxTokenIsNat DEF SessionsInit, SessionsInv, SessionsTypeOK, ActiveExist,
                       OneUsablePerFamily, TokenIds

\* A step that activates no token keeps what is said about active ones.
LEMMA NothingActivated ==
  ASSUME SessionsInv, nextToken' = nextToken,
         \A t \in TokenIds : tokens'[t] = "active" => tokens[t] = "active"
  PROVE  ActiveExist' /\ OneUsablePerFamily'
  BY DEF SessionsInv, ActiveExist, OneUsablePerFamily

\* A request that goes on keeps its token.
LEMMA RequestGoes ==
  ASSUME SessionsInv, NEW q \in Refreshes, NEW a,
         NEW b \in {"idle", "find", "latest", "rotate", "scan", "revoke", "over"},
         RefreshGoes(q, a, b)
  PROVE  refresh' \in [Refreshes ->
           [at : {"idle", "find", "latest", "rotate", "scan", "revoke", "over"},
            token : TokenIds]]
  BY DEF SessionsInv, SessionsTypeOK, RefreshGoes

LEMMA SessionsStep == SessionsInv /\ [SessionsNext]_sessionVars => SessionsInv'
  <1> SUFFICES ASSUME SessionsInv, [SessionsNext]_sessionVars
               PROVE  SessionsInv'
      OBVIOUS
  <1> USE MaxTokenIsNat DEF TokenIds
  <1>1. CASE SignIn
    <2>1. SessionsTypeOK'
          BY <1>1 DEF SignIn, SessionsInv, SessionsTypeOK
    <2>2. \A t \in TokenIds : tokens'[t] = "active" => t = 0
          BY <1>1 DEF SignIn, SessionsInv, SessionsTypeOK, ActiveExist
    <2> QED
        BY <1>1, <2>1, <2>2 DEF SignIn, SessionsInv, ActiveExist, OneUsablePerFamily
  <1>2. ASSUME NEW q \in Refreshes, NEW t \in TokenIds, Present(q, t)
        PROVE  SessionsInv'
        BY <1>2, NothingActivated DEF Present, SessionsInv, SessionsTypeOK
  <1>3. ASSUME NEW q \in Refreshes, FindToken(q)
        PROVE  SessionsInv'
    <2> DEFINE next == CASE tokens[TokenOf(q)] = "active" -> "latest"
                         [] tokens[TokenOf(q)] = "revoked" -> "scan"
                         [] tokens[TokenOf(q)] = "none" -> "over"
    <2>1. TokenOf(q) \in TokenIds
          BY DEF TokenOf, SessionsInv, SessionsTypeOK
    <2>2. tokens[TokenOf(q)] \in {"none", "active", "revoked"}
          BY <2>1 DEF SessionsInv, SessionsTypeOK
    <2>3. next \in {"latest", "scan", "over"}
          BY <2>2
    <2>4. RefreshGoes(q, "find", next) /\ UNCHANGED <<tokens, nextToken, scanned>>
          BY <1>3 DEF FindToken
    <2> HIDE DEF next
    <2> QED
        BY <2>3, <2>4, NothingActivated, RequestGoes DEF SessionsInv, SessionsTypeOK
  <1>4. ASSUME NEW q \in Refreshes, FindLatest(q)
        PROVE  SessionsInv'
        BY <1>4, NothingActivated, RequestGoes DEF FindLatest, SessionsInv, SessionsTypeOK
  <1>5. ASSUME NEW q \in Refreshes, Rotate(q)
        PROVE  SessionsInv'
    <2> DEFINE u == TokenOf(q)
    <2>1. u \in TokenIds /\ nextToken \in TokenIds /\ scanned' = scanned
          BY <1>5 DEF Rotate, TokenOf, SessionsInv, SessionsTypeOK
    <2>2. RefreshGoes(q, "rotate", "over")
          BY <1>5 DEF Rotate
    <2>3. CASE tokens[u] = "active"
      <3>1. /\ tokens' = [tokens EXCEPT ![u] = "revoked", ![nextToken] = "active"]
            /\ nextToken' = nextToken + 1
            BY <1>5, <2>3 DEF Rotate
      <3>2. u < nextToken
            BY <2>1, <2>3 DEF SessionsInv, ActiveExist
      <3>3. \A t \in TokenIds : tokens'[t] = "active" => t = nextToken
            BY <2>1, <2>3, <3>1, <3>2 DEF SessionsInv, SessionsTypeOK, OneUsablePerFamily
      <3>4. SessionsTypeOK'
            BY <2>1, <2>2, <3>1, RequestGoes DEF SessionsInv, SessionsTypeOK
      <3>5. nextToken < nextToken'
            BY <2>1, <3>1
      <3> QED
          BY <3>3, <3>4, <3>5 DEF SessionsInv, ActiveExist, OneUsablePerFamily
    <2>4. CASE tokens[u] # "active"
      <3>1. UNCHANGED <<tokens, nextToken>>
            BY <1>5, <2>4 DEF Rotate
      <3> QED
          BY <2>1, <2>2, <3>1, NothingActivated, RequestGoes DEF SessionsInv, SessionsTypeOK
    <2> QED
        BY <2>3, <2>4
  <1>6. ASSUME NEW q \in Refreshes, ScanFamily(q)
        PROVE  SessionsInv'
        BY <1>6, NothingActivated, RequestGoes DEF ScanFamily, SessionsInv, SessionsTypeOK
  <1>7. ASSUME NEW q \in Refreshes, RevokeFamily(q)
        PROVE  SessionsInv'
    <2>1. /\ RefreshGoes(q, "revoke", "over") /\ nextToken' = nextToken
          /\ tokens' = [t \in TokenIds |-> IF t \in scanned[q] /\ tokens[t] # "none"
                                           THEN "revoked" ELSE tokens[t]]
          /\ scanned' = [scanned EXCEPT ![q] = {}]
          BY <1>7 DEF RevokeFamily
    <2>2. SessionsTypeOK'
          BY <2>1, RequestGoes DEF SessionsInv, SessionsTypeOK
    <2> QED
        BY <2>1, <2>2, NothingActivated DEF SessionsInv
  <1>8. ASSUME NEW S, LogOut(S)
        PROVE  SessionsInv'
    <2>1. /\ tokens' = [t \in TokenIds |-> IF t \in S THEN "none" ELSE tokens[t]]
          /\ UNCHANGED <<nextToken, refresh, scanned>>
          BY <1>8 DEF LogOut
    <2>2. SessionsTypeOK'
          BY <2>1 DEF SessionsInv, SessionsTypeOK
    <2> QED
        BY <2>1, <2>2, NothingActivated DEF SessionsInv
  <1>9. CASE UNCHANGED sessionVars
        BY <1>9 DEF sessionVars, SessionsInv, SessionsTypeOK, ActiveExist, OneUsablePerFamily
  <1> QED
      BY <1>1, <1>2, <1>3, <1>4, <1>5, <1>6, <1>7, <1>8, <1>9 DEF SessionsNext

LEMMA SessionsInvariant == SessionsSpec => []SessionsInv
  BY SessionsInitInv, SessionsStep, PTL DEF SessionsSpec

-----------------------------------------------------------------------------
\* The rows of a family, the requests and what revocations have found keep their types.
THEOREM SessionsTypes == SessionsSpec => []SessionsTypeOK
  <1>1. SessionsInv => SessionsTypeOK
        BY DEF SessionsInv
  <1> QED
      BY <1>1, SessionsInvariant, PTL

\* However many requests exchange one refresh token at once, and whatever revocations
\* and logouts run between their statements, at most one token of the family can be
\* exchanged next (rotateRefreshToken).
THEOREM SessionsOneUsable == SessionsSpec => []OneUsablePerFamily
  <1>1. SessionsInv => OneUsablePerFamily
        BY DEF SessionsInv
  <1> QED
      BY <1>1, SessionsInvariant, PTL

-----------------------------------------------------------------------------
(* Accounts.                                                                 *)

\* A visit about to delete its link has found or made the account verified.
VisitsVerify ==
  \A v \in Visits : visit[v].at = "delete" => account[visit[v].token.of] = "verified"

\* Who is signed in has the account its identity is linked to, and an account that a
\* sign-in has read as verified still is.
CallbackSound(c) ==
  /\ callback[c].at \in {"link", "relink", "signedIn"} => callback[c].user \in Emails
  /\ callback[c].verified => callback[c].user \in Emails /\ account[callback[c].user] = "verified"
  /\ callback[c].at = "signedIn" =>
       callback[c].user = OwnerOf(c) /\ account[callback[c].user] = "verified"

CallbackStates == {"linked", "byEmail", "link", "create", "linkedAgain", "byEmailAgain",
                   "relink", "raced", "signedIn", "refused"}

CallbackShape == [at : CallbackStates, user : Emails \cup {Nobody}, verified : BOOLEAN]

VisitShape == [at : {"idle", "find", "update", "delete", "over"}, token : Tokens]

AccountsShape ==
  /\ account \in [Emails -> {"none", "unverified", "verified"}]
  /\ owner \in [Subjects -> Emails \cup {Nobody}]
  /\ link \in [Tokens -> {"none", "live", "spent", "expired"}]
  /\ visit \in [Visits -> VisitShape]
  /\ callback \in [Callbacks -> CallbackShape]

AccountsInv ==
  /\ AccountsShape /\ VisitsVerify /\ SpentLinkHasVerified
  /\ \A c \in Callbacks : CallbackSound(c)

\* Accounts stay verified, and identities stay linked.
Grows ==
  /\ \A e \in Emails : account[e] = "verified" => account'[e] = "verified"
  /\ \A s \in Subjects : owner[s] # Nobody => owner'[s] = owner[s]

LEMMA IdentityShape ==
  ASSUME NEW c \in Callbacks
  PROVE  IdentityOf[c].subject \in Subjects /\ IdentityOf[c].email \in Emails
  BY AccountsAssumption

\* What other steps do to accounts and links unsettles no sign-in.
LEMMA SignInsStay ==
  ASSUME AccountsInv, Grows, NEW c \in Callbacks, callback'[c] = callback[c]
  PROVE  CallbackSound(c)'
  <1>1. callback[c] \in CallbackShape
        BY DEF AccountsInv, AccountsShape
  <1>2. callback[c].user \in Emails \cup {Nobody}
        BY <1>1 DEF CallbackShape
  <1>3. CASE callback[c].user \in Emails
        BY <1>3, AccountsAssumption, IdentityShape
        DEF AccountsInv, CallbackSound, Grows, OwnerOf
  <1>4. CASE callback[c].user = Nobody
    <2>1. ~callback[c].verified /\ callback[c].at \notin {"link", "relink", "signedIn"}
          BY <1>4, AccountsAssumption DEF AccountsInv, CallbackSound
    <2> QED
        BY <2>1 DEF CallbackSound
  <1> QED
      BY <1>2, <1>3, <1>4


\* A step of one sign-in that leaves it, and the accounts, sound.
LEMMA SignInStep ==
  ASSUME AccountsInv, AccountsShape', Grows, NEW c \in Callbacks, CallbackSound(c)',
         \A d \in Callbacks \ {c} : callback'[d] = callback[d],
         UNCHANGED <<link, visit>>
  PROVE  AccountsInv'
  <1>1. \A d \in Callbacks : CallbackSound(d)'
        BY SignInsStay
  <1>2. VisitsVerify'
        BY DEF AccountsInv, AccountsShape, VisitsVerify, VisitShape, Tokens, Grows
  <1>3. SpentLinkHasVerified'
        BY DEF AccountsInv, SpentLinkHasVerified, Tokens, Grows
  <1> QED
      BY <1>1, <1>2, <1>3 DEF AccountsInv

\* A step of the mails and links, or of a visit, that changes no identity.
LEMMA OtherStep ==
  ASSUME AccountsInv, AccountsShape', Grows, UNCHANGED callback,
         VisitsVerify', SpentLinkHasVerified'
  PROVE  AccountsInv'
  BY SignInsStay DEF AccountsInv

\* A sign-in goes on with the account it has read last, or with none.
LEMMA CallbackGoesOn ==
  ASSUME AccountsInv, NEW c \in Callbacks, NEW a, NEW b \in CallbackStates,
         NEW user \in Emails \cup {Nobody}, CallbackGoes(c, a, b, user),
         account' \in [Emails -> {"none", "unverified", "verified"}],
         owner' \in [Subjects -> Emails \cup {Nobody}], Grows,
         b \in {"link", "relink", "signedIn"} => user \in Emails,
         b = "signedIn" => user = OwnerOf(c)' /\ account'[user] = "verified"
  PROVE  AccountsInv'
  <1> DEFINE r == [at |-> b, user |-> user,
                   verified |-> user # Nobody /\ account'[user] = "verified"]
  <1>1. callback' = [callback EXCEPT ![c] = r] /\ UNCHANGED <<link, visit>>
        BY DEF CallbackGoes, linkVars
  <1>2. r.at = b /\ r.user = user /\ (r.verified => user \in Emails /\ account'[user] = "verified")
        OBVIOUS
  <1>3. r \in CallbackShape
        BY DEF CallbackShape
  <1> HIDE DEF r
  <1>4. callback'[c] = r /\ \A d \in Callbacks \ {c} : callback'[d] = callback[d]
        BY <1>1 DEF AccountsInv, AccountsShape
  <1>5. AccountsShape'
        BY <1>1, <1>3 DEF AccountsInv, AccountsShape
  <1>6. CallbackSound(c)'
        BY <1>2, <1>4 DEF CallbackSound
  <1> QED
      BY <1>1, <1>4, <1>5, <1>6, SignInStep

LEMMA SignInSteps ==
  ASSUME AccountsInv, NEW c \in Callbacks,
         \/ FindLinked(c) \/ FindByEmail(c) \/ LinkExisting(c) \/ CreateWithLink(c)
         \/ FindLinkedAgain(c) \/ FindByEmailAgain(c) \/ Relink(c) \/ FindRaced(c)
  PROVE  AccountsInv'
  <1> DEFINE s == IdentityOf[c].subject
             e == IdentityOf[c].email
  <1>1. /\ s \in Subjects /\ e \in Emails /\ owner[s] \in Emails \cup {Nobody}
        /\ account \in [Emails -> {"none", "unverified", "verified"}]
        /\ owner \in [Subjects -> Emails \cup {Nobody}]
        BY IdentityShape DEF AccountsInv, AccountsShape
  <1>2. ASSUME NEW a, NEW b \in {"byEmail", "byEmailAgain", "refused"}, LookForLink(c, a, b)
        PROVE  AccountsInv'
    <2>1. Grows /\ UNCHANGED <<account, owner>>
          BY <1>2 DEF LookForLink, ReadOnly, Grows
    <2>2. CASE owner[s] # Nobody
      <3>1. CallbackGoes(c, a, IF account[owner[s]] = "verified" THEN "signedIn" ELSE "refused",
                         owner[s])
            BY <1>2, <2>2 DEF LookForLink, Resolve, OwnerOf
      <3> QED
          BY <1>1, <2>1, <2>2, <3>1, CallbackGoesOn DEF CallbackStates, OwnerOf
    <2>3. CASE owner[s] = Nobody
      <3>1. CallbackGoes(c, a, b, Nobody)
            BY <1>2, <2>3 DEF LookForLink, OwnerOf
      <3> QED
          BY <1>1, <2>1, <3>1, CallbackGoesOn DEF CallbackStates
    <2> QED
        BY <2>2, <2>3
  <1>3. ASSUME NEW a, NEW b \in {"link", "relink"}, NEW d \in {"create", "refused"},
               LookForEmail(c, a, b, d)
        PROVE  AccountsInv'
    <2>1. Grows /\ UNCHANGED <<account, owner>>
          BY <1>3 DEF LookForEmail, ReadOnly, Grows
    <2>2. \/ CallbackGoes(c, a, d, Nobody)
          \/ CallbackGoes(c, a, b, e)
          \/ CallbackGoes(c, a, "refused", e)
          BY <1>3 DEF LookForEmail
    <2> QED
        BY <1>1, <2>1, <2>2, CallbackGoesOn DEF CallbackStates
  <1>4. ASSUME NEW a \in {"link", "relink"}, NEW b \in {"linkedAgain", "raced"},
               InsertLink(c, a, b)
        PROVE  AccountsInv'
    <2> DEFINE user == callback[c].user
               to == IF owner[s] # Nobody THEN b
                     ELSE IF callback[c].verified THEN "signedIn" ELSE "refused"
    <2>1. /\ callback[c].at = a /\ callback[c] \in CallbackShape
          /\ callback' = [callback EXCEPT ![c] = [callback[c] EXCEPT !.at = to]]
          /\ owner' = [owner EXCEPT ![s] = IF @ = Nobody THEN user ELSE @]
          /\ UNCHANGED <<account, link, visit>>
          BY <1>4 DEF InsertLink, linkVars, AccountsInv, AccountsShape
    <2>2. user \in Emails /\ (callback[c].verified => account[user] = "verified")
          BY <2>1 DEF AccountsInv, CallbackSound
    <2>3. /\ owner' \in [Subjects -> Emails \cup {Nobody}]
          /\ owner'[s] = IF owner[s] = Nobody THEN user ELSE owner[s]
          /\ \A t \in Subjects : owner[t] # Nobody => owner'[t] = owner[t]
          BY <1>1, <2>1, <2>2
    <2>4. Grows
          BY <2>1, <2>3 DEF Grows
    <2>5. to \in {"linkedAgain", "raced", "signedIn", "refused"}
          OBVIOUS
    <2>6. to = "signedIn" => callback[c].verified /\ owner[s] = Nobody
          OBVIOUS
    <2> HIDE DEF to
    <2>7. /\ callback'[c] = [callback[c] EXCEPT !.at = to]
          /\ \A d \in Callbacks \ {c} : callback'[d] = callback[d]
          BY <2>1 DEF AccountsInv, AccountsShape
    <2>8. callback'[c] \in CallbackShape
          BY <2>1, <2>5, <2>7 DEF CallbackShape, CallbackStates
    <2>9. AccountsShape'
          BY <2>1, <2>3, <2>7, <2>8 DEF AccountsInv, AccountsShape
    <2>10. callback'[c].at = to /\ callback'[c].user = user
           /\ callback'[c].verified = callback[c].verified
           BY <2>1, <2>7 DEF CallbackShape
    <2>11. CallbackSound(c)'
           BY <2>1, <2>2, <2>3, <2>5, <2>6, <2>10 DEF CallbackSound, OwnerOf
    <2> QED
        BY <2>1, <2>4, <2>7, <2>9, <2>11, SignInStep
  <1>5. CASE CreateWithLink(c)
    <2>1. CASE account[e] = "none" /\ owner[s] = Nobody
      <3> DEFINE to == IF IdentityOf[c].verified THEN "signedIn" ELSE "refused"
                 state == IF IdentityOf[c].verified THEN "verified" ELSE "unverified"
      <3>1. /\ account' = [account EXCEPT ![e] = state]
            /\ owner' = [owner EXCEPT ![s] = e]
            /\ CallbackGoes(c, "create", to, e)
            BY <1>5, <2>1 DEF CreateWithLink, Opened
      <3>2. /\ account'[e] = state /\ owner'[s] = e
            /\ account' \in [Emails -> {"none", "unverified", "verified"}]
            /\ owner' \in [Subjects -> Emails \cup {Nobody}]
            BY <1>1, <3>1
      <3>3. Grows
            BY <1>1, <2>1, <3>1 DEF Grows
      <3>4. to \in CallbackStates /\ (to = "signedIn" => state = "verified")
            /\ to \notin {"link", "relink"}
            BY DEF CallbackStates
      <3> HIDE DEF to, state
      <3> QED
          BY <1>1, <3>1, <3>2, <3>3, <3>4, CallbackGoesOn DEF OwnerOf
    <2>2. CASE ~(account[e] = "none" /\ owner[s] = Nobody)
      <3>1. UNCHANGED <<account, owner>> /\ CallbackGoes(c, "create", "linkedAgain", Nobody)
            BY <1>5, <2>2 DEF CreateWithLink, ReadOnly
      <3>2. Grows
            BY <3>1 DEF Grows
      <3> QED
          BY <1>1, <3>1, <3>2, CallbackGoesOn DEF CallbackStates
    <2> QED
        BY <2>1, <2>2
  <1> QED
      BY <1>2, <1>3, <1>4, <1>5
      DEF FindLinked, FindByEmail, LinkExisting, FindLinkedAgain, FindByEmailAgain, Relink,
          FindRaced


\* Registration, the mails, and the visits of links.
LEMMA MailSteps ==
  ASSUME AccountsInv, NEW t \in Tokens,
         \/ FindUser(t) \/ StoreLink(t) \/ QueueMail(t) \/ MailingFails(t)
         \/ SendMail(t) \/ SendFails(t) \/ ExpireLink(t)
  PROVE  AccountsInv'
  <1>1. /\ UNCHANGED <<account, owner, visit, callback>>
        /\ link' = link \/ \E s \in {"live", "expired"} : link' = [link EXCEPT ![t] = s]
        BY DEF FindUser, StoreLink, QueueMail, MailingFails, SendMail, SendFails, ExpireLink,
               Mailing
  <1>2. AccountsShape'
        BY <1>1 DEF AccountsInv, AccountsShape
  <1>3. SpentLinkHasVerified'
        BY <1>1 DEF AccountsInv, AccountsShape, SpentLinkHasVerified
  <1>4. Grows /\ VisitsVerify'
        BY <1>1 DEF AccountsInv, Grows, VisitsVerify
  <1> QED
      BY <1>1, <1>2, <1>3, <1>4, OtherStep

LEMMA VisitSteps ==
  ASSUME AccountsInv, NEW v \in Visits,
         \/ FindVisitor(v) \/ VerifyUser(v) \/ DeleteLink(v) \/ VisitFails(v)
         \/ \E t \in Tokens : OpenLink(v, t)
  PROVE  AccountsInv'
  <1> DEFINE e == visit[v].token.of
  <1>1. /\ visit[v] \in VisitShape /\ visit[v].token \in Tokens /\ e \in Emails
        BY DEF AccountsInv, AccountsShape, VisitShape, Tokens
  <1>2. \A u \in Visits : visit[u].token.of \in Emails
        BY DEF AccountsInv, AccountsShape, VisitShape, Tokens
  <1>3. ASSUME NEW to \in {"idle", "update", "delete", "over"},
               visit' = [visit EXCEPT ![v].at = to],
               \/ account' = account
               \/ account' = [account EXCEPT ![e] = "verified"],
               to = "delete" => account'[e] = "verified",
               link' = link \/ (Spend(v) /\ account[e] = "verified"),
               UNCHANGED <<owner, callback>>
        PROVE  AccountsInv'
    <2>1. /\ visit'[v].at = to /\ visit'[v].token = visit[v].token
          /\ \A u \in Visits \ {v} : visit'[u] = visit[u]
          /\ visit' \in [Visits -> VisitShape]
          BY <1>1, <1>3 DEF AccountsInv, AccountsShape, VisitShape
    <2>2. account' \in [Emails -> {"none", "unverified", "verified"}]
          BY <1>1, <1>3 DEF AccountsInv, AccountsShape
    <2>3. Grows
          BY <1>1, <1>3 DEF AccountsInv, AccountsShape, Grows
    <2>4. /\ link' \in [Tokens -> {"none", "live", "spent", "expired"}]
          /\ \A t \in Tokens : link'[t] = "spent" =>
               link[t] = "spent" \/ (t.of = e /\ account[e] = "verified")
          BY <1>1, <1>3 DEF AccountsInv, AccountsShape, Spend
    <2>5. AccountsShape'
          BY <1>3, <2>1, <2>2, <2>4 DEF AccountsInv, AccountsShape
    <2>6. VisitsVerify'
          BY <1>2, <1>3, <2>1, <2>3 DEF AccountsInv, VisitsVerify, Grows
    <2>7. SpentLinkHasVerified'
      <3>1. \A t \in Tokens : t.of \in Emails
            BY DEF Tokens
      <3> QED
          BY <1>1, <2>3, <2>4, <3>1 DEF AccountsInv, SpentLinkHasVerified, Grows
    <2> QED
        BY <1>3, <2>3, <2>5, <2>6, <2>7, OtherStep
  <1>4. CASE FindVisitor(v)
        BY <1>3, <1>4 DEF FindVisitor, VisitGoes
  <1>5. CASE VerifyUser(v)
    <2>1. account' = [account EXCEPT ![e] = "verified"] /\ account'[e] = "verified"
          BY <1>1, <1>5 DEF VerifyUser, AccountsInv, AccountsShape
    <2> QED
        BY <1>3, <1>5, <2>1 DEF VerifyUser, VisitGoes
  <1>6. CASE DeleteLink(v)
    <2>1. account[e] = "verified"
          BY <1>6 DEF DeleteLink, VisitGoes, AccountsInv, VisitsVerify
    <2> QED
        BY <1>3, <1>6, <2>1 DEF DeleteLink, VisitGoes
  <1>7. CASE VisitFails(v)
        BY <1>3, <1>7 DEF VisitFails, VisitGoes
  <1>8. ASSUME NEW t \in Tokens, OpenLink(v, t)
        PROVE  AccountsInv'
    <2>1. PICK a \in {"find", "over"} :
            visit' = [visit EXCEPT ![v] = [at |-> a, token |-> t]]
          BY <1>8 DEF OpenLink
    <2>2. UNCHANGED <<account, owner, link, callback>>
          BY <1>8 DEF OpenLink, linkVars
    <2>3. [at |-> a, token |-> t] \in VisitShape
          BY DEF VisitShape
    <2>4. AccountsShape' /\ VisitsVerify'
          BY <2>1, <2>2, <2>3 DEF AccountsInv, AccountsShape, VisitsVerify
    <2>5. Grows /\ SpentLinkHasVerified'
          BY <2>2 DEF AccountsInv, Grows, SpentLinkHasVerified
    <2> QED
        BY <2>2, <2>4, <2>5, OtherStep
  <1> QED
      BY <1>4, <1>5, <1>6, <1>7, <1>8

LEMMA AccountsInitInv == AccountsInit => AccountsInv
  <1> SUFFICES ASSUME AccountsInit
               PROVE  AccountsInv
      OBVIOUS
  <1> DEFINE t == CHOOSE t \in Tokens : TRUE
  <1>1. t \in Tokens
    <2>1. PICK e \in Emails : TRUE
          BY AccountsAssumption
    <2>2. [of |-> e, n |-> 0] \in Tokens
          BY AccountsAssumption DEF Tokens
    <2> QED
        BY <2>2
  <1>2. /\ visit = [v \in Visits |-> [at |-> "idle", token |-> t]]
        /\ callback = [c \in Callbacks |-> [at |-> "linked", user |-> Nobody, verified |-> FALSE]]
        /\ account = [e \in Emails |-> "none"] /\ owner = [s \in Subjects |-> Nobody]
        /\ link = [u \in Tokens |-> "none"]
        BY DEF AccountsInit
  <1> HIDE DEF t
  <1>3. visit \in [Visits -> VisitShape] /\ VisitsVerify
        BY <1>1, <1>2 DEF VisitShape, VisitsVerify
  <1>4. callback \in [Callbacks -> CallbackShape] /\ \A c \in Callbacks : CallbackSound(c)
        BY <1>2 DEF CallbackShape, CallbackStates, CallbackSound
  <1>5. /\ account \in [Emails -> {"none", "unverified", "verified"}]
        /\ owner \in [Subjects -> Emails \cup {Nobody}]
        /\ link \in [Tokens -> {"none", "live", "spent", "expired"}]
        /\ SpentLinkHasVerified
        BY <1>2 DEF SpentLinkHasVerified
  <1> QED
      BY <1>3, <1>4, <1>5 DEF AccountsInv, AccountsShape

LEMMA AccountsStep == AccountsInv /\ [AccountsNext]_accountVars => AccountsInv'
  <1> SUFFICES ASSUME AccountsInv, [AccountsNext]_accountVars
               PROVE  AccountsInv'
      OBVIOUS
  <1>1. ASSUME NEW e \in Emails, Register(e)
        PROVE  AccountsInv'
    <2>1. /\ account[e] = "none" /\ account' = [account EXCEPT ![e] = "unverified"]
          /\ UNCHANGED <<owner, link, visit, callback>>
          BY <1>1 DEF Register, Opened, linkVars
    <2>2. AccountsShape' /\ Grows
          BY <2>1 DEF AccountsInv, AccountsShape, Grows
    <2>3. SpentLinkHasVerified'
          BY <2>1, <2>2 DEF AccountsInv, SpentLinkHasVerified, Grows, Tokens
    <2>4. VisitsVerify'
          BY <2>1, <2>2 DEF AccountsInv, AccountsShape, VisitsVerify, VisitShape, Grows, Tokens
    <2> QED
        BY <2>1, <2>2, <2>3, <2>4, OtherStep
  <1>2. CASE UNCHANGED accountVars
        BY <1>2 DEF accountVars, AccountsInv, AccountsShape, VisitsVerify,
                    SpentLinkHasVerified, CallbackSound, OwnerOf
  <1> QED
      BY <1>1, <1>2, MailSteps, VisitSteps, SignInSteps DEF AccountsNext

LEMMA AccountsInvariant == AccountsInit /\ [][AccountsNext]_accountVars => []AccountsInv
  BY AccountsInitInv, AccountsStep, PTL

\* A mail that is not out yet has attempts left.
MailInv ==
  /\ registered \subseteq Emails
  /\ mailing \in [Tokens -> {"idle", "found", "stored", "over"}]
  /\ mail \in [Tokens -> {"none", "waiting", "failed", "sent"}]
  /\ mailTries \in [Tokens -> 0 .. MailTries]
  /\ \A t \in Tokens : mail[t] \in {"none", "waiting"} => mailTries[t] < MailTries
  /\ scene \in Scenes /\ faults \in Nat

LEMMA MailInitInv == AccountsInit => MailInv
  BY AccountsAssumption DEF AccountsInit, MailInv

\* What sends no mail, but may register an account.
LEMMA NothingMailed ==
  ASSUME MailInv, UNCHANGED <<mailing, mail, mailTries, scene>>, registered' \subseteq Emails,
         faults' \in Nat
  PROVE  MailInv'
  BY DEF MailInv

LEMMA MailStep == AccountsInv /\ MailInv /\ [AccountsNext]_accountVars => MailInv'
  <1> SUFFICES ASSUME AccountsInv, MailInv, [AccountsNext]_accountVars
               PROVE  MailInv'
      OBVIOUS
  <1>1. Fault => faults' \in Nat
        BY DEF Fault, MailInv
  <1>2. ASSUME NEW e \in Emails, Register(e)
        PROVE  MailInv'
        BY <1>2, NothingMailed DEF Register, Opened, linkVars, MailInv
  <1>3. ASSUME NEW t \in Tokens,
               FindUser(t) \/ StoreLink(t) \/ QueueMail(t) \/ MailingFails(t)
        PROVE  MailInv'
    <2>1. t.of \in Emails
          BY DEF Tokens
    <2>2. /\ mailing' \in [Tokens -> {"idle", "found", "stored", "over"}]
          /\ UNCHANGED <<mailTries, scene>>
          BY <1>3 DEF FindUser, StoreLink, QueueMail, MailingFails, Mailing, MailInv
    <2>3. registered' \subseteq Emails
          BY <1>3 DEF FindUser, StoreLink, QueueMail, MailingFails, Handled, MailInv
    <2>4. \/ mail' = mail
          \/ mail' = [mail EXCEPT ![t] = "waiting"] /\ mail[t] = "none"
          \/ mail' = [mail EXCEPT ![t] = mail[t]]
          BY <1>3 DEF FindUser, StoreLink, QueueMail, MailingFails
    <2>5. /\ mail' \in [Tokens -> {"none", "waiting", "failed", "sent"}]
          /\ \A u \in Tokens : mail'[u] \in {"none", "waiting"} => mail[u] \in {"none", "waiting"}
          BY <2>4 DEF MailInv
    <2>6. faults' \in Nat
          BY <1>1, <1>3 DEF FindUser, StoreLink, QueueMail, MailingFails, MailInv
    <2> QED
        BY <2>2, <2>3, <2>5, <2>6 DEF MailInv
  <1>4. ASSUME NEW t \in Tokens, SendMail(t)
        PROVE  MailInv'
        BY <1>4 DEF SendMail, MailInv
  <1>5. ASSUME NEW t \in Tokens, SendFails(t)
        PROVE  MailInv'
    <2>1. /\ mailTries[t] \in Nat /\ mailTries[t] < MailTries /\ mailTries[t] + 1 \in 0 .. MailTries
          BY <1>5, AccountsAssumption DEF SendFails, MailInv
    <2>2. /\ mailTries' = [mailTries EXCEPT ![t] = mailTries[t] + 1]
          /\ mail[t] = "waiting"
          /\ mail' = [mail EXCEPT ![t] = IF mailTries[t] + 1 = MailTries THEN "failed" ELSE mail[t]]
          /\ UNCHANGED <<registered, mailing, scene>> /\ faults' \in Nat
          BY <1>1, <1>5 DEF SendFails
    <2>3. /\ mailTries' \in [Tokens -> 0 .. MailTries]
          /\ mail' \in [Tokens -> {"none", "waiting", "failed", "sent"}]
          BY <2>1, <2>2 DEF MailInv
    <2>4. \A u \in Tokens : mail'[u] \in {"none", "waiting"} => mailTries'[u] < MailTries
      <3> SUFFICES ASSUME NEW u \in Tokens, mail'[u] \in {"none", "waiting"}
                   PROVE  mailTries'[u] < MailTries
          OBVIOUS
      <3>1. CASE u = t
            BY <2>1, <2>2, <3>1, AccountsAssumption DEF MailInv
      <3>2. CASE u # t
            BY <2>2, <3>2 DEF MailInv
      <3> QED
          BY <3>1, <3>2
    <2> QED
        BY <2>2, <2>3, <2>4 DEF MailInv
  <1>6. ASSUME NEW t \in Tokens, ExpireLink(t)
        PROVE  MailInv'
        BY <1>6 DEF ExpireLink, MailInv
  <1>7. ASSUME NEW v \in Visits,
               \/ FindVisitor(v) \/ VerifyUser(v) \/ DeleteLink(v) \/ VisitFails(v)
               \/ \E t \in Tokens : OpenLink(v, t)
        PROVE  MailInv'
    <2>1. UNCHANGED <<registered, mailing, mail, mailTries, scene>>
          BY <1>7 DEF FindVisitor, VerifyUser, DeleteLink, VisitFails, OpenLink, VisitGoes, linkVars
    <2>2. faults' \in Nat
          BY <1>1, <1>7 DEF FindVisitor, VerifyUser, DeleteLink, VisitFails, OpenLink, MailInv
    <2> QED
        BY <2>1, <2>2, NothingMailed DEF MailInv
  <1>8. ASSUME NEW c \in Callbacks,
               \/ FindLinked(c) \/ FindByEmail(c) \/ LinkExisting(c) \/ CreateWithLink(c)
               \/ FindLinkedAgain(c) \/ FindByEmailAgain(c) \/ Relink(c) \/ FindRaced(c)
        PROVE  MailInv'
    <2>1. \A from, to, user : CallbackGoes(c, from, to, user)
            => UNCHANGED <<mailing, mail, mailTries, scene, faults>>
          BY DEF CallbackGoes, linkVars
    <2>2. \A from, to : InsertLink(c, from, to)
            => UNCHANGED <<registered, mailing, mail, mailTries, scene, faults>>
          BY DEF InsertLink, linkVars
    <2>3. \A from, to : LookForLink(c, from, to)
            => UNCHANGED <<registered, mailing, mail, mailTries, scene, faults>>
          BY <2>1 DEF LookForLink, ReadOnly, Resolve
    <2>4. \A from, to, other : LookForEmail(c, from, to, other)
            => UNCHANGED <<registered, mailing, mail, mailTries, scene, faults>>
          BY <2>1 DEF LookForEmail, ReadOnly
    <2>5. CreateWithLink(c) => /\ UNCHANGED <<mailing, mail, mailTries, scene, faults>>
                               /\ registered' \subseteq Emails
          BY <2>1, IdentityShape DEF CreateWithLink, ReadOnly, Opened, MailInv
    <2>6. /\ UNCHANGED <<mailing, mail, mailTries, scene, faults>>
          /\ registered' \subseteq Emails
          BY <1>8, <2>2, <2>3, <2>4, <2>5
          DEF FindLinked, FindByEmail, LinkExisting, FindLinkedAgain, FindByEmailAgain, Relink,
              FindRaced, MailInv
    <2> QED
        BY <2>6, NothingMailed DEF MailInv
  <1>9. CASE UNCHANGED accountVars
        BY <1>9 DEF accountVars, MailInv
  <1> QED
      BY <1>2, <1>3, <1>4, <1>5, <1>6, <1>7, <1>8, <1>9 DEF AccountsNext

LEMMA MailTypes == AccountsInv /\ MailInv => AccountsTypeOK
  BY DEF AccountsInv, AccountsShape, MailInv, AccountsTypeOK, VisitShape, CallbackShape,
         CallbackStates

\* Accounts, identities, links, mails, visits and sign-ins keep their types: a mail has
\* no attempt after its last.
THEOREM AccountsTypes == AccountsSpec => []AccountsTypeOK
  BY AccountsInitInv, AccountsStep, MailInitInv, MailStep, MailTypes, PTL DEF AccountsSpec

\* For any number of sign-ins with any identities: those with one identity end in one
\* account, and it is verified (resolveOAuthIdentity and its fallback after a conflict).
THEOREM OneAccountPerIdentity == AccountsSpec => []SameIdentitySameAccount
  <1>1. AccountsInv => SameIdentitySameAccount
        BY DEF AccountsInv, CallbackSound, SameIdentitySameAccount
  <1> QED
      BY <1>1, AccountsInvariant, PTL DEF AccountsSpec

\* For any number of visits of any links, failing anywhere: a link is spent only when its
\* account is verified (verifyEmail deletes the key last).
THEOREM SpentLinksVerified == AccountsSpec => []SpentLinkHasVerified
  <1>1. AccountsInv => SpentLinkHasVerified
        BY DEF AccountsInv
  <1> QED
      BY <1>1, AccountsInvariant, PTL DEF AccountsSpec

-----------------------------------------------------------------------------
(* Lines of carts.                                                           *)

Doing == {"idle", "add", "increase", "create", "set", "remove"}

ShopperOK == shopper \in [Shoppers -> [at : Doing \cup {"over"}, read : Line \cup {NoLine}]]

Served == {s \in Shoppers : shopper[s].at = "over"}

\* A request that holds an old copy of the line that is there adds to pieces that have
\* not been deleted; a line is never there again under an identifier used before.
CopiesAreSafe ==
  \A s \in Shoppers : LET r == shopper[s].read IN
    /\ r # NoLine => r.id <= lineCount /\ r.pieces \subseteq Served
    /\ r # NoLine /\ line # NoLine /\ line.id = r.id => r.pieces \cap gone = {}
    /\ shopper[s].at \in {"increase", "set", "remove"} => r # NoLine

\* Only requests that are over have put pieces into a line.
PiecesAreOver ==
  /\ line # NoLine => line.id <= lineCount /\ line.pieces \subseteq Served
  /\ gone \subseteq Served

CartInv == CartTypeOK /\ CopiesAreSafe /\ PiecesAreOver /\ GoneStaysGone

LEMMA CartInitInv == CartInit => CartInv
  BY CartAssumption DEF CartInit, CartInv, CartTypeOK, CopiesAreSafe, PiecesAreOver,
                        GoneStaysGone

\* A request that goes on leaves every other one where it is, and over is over.
LEMMA ShopperMoves ==
  ASSUME CartInv, NEW s \in Shoppers, NEW a \in Doing,
         NEW b \in Doing \cup {"over"},
         NEW r \in Line \cup {NoLine}, ShopperGoes(s, a, b, r)
  PROVE  /\ ShopperOK'
         /\ shopper[s].at = a /\ shopper'[s].at = b /\ shopper'[s].read = r
         /\ \A q \in Shoppers \ {s} : shopper'[q] = shopper[q]
         /\ s \notin Served /\ Served \subseteq Served' /\ (b = "over" => s \in Served')
  <1>1. /\ shopper' = [shopper EXCEPT ![s] = [at |-> b, read |-> r]]
        /\ shopper[s].at = a /\ a # "over"
        BY DEF ShopperGoes, Doing
  <1>2. /\ ShopperOK'
        /\ shopper'[s] = [at |-> b, read |-> r]
        /\ \A q \in Shoppers \ {s} : shopper'[q] = shopper[q]
        BY <1>1 DEF CartInv, CartTypeOK, ShopperOK, Doing
  <1> QED
      BY <1>1, <1>2 DEF Served

\* A request that reads the line, or ends, with the cart as it is.
LEMMA ReadKeeps ==
  ASSUME CartInv, NEW s \in Shoppers, NEW a \in Doing,
         NEW b \in Doing \cup {"over"},
         NEW r \in {NoLine, line}, ShopperGoes(s, a, b, r),
         b \in {"increase", "set", "remove"} => r # NoLine,
         UNCHANGED <<line, lineCount, gone>>
  PROVE  CartInv'
  <1>1. r \in Line \cup {NoLine} /\ (r # NoLine => r = line /\ line # NoLine)
        BY DEF CartInv, CartTypeOK
  <1>m. /\ ShopperOK'
        /\ shopper'[s].at = b /\ shopper'[s].read = r
        /\ \A q \in Shoppers \ {s} : shopper'[q] = shopper[q]
        /\ Served \subseteq Served'
        BY <1>1, ShopperMoves
  <1>2. CartTypeOK'
        BY <1>m DEF CartInv, CartTypeOK, ShopperOK, Doing
  <1>3. PiecesAreOver' /\ GoneStaysGone'
        BY <1>m DEF CartInv, PiecesAreOver, GoneStaysGone
  <1>4. CopiesAreSafe'
    <2> SUFFICES ASSUME NEW q \in Shoppers
                 PROVE  LET c == shopper'[q].read IN
                        /\ c # NoLine => c.id <= lineCount /\ c.pieces \subseteq Served'
                        /\ c # NoLine /\ line # NoLine /\ line.id = c.id
                             => c.pieces \cap gone = {}
                        /\ shopper'[q].at \in {"increase", "set", "remove"} => c # NoLine
        BY DEF CopiesAreSafe
    <2>1. CASE q = s
          BY <1>1, <1>m, <2>1 DEF CartInv, PiecesAreOver, GoneStaysGone
    <2>2. CASE q # s
          BY <1>m, <2>2 DEF CartInv, CopiesAreSafe
    <2> QED
        BY <2>1, <2>2
  <1> QED
      BY <1>2, <1>3, <1>4 DEF CartInv

\* A request that ends, having written its own piece and what it has read into the line.
LEMMA WriteKeeps ==
  ASSUME CartInv, NEW s \in Shoppers, NEW a \in Doing, Answer(s, a), a \in {"increase", "set"},
         NEW pieces \in SUBSET Shoppers, line' = [line EXCEPT !.pieces = pieces],
         pieces \subseteq shopper[s].read.pieces \cup {s},
         line # NoLine, line.id = shopper[s].read.id, UNCHANGED <<lineCount, gone>>
  PROVE  CartInv'
  <1>1. line \in Line /\ line' \in Line /\ line'.id = line.id /\ line'.pieces = pieces
        BY DEF CartInv, CartTypeOK, Line
  <1>2. ShopperGoes(s, a, "over", NoLine)
        BY DEF Answer
  <1>3. /\ ShopperOK'
        /\ shopper[s].at = a /\ shopper'[s].at = "over" /\ shopper'[s].read = NoLine
        /\ \A q \in Shoppers \ {s} : shopper'[q] = shopper[q]
        /\ s \notin Served /\ Served \subseteq Served' /\ s \in Served'
        BY <1>2, ShopperMoves
  <1>4. /\ shopper[s].read # NoLine
        /\ shopper[s].read.pieces \subseteq Served /\ shopper[s].read.pieces \cap gone = {}
        BY <1>3 DEF CartInv, CopiesAreSafe
  <1>5. CartTypeOK'
        BY <1>1, <1>3 DEF CartInv, CartTypeOK, ShopperOK, Doing
  <1>6. PiecesAreOver' /\ GoneStaysGone'
        BY <1>1, <1>3, <1>4 DEF CartInv, PiecesAreOver, GoneStaysGone
  <1>7. CopiesAreSafe'
    <2> SUFFICES ASSUME NEW q \in Shoppers \ {s}
                 PROVE  LET c == shopper[q].read IN
                        /\ c # NoLine => c.id <= lineCount /\ c.pieces \subseteq Served'
                        /\ c # NoLine /\ line.id = c.id => c.pieces \cap gone = {}
                        /\ shopper[q].at \in {"increase", "set", "remove"} => c # NoLine
        BY <1>1, <1>3 DEF CopiesAreSafe
    <2> QED
        BY <1>3 DEF CartInv, CopiesAreSafe
  <1> QED
      BY <1>5, <1>6, <1>7 DEF CartInv

LEMMA CartStep == CartInv /\ [CartNext]_cartVars => CartInv'
  <1> SUFFICES ASSUME CartInv, [CartNext]_cartVars
               PROVE  CartInv'
      OBVIOUS
  <1>1. ASSUME NEW s \in Shoppers, ReadStock(s)
        PROVE  CartInv'
        BY <1>1, ReadKeeps DEF ReadStock, Answer, Doing
  <1>2. ASSUME NEW s \in Shoppers, FindCartItem(s)
        PROVE  CartInv'
    <2>1. CASE line = NoLine
          BY <1>2, <2>1, ReadKeeps DEF FindCartItem, Doing
    <2>2. CASE line # NoLine
          BY <1>2, <2>2, ReadKeeps DEF FindCartItem, Answer, Doing
    <2> QED
        BY <2>1, <2>2
  <1>3. ASSUME NEW s \in Shoppers, NEW to \in {"set", "remove"}, ReadCart(s, to)
        PROVE  CartInv'
        BY <1>3, ReadKeeps DEF ReadCart, Answer, Doing
  <1>4. ASSUME NEW s \in Shoppers, IncreaseQuantity(s)
        PROVE  CartInv'
    <2>1. shopper[s].at = "increase" /\ Answer(s, "increase")
          BY <1>4 DEF IncreaseQuantity, Answer, ShopperGoes
    <2>2. shopper[s].read \in Line
          BY <2>1 DEF CartInv, CartTypeOK, CopiesAreSafe
    <2>3. shopper[s].read.pieces \cup {s} \in SUBSET Shoppers
          BY <2>2 DEF Line
    <2>4. CASE SameLineId(s)
          BY <1>4, <2>1, <2>3, <2>4, WriteKeeps DEF IncreaseQuantity, SameLineId, Doing
    <2>5. CASE ~SameLineId(s)
          BY <1>4, <2>1, <2>5, ReadKeeps DEF IncreaseQuantity, Answer, Doing
    <2> QED
        BY <2>4, <2>5
  <1>5. ASSUME NEW s \in Shoppers, SetQuantity(s)
        PROVE  CartInv'
    <2>1. CASE SameLineId(s)
          BY <1>5, <2>1, WriteKeeps DEF SetQuantity, SameLineId, Doing
    <2>2. CASE ~SameLineId(s)
          BY <1>5, <2>2, ReadKeeps DEF SetQuantity, Answer, Doing
    <2> QED
        BY <2>1, <2>2
  <1>6. ASSUME NEW s \in Shoppers, CreateCartItem(s)
        PROVE  CartInv'
    <2>1. CASE line = NoLine /\ lineCount < MaxLine
      <3>1. /\ ShopperGoes(s, "create", "over", NoLine) /\ lineCount' = lineCount + 1
            /\ line' = [id |-> lineCount + 1, pieces |-> {s}] /\ gone' = gone
            BY <1>6, <2>1 DEF CreateCartItem, Answer
      <3>2. lineCount \in Nat /\ lineCount + 1 \in 1 .. MaxLine
            BY <2>1, CartAssumption DEF CartInv, CartTypeOK
      <3>3. line' \in Line /\ line'.id = lineCount + 1 /\ line'.pieces = {s}
            BY <3>1, <3>2 DEF Line
      <3>4. /\ ShopperOK'
            /\ shopper'[s].at = "over" /\ shopper'[s].read = NoLine
            /\ \A q \in Shoppers \ {s} : shopper'[q] = shopper[q]
            /\ s \notin Served /\ Served \subseteq Served' /\ s \in Served'
            BY <3>1, ShopperMoves DEF Doing
      <3>5. CartTypeOK'
            BY <3>1, <3>2, <3>3, <3>4, CartAssumption
            DEF CartInv, CartTypeOK, ShopperOK, Doing
      <3>6. PiecesAreOver' /\ GoneStaysGone'
            BY <3>1, <3>2, <3>3, <3>4 DEF CartInv, PiecesAreOver, GoneStaysGone
      <3>7. CopiesAreSafe'
        <4> SUFFICES ASSUME NEW q \in Shoppers \ {s}
                     PROVE  LET c == shopper[q].read IN
                            /\ c # NoLine => c.id <= lineCount + 1 /\ c.pieces \subseteq Served'
                            /\ c # NoLine => c.id # lineCount + 1
                            /\ shopper[q].at \in {"increase", "set", "remove"} => c # NoLine
            BY <3>1, <3>3, <3>4 DEF CopiesAreSafe
        <4>1. shopper[q].read # NoLine => shopper[q].read.id \in Nat
              BY DEF CartInv, CartTypeOK, Line
        <4> QED
            BY <3>2, <3>4, <4>1 DEF CartInv, CopiesAreSafe
      <3> QED
          BY <3>5, <3>6, <3>7 DEF CartInv
    <2>2. CASE ~(line = NoLine /\ lineCount < MaxLine)
          BY <1>6, <2>2, ReadKeeps DEF CreateCartItem, Answer, Doing
    <2> QED
        BY <2>1, <2>2
  <1>7. ASSUME NEW s \in Shoppers, RemoveItem(s), SameLineId(s)
        PROVE  CartInv'
    <2>1. /\ ShopperGoes(s, "remove", "over", NoLine) /\ line # NoLine /\ line \in Line
          /\ line' = NoLine /\ gone' = gone \cup line.pieces /\ lineCount' = lineCount
          BY <1>7 DEF RemoveItem, SameLineId, Delete, Answer, CartInv, CartTypeOK
    <2>2. line.pieces \subseteq Shoppers
          BY <2>1 DEF Line
    <2>m. /\ ShopperOK' /\ shopper'[s].at = "over" /\ shopper'[s].read = NoLine
          /\ \A q \in Shoppers \ {s} : shopper'[q] = shopper[q]
          /\ Served \subseteq Served'
          BY <2>1, ShopperMoves DEF Doing
    <2>3. CartTypeOK'
          BY <2>1, <2>2, <2>m DEF CartInv, CartTypeOK, ShopperOK, Doing
    <2>4. PiecesAreOver' /\ GoneStaysGone' /\ CopiesAreSafe'
          BY <2>1, <2>m
          DEF CartInv, PiecesAreOver, GoneStaysGone, CopiesAreSafe
    <2> QED
        BY <2>3, <2>4 DEF CartInv
  <1>8. ASSUME NEW s \in Shoppers, RemoveItem(s), ~SameLineId(s)
        PROVE  CartInv'
        BY <1>8, ReadKeeps DEF RemoveItem, Answer, Doing
  <1>9. CASE ClearCart
    <2>1. /\ line # NoLine /\ line \in Line /\ line' = NoLine /\ gone' = gone \cup line.pieces
          /\ UNCHANGED <<lineCount, shopper>> /\ line.pieces \subseteq Shoppers
          BY <1>9 DEF ClearCart, Delete, CartInv, CartTypeOK, Line
    <2>2. CartTypeOK'
          BY <2>1 DEF CartInv, CartTypeOK
    <2>3. PiecesAreOver' /\ GoneStaysGone' /\ CopiesAreSafe'
          BY <2>1 DEF CartInv, PiecesAreOver, GoneStaysGone, CopiesAreSafe, Served
    <2> QED
        BY <2>2, <2>3 DEF CartInv
  <1>10. CASE UNCHANGED cartVars
         BY <1>10 DEF cartVars, CartInv, CartTypeOK, PiecesAreOver, GoneStaysGone,
                      CopiesAreSafe, Served
  <1> QED
      BY <1>1, <1>2, <1>3, <1>4, <1>5, <1>6, <1>7, <1>8, <1>9, <1>10 DEF CartNext

\* For any number of requests that change one line at once: what was cleared or removed
\* is in no line again (CartService, whose writes select the row by its id).
THEOREM GonePiecesStayGone == CartSpec => []GoneStaysGone
  <1>1. CartInv => GoneStaysGone
        BY DEF CartInv
  <1> QED
      BY <1>1, CartInitInv, CartStep, PTL DEF CartSpec
=============================================================================
