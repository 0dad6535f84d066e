------------------------------- MODULE Sessions -------------------------------
(***************************************************************************)
(* The refresh tokens of one session (a family), the requests that exchange *)
(* them, and logouts. Tokens are numbered as they are created; signing and  *)
(* hashing them, access tokens and their blacklist are left out.            *)
(***************************************************************************)
EXTENDS Integers, FiniteSets

CONSTANTS Refreshes,   \* POST /auth/refresh requests
          MaxToken     \* bound: the last token created

ASSUME MaxTokenIsNat == MaxToken \in Nat

VARIABLES tokens,   \* refresh_tokens of the family; "none" before and after its row
          nextToken,
          refresh,  \* refresh[q]: where a request is, and the token it presents
          scanned   \* scanned[q]: the rows a revocation of the family has found

sessionVars == <<tokens, nextToken, refresh, scanned>>

TokenIds == 0 .. MaxToken

SessionsTypeOK ==
  /\ tokens \in [TokenIds -> {"none", "active", "revoked"}]
  /\ nextToken \in 0 .. MaxToken + 1
  /\ refresh \in [Refreshes ->
       [at : {"idle", "find", "latest", "rotate", "scan", "revoke", "over"}, token : TokenIds]]
  /\ scanned \in [Refreshes -> SUBSET TokenIds]

SessionsInit ==
  /\ tokens = [t \in TokenIds |-> "none"] /\ nextToken = 0
  /\ refresh = [q \in Refreshes |-> [at |-> "idle", token |-> 0]]
  /\ scanned = [q \in Refreshes |-> {}]

TokenOf(q) == refresh[q].token
RefreshGoes(q, from, to) == refresh[q].at = from /\ refresh' = [refresh EXCEPT ![q].at = to]

-----------------------------------------------------------------------------
\* generateTokens: a sign-in starts the family with its first token.
SignIn ==
  /\ nextToken = 0 /\ nextToken' = 1
  /\ tokens' = [tokens EXCEPT ![0] = "active"]
  /\ UNCHANGED <<refresh, scanned>>

\* A client sends any token it was given, more than once when an answer was late.
Present(q, t) ==
  /\ refresh[q].at = "idle" /\ t < nextToken
  /\ refresh' = [refresh EXCEPT ![q] = [at |-> "find", token |-> t]]
  /\ UNCHANGED <<tokens, nextToken, scanned>>

\* A token used before revokes its whole family; one that is gone, nothing.
FindToken(q) ==
  /\ RefreshGoes(q, "find", CASE tokens[TokenOf(q)] = "active" -> "latest"
                              [] tokens[TokenOf(q)] = "revoked" -> "scan"
                              [] tokens[TokenOf(q)] = "none" -> "over")
  /\ UNCHANGED <<tokens, nextToken, scanned>>

\* Another token of the family is tolerated for half a minute.
FindLatest(q) ==
  /\ \/ RefreshGoes(q, "latest", "rotate")
     \/ /\ \E t \in TokenIds \ {TokenOf(q)} : tokens[t] = "active"
        /\ RefreshGoes(q, "latest", "scan")
  /\ UNCHANGED <<tokens, nextToken, scanned>>

\* Mutant: the token is revoked whatever its state.
RotateAnyway(q) ==
  /\ RefreshGoes(q, "rotate", "over") /\ nextToken <= MaxToken
  /\ tokens' = [tokens EXCEPT ![TokenOf(q)] = "revoked", ![nextToken] = "active"]
  /\ nextToken' = nextToken + 1
  /\ UNCHANGED scanned

\* rotateRefreshToken: in one transaction, and not if the token is no longer active.
Rotate(q) ==
  /\ RefreshGoes(q, "rotate", "over")
  /\ nextToken <= MaxToken
  /\ IF tokens[TokenOf(q)] = "active"
     THEN /\ tokens' = [tokens EXCEPT ![TokenOf(q)] = "revoked", ![nextToken] = "active"]
          /\ nextToken' = nextToken + 1
     ELSE UNCHANGED <<tokens, nextToken>>
  /\ UNCHANGED scanned

\* revokeAllTokensInFamily: a row inserted after the statement's snapshot is not in it.
ScanFamily(q) ==
  /\ RefreshGoes(q, "scan", "revoke")
  /\ scanned' = [scanned EXCEPT ![q] = {t \in TokenIds : tokens[t] # "none"}]
  /\ UNCHANGED <<tokens, nextToken>>

RevokeFamily(q) ==
  /\ RefreshGoes(q, "revoke", "over")
  /\ tokens' = [t \in TokenIds |-> IF t \in scanned[q] /\ tokens[t] # "none"
                                   THEN "revoked" ELSE tokens[t]]
  /\ scanned' = [scanned EXCEPT ![q] = {}]
  /\ UNCHANGED nextToken

\* logout: the rows of one token, or of all of the user's, are deleted.
LogOut(S) ==
  /\ \E t \in S : tokens[t] # "none"
  /\ tokens' = [t \in TokenIds |-> IF t \in S THEN "none" ELSE tokens[t]]
  /\ UNCHANGED <<nextToken, refresh, scanned>>

SessionsNext ==
  \/ SignIn
  \/ \E q \in Refreshes, t \in TokenIds : Present(q, t)
  \/ \E q \in Refreshes :
       \/ FindToken(q) \/ FindLatest(q) \/ Rotate(q) \/ ScanFamily(q) \/ RevokeFamily(q)
  \/ \E t \in TokenIds : LogOut({t})
  \/ LogOut(TokenIds)

SessionsSpec == SessionsInit /\ [][SessionsNext]_sessionVars

-----------------------------------------------------------------------------
\* A session has at most one token that can be exchanged, though several requests that
\* read it as active try to, and revocations of the family and logouts run between.
OneUsablePerFamily ==
  \A t, u \in TokenIds : tokens[t] = "active" /\ tokens[u] = "active" => t = u
=============================================================================
