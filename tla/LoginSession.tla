------------------------------ MODULE LoginSession ------------------------------
(***************************************************************************)
(* Signing in: pkg/ring/login_session.go over pkg/dependencies/rest/auth.go,*)
(* and as much of Ring's OAuth service as they rely on.                    *)
(*                                                                         *)
(* A call holds the session's mutex from its first line to its return, so  *)
(* that the calls of one session follow one another; sessions share only   *)
(* the service.  One HTTP request is one step: the service has handled it  *)
(* or not, and the client has the answer, a refusal, or an error.          *)
(*                                                                         *)
(* The refresh tokens of one login are numbered in the order in which the  *)
(* service issues them; 0 is an answer that carries none.                  *)
(***************************************************************************)
EXTENDS Naturals

CONSTANTS Sessions,   \* the sessions NewLoginSession returns
          Earlier     \* a login of an earlier run of the program

ASSUME EarlierAssumption == Earlier \notin Sessions

Logins == Sessions \cup {Earlier}

VARIABLES call,       \* where the call in progress of a session is, "none" without one
          code,       \* its otpCode: "", or one the service takes or refuses; "ask" in
                      \* Request2FACode, which is Authenticate without a code
          pending,    \* restClient.pendingPKCE is set
          done,       \* s.done
          granted,    \* the refresh token of the answer in the call's hands
          result,     \* what the last call returned, "none" during one
          stage,      \* external: how far the newest challenge of a session has come
          codes,      \* external: the verification codes delivered for its challenges
          legacyCodes,\* external: and those that the legacy route has delivered
          newest,     \* external: the newest refresh token of a login
          rotates     \* external: the service replaces a refresh token it is shown

client  == <<call, code, pending, done, granted, result>>
service == <<stage, codes, legacyCodes, newest, rotates>>
session == <<client, service>>

Steps   == {"none", "begin", "signin", "verify", "resume", "authorize", "exchange", "rotate",
            "legacy"}
NoCode  == {"", "ask"}
Codes   == NoCode \cup {"right", "wrong"}
Results == {"none", "tokens", "requires2FA", "failed", "closed"}
Stages  == {"none", "begun", "waiting", "verified", "spent"}

\* A saved login of before has had its first refresh token.
InitSession ==
    /\ call = [s \in Sessions |-> "none"] /\ code = [s \in Sessions |-> ""]
    /\ pending = [s \in Sessions |-> FALSE] /\ done = [s \in Sessions |-> FALSE]
    /\ granted = [s \in Sessions |-> 0] /\ result = [s \in Sessions |-> "none"]
    /\ stage = [s \in Sessions |-> "none"] /\ codes = [s \in Sessions |-> 0]
    /\ legacyCodes = [s \in Sessions |-> 0]
    /\ newest = [l \in Logins |-> IF l = Earlier THEN 1 ELSE 0]
    /\ rotates \in BOOLEAN

--------------------------------------------------------------------------------
(* The end of a call, and its beginning.  Request2FACode drops the tokens of a sign-in that
   needs no code, and leaves the session open. *)

GoOn(s, step)  == /\ call' = [call EXCEPT ![s] = step]
                  /\ result' = [result EXCEPT ![s] = "none"]
                  /\ UNCHANGED done
Return(s, r)   == /\ call' = [call EXCEPT ![s] = "none"]
                  /\ result' = [result EXCEPT ![s] = r]
                  /\ done' = [done EXCEPT ![s] = @ \/ (r = "tokens" /\ code[s] # "ask")]
Fail(s)        == Return(s, "failed")
Requires2FA(s) == Return(s, "requires2FA")

\* LoginSession.Authenticate up to the first request: prepareAuthentication goes on
\* with a pending challenge, and asks nobody for a code it believes delivered.
AuthenticateAnew(s, otp) ==   \* mutant: every call starts a challenge of its own
    /\ call[s] = "none" /\ code' = [code EXCEPT ![s] = otp] /\ GoOn(s, "begin")
    /\ UNCHANGED <<pending, granted, service>>
Authenticate(s, otp) ==
    /\ call[s] = "none"
    /\ code' = [code EXCEPT ![s] = otp]
    /\ \/ done[s] /\ Return(s, "closed")
       \/ ~done[s] /\ pending[s] /\ otp \in NoCode /\ Requires2FA(s)
       \/ ~done[s] /\ pending[s] /\ otp \notin NoCode /\ GoOn(s, "resume")
       \/ ~done[s] /\ ~pending[s] /\ GoOn(s, "begin")
    /\ UNCHANGED <<pending, granted, service>>

\* Close drops the REST client, and with it the challenge.
CloseSession(s) ==
    /\ call[s] = "none"
    /\ done' = [done EXCEPT ![s] = TRUE]
    /\ pending' = [pending EXCEPT ![s] = FALSE]
    /\ UNCHANGED <<call, code, granted, result, service>>

--------------------------------------------------------------------------------
(* The requests of one call. *)

\* initiatePKCE: the sign-in page of a new challenge.  Any attempt may find none, and goes
\* on by the legacy route.
InitiatePKCE(s) ==
    /\ call[s] = "begin"
    /\ \/ /\ GoOn(s, "signin")
          /\ pending' = [pending EXCEPT ![s] = TRUE]
          /\ stage' = [stage EXCEPT ![s] = "begun"]
       \/ (Fail(s) \/ GoOn(s, "legacy")) /\ UNCHANGED <<pending, stage>>
    /\ UNCHANGED <<code, granted, codes, legacyCodes, newest, rotates>>

\* The service takes the credentials and sends a code, or needs none, ...
Deliver(s) == /\ stage' = [stage EXCEPT ![s] = "waiting"]
              /\ codes' = [codes EXCEPT ![s] = @ + 1]
Admit(s)   == stage' = [stage EXCEPT ![s] = "verified"] /\ UNCHANGED codes

\* ... which submitCredentials and startPKCE learn from the answer, unless it is lost.
\* A sign-in page that is not found sends the call to the legacy route.
SubmitCredentials(s) ==
    /\ call[s] = "signin"
    /\ \/ Deliver(s) /\ (IF code[s] \in NoCode THEN Requires2FA(s) ELSE GoOn(s, "verify"))
       \/ Admit(s) /\ GoOn(s, "authorize")
       \/ (Deliver(s) \/ Admit(s) \/ UNCHANGED <<stage, codes>>) /\ Fail(s)
       \/ UNCHANGED <<stage, codes>> /\ GoOn(s, "legacy")
    /\ UNCHANGED <<code, pending, granted, legacyCodes, newest, rotates>>

\* verify2FA, for the challenge this call has started or for the one it resumes: only
\* the first sends a route that is not found to the legacy one.  A challenge that is
\* verified already may or may not be verified again.
VerifyForgetting(s) ==   \* mutant: a refused code ends the challenge
    /\ call[s] \in {"verify", "resume"} /\ Fail(s)
    /\ pending' = [pending EXCEPT ![s] = FALSE]
    /\ UNCHANGED <<code, granted, service>>
Verify2FA(s) ==
    /\ call[s] \in {"verify", "resume"}
    /\ \/ /\ stage[s] = "waiting" /\ code[s] = "right"
          /\ stage' = [stage EXCEPT ![s] = "verified"]
          /\ GoOn(s, "authorize") \/ Fail(s)
       \/ stage[s] = "verified" /\ GoOn(s, "authorize") /\ UNCHANGED stage
       \/ (Fail(s) \/ (call[s] = "verify" /\ GoOn(s, "legacy"))) /\ UNCHANGED stage
    /\ UNCHANGED <<code, pending, granted, codes, legacyCodes, newest, rotates>>

\* authorizationCode: a verified challenge is redirected to the callback address.
AuthorizationCode(s) ==
    /\ call[s] = "authorize"
    /\ Fail(s) \/ (stage[s] = "verified" /\ GoOn(s, "exchange"))
    /\ UNCHANGED <<code, pending, granted, service>>

\* exchangeAuthorizationCode: the first refresh token of the login, if the answer
\* carries one.  The challenge is forgotten only once the answer is here.
ExchangeAuthorizationCode(s) ==
    /\ call[s] = "exchange"
    /\ \/ /\ stage' = [stage EXCEPT ![s] = "spent"]
          /\ newest' = [newest EXCEPT ![s] = @ + 1]
          /\ \/ /\ GoOn(s, "rotate")
                /\ granted' = [granted EXCEPT ![s] = newest[s] + 1]
                /\ pending' = [pending EXCEPT ![s] = FALSE]
             \/ Fail(s) /\ UNCHANGED <<granted, pending>>
       \/ /\ stage' = [stage EXCEPT ![s] = "spent"]
          /\ Return(s, "tokens")
          /\ granted' = [granted EXCEPT ![s] = 0]
          /\ pending' = [pending EXCEPT ![s] = FALSE]
          /\ UNCHANGED newest
       \/ Fail(s) /\ UNCHANGED <<stage, newest, granted, pending>>
    /\ UNCHANGED <<code, codes, legacyCodes, rotates>>

\* refreshAccessToken as the service sees it: a token it does not know as the newest
\* is refused; a service that rotates replaces it, another answers without one.
Refreshed(l) == IF rotates THEN newest[l] + 1 ELSE newest[l]
Answered(l)  == IF rotates THEN newest[l] + 1 ELSE 0
Refresh(l)   == newest' = [newest EXCEPT ![l] = Refreshed(l)]

\* The rotation that ends Authenticate: its answer is the call's.
RotateTokens(s) ==
    /\ call[s] = "rotate"
    /\ \/ /\ granted[s] = newest[s]
          /\ Refresh(s)
          /\ \/ Return(s, "tokens") /\ granted' = [granted EXCEPT ![s] = Answered(s)]
             \/ Fail(s) /\ UNCHANGED granted
       \/ Fail(s) /\ UNCHANGED <<newest, granted>>
    /\ UNCHANGED <<code, pending, stage, codes, legacyCodes, rotates>>

\* authenticateLegacy: one request, which may ask for a code and have it delivered.
AuthenticateLegacy(s) ==
    /\ call[s] = "legacy"
    /\ \/ /\ newest' = [newest EXCEPT ![s] = @ + 1]
          /\ \/ Return(s, "tokens") /\ granted' = [granted EXCEPT ![s] = newest[s] + 1]
             \/ Fail(s) /\ UNCHANGED granted
          /\ UNCHANGED legacyCodes
       \/ /\ code[s] \in NoCode
          /\ legacyCodes' = [legacyCodes EXCEPT ![s] = @ + 1]
          /\ Requires2FA(s) \/ Fail(s)
          /\ UNCHANGED <<newest, granted>>
       \/ (Fail(s) \/ Requires2FA(s)) /\ UNCHANGED <<newest, granted, legacyCodes>>
    /\ UNCHANGED <<code, pending, stage, codes, rotates>>

Request(s) == \/ InitiatePKCE(s) \/ SubmitCredentials(s) \/ Verify2FA(s)
              \/ AuthorizationCode(s) \/ ExchangeAuthorizationCode(s)
              \/ RotateTokens(s) \/ AuthenticateLegacy(s)
================================================================================
