--------------------------- MODULE TokenStoreProofs ----------------------------
(***************************************************************************)
(* Theorems about TokenStore, for any number of commands and calls.  The   *)
(* files are whole because of where each command is in save (SaveInv);     *)
(* that the newest refresh token is saved needs to know who may hold one   *)
(* (HolderInv), and that one code is asked for, what the first call of a   *)
(* login leaves for the second (CodeInv).                                  *)
(***************************************************************************)
EXTENDS TokenStore, TLAPS

SaveSteps == {"create", "write", "sync", "close", "rename"}

\* Which commands are at which steps; a login makes its second call with a code.
KindInv ==
    \A c \in Commands :
        /\ step[c] = "calling" => kind[c] \in {"login", "app"}
        /\ step[c] = "loaded" => kind[c] = "refresh"
        /\ step[c] = "watching" => kind[c] = "watch"
        /\ step[c] \in SaveSteps => kind[c] \in {"login", "refresh", "watch"}
        /\ kind[c] = "login" /\ step[c] = "calling" /\ code[c] = "" => calls[c] = 1

SaveInv ==
    /\ FilesWhole
    /\ \A c \in Commands :
        /\ step[c] \notin {"write", "sync", "close", "rename", "failed", "ended", "dead"}
              => temp[c] = "none"
        /\ step[c] = "ended" => temp[c] \in {"none", "left"}
        /\ step[c] \in {"close", "rename"} => temp[c] = "synced"

USE DEF client, service, session, commands, disk, Commands, Kept, GoOnly, Go

--------------------------------------------------------------------------------
(* What a request does to the session that makes it. *)

\* The token a request issues is the session's next one.
LEMMA RequestIssues ==
    ASSUME TypeOK, NEW s \in Sessions, Request(s)
    PROVE  newest' \in {newest, [newest EXCEPT ![s] = newest[s] + 1]}
<1> USE DEF TypeOK, Logins
<1>1. CASE InitiatePKCE(s) \/ SubmitCredentials(s) \/ Verify2FA(s) \/ AuthorizationCode(s)
    BY <1>1 DEF InitiatePKCE, SubmitCredentials, Verify2FA, AuthorizationCode
<1>2. CASE ExchangeAuthorizationCode(s)
    BY <1>2 DEF ExchangeAuthorizationCode
<1>3. CASE RotateTokens(s)
    BY <1>3 DEF RotateTokens, Refresh, Refreshed
<1>4. CASE AuthenticateLegacy(s)
    BY <1>4 DEF AuthenticateLegacy
<1> QED
    BY <1>1, <1>2, <1>3, <1>4 DEF Request

\* The types of a session's part, and of the commands' part.
SessionTypes ==
    /\ call \in [Sessions -> Steps] /\ code \in [Sessions -> Codes]
    /\ pending \in [Sessions -> BOOLEAN] /\ done \in [Sessions -> BOOLEAN]
    /\ granted \in [Sessions -> Nat] /\ result \in [Sessions -> Results]
    /\ stage \in [Sessions -> Stages]
    /\ codes \in [Sessions -> Nat] /\ legacyCodes \in [Sessions -> Nat]
    /\ newest \in [Logins -> Nat] /\ rotates \in BOOLEAN

CommandTypes ==
    /\ kind \in [Commands -> Kinds] /\ step \in [Commands -> CmdSteps]
    /\ calls \in [Commands -> 0 .. CallLimit] /\ temp \in [Commands -> Temps]
    /\ loaded \in [Commands -> Records] /\ saving \in [Commands -> Records]
    /\ tokens \in SUBSET Records /\ push \in SUBSET Records
    /\ torn \in BOOLEAN
    /\ \A c \in Commands : step[c] = "loaded" => loaded[c].refresh # 0

LEMMA TypeParts == TypeOK <=> SessionTypes /\ CommandTypes
BY DEF TypeOK, SessionTypes, CommandTypes

LEMMA ReturnTypes ==
    ASSUME SessionTypes, NEW s \in Sessions, NEW r \in Results, Return(s, r)
    PROVE  /\ call' \in [Sessions -> Steps] /\ result' \in [Sessions -> Results]
           /\ done' \in [Sessions -> BOOLEAN]
<1>1. call' \in [Sessions -> Steps] /\ result' \in [Sessions -> Results]
    BY DEF SessionTypes, Return, Steps
<1>2. done' \in [Sessions -> BOOLEAN]
    BY Zenon DEF SessionTypes, Return
<1> QED
    BY <1>1, <1>2

\* Every request ends in Return or goes on to another.
LEMMA RequestGoesOn ==
    ASSUME TypeOK, NEW s \in Sessions, Request(s)
    PROVE  (\E r \in {"failed", "requires2FA", "tokens"} : Return(s, r))
           \/ (\E n \in Steps : GoOn(s, n))
<1> USE DEF Steps, Fail, Requires2FA
<1>1. CASE InitiatePKCE(s)
    BY <1>1 DEF InitiatePKCE
<1>2. CASE SubmitCredentials(s)
    BY <1>2 DEF SubmitCredentials
<1>3. CASE Verify2FA(s)
    BY <1>3 DEF Verify2FA
<1>4. CASE AuthorizationCode(s)
    BY <1>4 DEF AuthorizationCode
<1>5. CASE ExchangeAuthorizationCode(s)
    BY <1>5 DEF ExchangeAuthorizationCode
<1>6. CASE RotateTokens(s)
    BY <1>6 DEF RotateTokens
<1>7. CASE AuthenticateLegacy(s)
    BY <1>7 DEF AuthenticateLegacy
<1> QED
    BY <1>1, <1>2, <1>3, <1>4, <1>5, <1>6, <1>7 DEF Request

LEMMA RequestTypes ==
    ASSUME TypeOK, NEW s \in Sessions, Request(s)
    PROVE  SessionTypes'
<1>1. SessionTypes
    BY TypeParts
<1>2. /\ call' \in [Sessions -> Steps] /\ result' \in [Sessions -> Results]
      /\ done' \in [Sessions -> BOOLEAN]
  <2>1. ASSUME NEW r \in {"failed", "requires2FA", "tokens"}, Return(s, r)
        PROVE /\ call' \in [Sessions -> Steps] /\ result' \in [Sessions -> Results]
              /\ done' \in [Sessions -> BOOLEAN]
    <3>1. r \in Results
        BY DEF Results
    <3> QED
        BY <1>1, <2>1, <3>1, ReturnTypes
  <2>2. ASSUME NEW n \in Steps, GoOn(s, n)
        PROVE /\ call' \in [Sessions -> Steps] /\ result' \in [Sessions -> Results]
              /\ done' \in [Sessions -> BOOLEAN]
      BY <1>1, <2>2 DEF GoOn, SessionTypes, Results
  <2> QED
      BY <2>1, <2>2, RequestGoesOn
<1>3. /\ newest' \in [Logins -> Nat]
      /\ UNCHANGED <<code, rotates>>
  <2>1. newest' \in [Logins -> Nat]
      BY RequestIssues DEF TypeOK, Logins
  <2>2. UNCHANGED <<code, rotates>>
      BY DEF Request, InitiatePKCE, SubmitCredentials, Verify2FA, AuthorizationCode,
             ExchangeAuthorizationCode, RotateTokens, AuthenticateLegacy
  <2> QED
      BY <2>1, <2>2
<1>4. /\ pending' \in [Sessions -> BOOLEAN] /\ granted' \in [Sessions -> Nat]
      /\ stage' \in [Sessions -> Stages] /\ codes' \in [Sessions -> Nat]
      /\ legacyCodes' \in [Sessions -> Nat]
  <2> USE <1>1 DEF SessionTypes, Stages, Logins
  <2>1. CASE InitiatePKCE(s)
      BY <2>1 DEF InitiatePKCE
  <2>2. CASE SubmitCredentials(s)
    <3>1. /\ Deliver(s) \/ Admit(s) \/ UNCHANGED <<stage, codes>>
          /\ UNCHANGED <<pending, granted, legacyCodes>>
        BY <2>2 DEF SubmitCredentials
    <3> QED
        BY <3>1 DEF Deliver, Admit
  <2>3. CASE Verify2FA(s)
      BY <2>3 DEF Verify2FA
  <2>4. CASE AuthorizationCode(s)
      BY <2>4 DEF AuthorizationCode
  <2>5. CASE ExchangeAuthorizationCode(s)
    <3>1. /\ stage' \in {stage, [stage EXCEPT ![s] = "spent"]}
          /\ UNCHANGED <<codes, legacyCodes>>
          /\ pending' \in {pending, [pending EXCEPT ![s] = FALSE]}
          /\ granted' \in {granted, [granted EXCEPT ![s] = newest[s] + 1],
                            [granted EXCEPT ![s] = 0]}
        BY <2>5 DEF ExchangeAuthorizationCode
    <3>2. pending' \in [Sessions -> BOOLEAN]
        BY <3>1, Zenon
    <3> QED
        BY <3>1, <3>2
  <2>6. CASE RotateTokens(s)
      BY <2>6 DEF RotateTokens, Answered
  <2>7. CASE AuthenticateLegacy(s)
    <3>1. /\ UNCHANGED <<stage, pending, codes>>
          /\ legacyCodes' \in {legacyCodes, [legacyCodes EXCEPT ![s] = @ + 1]}
          /\ granted' \in {granted, [granted EXCEPT ![s] = newest[s] + 1]}
        BY <2>7 DEF AuthenticateLegacy
    <3> QED
        BY <3>1
  <2> QED
      BY <2>1, <2>2, <2>3, <2>4, <2>5, <2>6, <2>7 DEF Request
<1> QED
    BY <1>1, <1>2, <1>3, <1>4 DEF SessionTypes

LEMMA AuthenticateTypes ==
    ASSUME SessionTypes, NEW s \in Sessions, NEW otp \in Codes, Authenticate(s, otp)
    PROVE  SessionTypes' /\ code'[s] = otp /\ \A d \in Sessions \ {s} : code'[d] = code[d]
<1>1. /\ code' = [code EXCEPT ![s] = otp]
      /\ UNCHANGED <<pending, granted, stage, codes, legacyCodes, newest, rotates>>
    BY DEF Authenticate
<1>2. \/ \E r \in {"closed", "requires2FA"} : Return(s, r)
      \/ \E n \in {"resume", "begin"} : GoOn(s, n)
    BY DEF Authenticate, Requires2FA
<1>3. /\ call' \in [Sessions -> Steps] /\ result' \in [Sessions -> Results]
      /\ done' \in [Sessions -> BOOLEAN]
  <2>1. ASSUME NEW r \in {"closed", "requires2FA"}, Return(s, r)
        PROVE  /\ call' \in [Sessions -> Steps] /\ result' \in [Sessions -> Results]
               /\ done' \in [Sessions -> BOOLEAN]
    <3>1. r \in Results
        BY DEF Results
    <3> QED
        BY <2>1, <3>1, ReturnTypes
  <2>2. ASSUME NEW n \in {"resume", "begin"}, GoOn(s, n)
        PROVE  /\ call' \in [Sessions -> Steps] /\ result' \in [Sessions -> Results]
               /\ done' \in [Sessions -> BOOLEAN]
      BY <2>2 DEF GoOn, SessionTypes, Steps, Results
  <2> QED
      BY <1>2, <2>1, <2>2
<1> QED
    BY <1>1, <1>3 DEF SessionTypes

\* The end of processes, by command.
LEMMA GoneFacts ==
    ASSUME TypeOK, NEW C \in SUBSET Commands, NEW s \in {"ended", "dead"}, Gone(C, s)
    PROVE  \A d \in Commands :
              /\ d \in C => /\ step'[d] = s /\ call'[d] = "none" /\ result'[d] = "none"
                            /\ pending'[d] = FALSE /\ loaded'[d] = Record(Earlier, 0)
                            /\ saving'[d] = Record(Earlier, 0)
              /\ d \notin C =>
                    /\ step'[d] = step[d] /\ call'[d] = call[d] /\ result'[d] = result[d]
                    /\ pending'[d] = pending[d] /\ loaded'[d] = loaded[d]
                    /\ saving'[d] = saving[d] /\ code'[d] = code[d]
                    /\ granted'[d] = granted[d]
BY DEF Gone

LEMMA GoneShape ==
    ASSUME TypeOK, NEW C \in SUBSET Commands, NEW s \in {"ended", "dead"}, Gone(C, s)
    PROVE  /\ step' \in [Commands -> CmdSteps] /\ loaded' \in [Commands -> Records]
           /\ saving' \in [Commands -> Records]
           /\ call' \in [Sessions -> Steps] /\ code' \in [Sessions -> Codes]
           /\ pending' \in [Sessions -> BOOLEAN] /\ done' \in [Sessions -> BOOLEAN]
           /\ granted' \in [Sessions -> Nat] /\ result' \in [Sessions -> Results]
<1> USE DEF Gone
<1>1. Record(Earlier, 0) \in Records
    BY DEF Record, Records, Logins
<1>2. /\ step' \in [Commands -> CmdSteps] /\ loaded' \in [Commands -> Records]
      /\ saving' \in [Commands -> Records]
    BY <1>1 DEF TypeOK, CmdSteps
<1>3. /\ call' \in [Sessions -> Steps] /\ code' \in [Sessions -> Codes]
      /\ granted' \in [Sessions -> Nat] /\ result' \in [Sessions -> Results]
    BY DEF TypeOK, Steps, Codes, NoCode, Results
<1>4. pending' \in [Sessions -> BOOLEAN] /\ done' \in [Sessions -> BOOLEAN]
    BY Zenon DEF TypeOK
<1> QED
    BY <1>2, <1>3, <1>4

--------------------------------------------------------------------------------
(* Types. *)

LEMMA GoneTypes ==
    ASSUME TypeOK, NEW C \in SUBSET Commands, NEW s \in {"ended", "dead"}, Gone(C, s),
           UNCHANGED <<kind, calls, stage, codes, legacyCodes, rotates>>,
           newest' \in [Logins -> Nat], temp' \in [Commands -> Temps],
           tokens' \in SUBSET Records, push' \in SUBSET Records, torn' \in BOOLEAN
    PROVE  TypeOK'
<1>1. /\ step' \in [Commands -> CmdSteps] /\ loaded' \in [Commands -> Records]
      /\ saving' \in [Commands -> Records]
      /\ call' \in [Sessions -> Steps] /\ code' \in [Sessions -> Codes]
      /\ pending' \in [Sessions -> BOOLEAN] /\ done' \in [Sessions -> BOOLEAN]
      /\ granted' \in [Sessions -> Nat] /\ result' \in [Sessions -> Results]
    BY GoneShape
<1>2. \A d \in Commands : step'[d] = "loaded" => loaded'[d].refresh # 0
  <2>1. \A d \in Commands : /\ d \in C => step'[d] = s
                            /\ d \notin C => step'[d] = step[d] /\ loaded'[d] = loaded[d]
      BY DEF Gone
  <2>2. \A d \in Commands : step[d] = "loaded" => loaded[d].refresh # 0
      BY DEF TypeOK
  <2>0. s # "loaded"
      OBVIOUS
  <2> TAKE d \in Commands
  <2>3. CASE d \in C
    <3>1. step'[d] # "loaded"
        BY <2>0, <2>1, <2>3
    <3> QED
        BY <3>1
  <2>4. CASE d \notin C
      BY <2>1, <2>2, <2>4
  <2> QED
      BY <2>3, <2>4
<1>3. rotates' \in BOOLEAN
    BY Zenon DEF TypeOK
<1> QED
    BY <1>1, <1>2, <1>3 DEF TypeOK

LEMMA EndTypes ==
    ASSUME TypeOK, NEW c \in Commands, End(c),
           UNCHANGED <<kind, calls, stage, codes, legacyCodes, rotates>>,
           newest' \in [Logins -> Nat], temp' \in [Commands -> Temps],
           tokens' \in SUBSET Records, push' \in SUBSET Records, torn' \in BOOLEAN
    PROVE  TypeOK'
<1>1. Gone({c}, "ended") /\ {c} \in SUBSET Commands
    BY DEF End
<1> QED
    BY <1>1, GoneTypes

LEMMA TypeStep ==
    ASSUME TypeOK, KindInv, [Next]_vars
    PROVE  TypeOK'
<1> USE DEF CmdSteps, Temps
<1>p. SessionTypes /\ CommandTypes /\ (SessionTypes' /\ CommandTypes' => TypeOK')
    BY TypeParts DEF TypeOK, SessionTypes, CommandTypes
<1>r. \A l \in Logins, g \in Nat : Record(l, g) \in Records
    BY DEF Record, Records
<1>1. ASSUME NEW c \in Commands, StartLogin(c) PROVE TypeOK'
  <2>1. SessionTypes'
      BY <1>1, <1>p, AuthenticateTypes DEF StartLogin
  <2>2. CommandTypes'
      BY <1>1, <1>p, BoundAssumption DEF StartLogin, CommandTypes
  <2> QED
      BY <1>p, <2>1, <2>2
<1>2. ASSUME NEW c \in Commands, SignIn(c) PROVE TypeOK'
  <2>1. SessionTypes'
      BY <1>2, RequestTypes DEF SignIn
  <2>2. CommandTypes'
      BY <1>2, <1>p DEF SignIn, CommandTypes
  <2> QED
      BY <1>p, <2>1, <2>2
<1>3. ASSUME NEW c \in Commands, PromptCode(c) PROVE TypeOK'
  <2>1. CASE End(c) /\ UNCHANGED <<calls, service>>
    <3>1. UNCHANGED <<kind, temp, tokens, push, torn>>
        BY <1>3 DEF PromptCode
    <3> QED
        BY <2>1, <3>1, EndTypes DEF TypeOK
  <2>2. CASE calls' = [calls EXCEPT ![c] = @ + 1] /\ UNCHANGED <<step, loaded, saving>>
             /\ \E otp \in Codes \ NoCode : Authenticate(c, otp)
    <3>1. SessionTypes'
        BY <1>p, <2>2, AuthenticateTypes
    <3>2. calls[c] = 1
        BY <1>3 DEF PromptCode, KindInv
    <3>3. CommandTypes'
      <4>1. calls' \in [Commands -> 0 .. CallLimit]
        <5>1. calls[c] + 1 \in 0 .. CallLimit
            BY <3>2, BoundAssumption
        <5> QED
            BY <1>p, <2>2, <5>1 DEF CommandTypes
      <4>2. UNCHANGED <<kind, step, temp, loaded, saving, tokens, push, torn>>
          BY <1>3, <2>2 DEF PromptCode
      <4> QED
          BY <1>p, <4>1, <4>2 DEF CommandTypes
    <3> QED
        BY <1>p, <3>1, <3>3
  <2> QED
      BY <1>3, <2>1, <2>2 DEF PromptCode
<1>4. ASSUME NEW c \in Commands, LoginAnswered(c) PROVE TypeOK'
  <2>1. CASE End(c)
      BY <1>4, <2>1, EndTypes DEF LoginAnswered, TypeOK
  <2>2. CASE Save(c, Record(c, granted[c]))
    <3>1. Record(c, granted[c]) \in Records
        BY <1>r DEF TypeOK, Logins
    <3> QED
        BY <1>4, <2>2, <3>1 DEF LoginAnswered, Save, TypeOK
  <2> QED
      BY <1>4, <2>1, <2>2 DEF LoginAnswered
<1>5. ASSUME NEW c \in Commands, StartApp(c) PROVE TypeOK'
    BY <1>5 DEF StartApp, TypeOK
<1>6. ASSUME NEW c \in Commands, AppCalls(c) PROVE TypeOK'
  <2>1. SessionTypes'
    <3>1. CASE CloseSession(c)
      <4>1. done' \in [Sessions -> BOOLEAN] /\ pending' \in [Sessions -> BOOLEAN]
          BY <1>p, <3>1, Zenon DEF CloseSession, SessionTypes
      <4> QED
          BY <1>p, <3>1, <4>1 DEF CloseSession, SessionTypes
    <3> QED
        BY <1>6, <1>p, <3>1, AuthenticateTypes DEF AppCalls
  <2>2. CommandTypes'
      BY <1>6, <1>p, BoundAssumption DEF AppCalls, CommandTypes
  <2> QED
      BY <1>p, <2>1, <2>2
<1>7. ASSUME NEW c \in Commands, StartRefresh(c) PROVE TypeOK'
  <2>1. CASE End(c)
      BY <1>7, <2>1, EndTypes DEF StartRefresh, TypeOK
  <2>2. CASE ~End(c)
    <3> PICK r \in tokens : /\ r.refresh # 0
                            /\ loaded' = [loaded EXCEPT ![c] = r]
                            /\ Go(c, "loaded")
                            /\ UNCHANGED <<client, saving>>
        BY <1>7, <2>2 DEF StartRefresh
    <3>1. r \in Records
        BY DEF TypeOK
    <3> QED
        BY <1>7, <3>1 DEF StartRefresh, TypeOK
  <2> QED
      BY <2>1, <2>2
<1>8. ASSUME NEW c \in Commands, RefreshLogin(c) PROVE TypeOK'
  <2> DEFINE l == loaded[c].login
  <2>1. l \in Logins /\ loaded[c].refresh \in Nat /\ newest[l] \in Nat
      BY DEF TypeOK, Records
  <2>2. newest' \in [Logins -> Nat]
      BY <1>8, <2>1 DEF RefreshLogin, Refresh, Refreshed, TypeOK
  <2>3. CASE End(c)
      BY <1>8, <2>2, <2>3, EndTypes DEF RefreshLogin, TypeOK
  <2>4. CASE Save(c, Record(l, KeepIfMissing(c, Answered(l))))
    <3>1. Record(l, KeepIfMissing(c, Answered(l))) \in Records
        BY <1>r, <2>1 DEF KeepIfMissing, Answered
    <3> QED
        BY <1>8, <2>2, <2>4, <3>1 DEF RefreshLogin, Save, TypeOK
  <2> QED
      BY <1>8, <2>3, <2>4 DEF RefreshLogin
<1>9. ASSUME NEW c \in Commands, StartWatch(c) PROVE TypeOK'
    BY <1>9 DEF StartWatch, TypeOK
<1>10. ASSUME NEW c \in Commands, WatchEvent(c) PROVE TypeOK'
  <2>1. CASE End(c) /\ UNCHANGED calls
      BY <1>10, <2>1, EndTypes DEF WatchEvent, TypeOK
  <2>2. CASE ~(End(c) /\ UNCHANGED calls)
    <3> PICK owner \in {c} \cup {r.login : r \in push} : Save(c, Record(owner, 0))
        BY <1>10, <2>2 DEF WatchEvent
    <3>1. owner \in Logins
        BY DEF TypeOK, Records, Logins
    <3>2. Record(owner, 0) \in Records
        BY <1>r, <3>1
    <3> QED
        BY <1>10, <2>2, <3>2, BoundAssumption DEF WatchEvent, Save, TypeOK
  <2> QED
      BY <2>1, <2>2
<1>11. ASSUME NEW c \in Commands, StartLogout(c) PROVE TypeOK'
  <2>1. CASE End(c)
      BY <1>11, <2>1, EndTypes DEF StartLogout, TypeOK
  <2> QED
      BY <1>11, <2>1 DEF StartLogout, TypeOK
<1>12. ASSUME NEW c \in Commands, LogoutPush(c) PROVE TypeOK'
    BY <1>12, EndTypes DEF LogoutPush, TypeOK
<1>13. ASSUME NEW c \in Commands, SaveCreate(c) \/ SaveWrite(c) \/ SaveSync(c) \/ SaveClose(c)
       PROVE  TypeOK'
    BY <1>13 DEF SaveCreate, SaveWrite, SaveSync, SaveClose, Saving, TypeOK
<1>14. ASSUME NEW c \in Commands, SaveRename(c) PROVE TypeOK'
  <2>1. [saving[c] EXCEPT !.synced = (temp[c] = "synced")] \in Records
    <3>1. saving[c] \in Records /\ (temp[c] = "synced") \in BOOLEAN
        BY DEF TypeOK
    <3> QED
        BY <3>1, Zenon DEF Records
  <2> QED
      BY <1>14, <2>1 DEF SaveRename, TypeOK
<1>15. ASSUME NEW c \in Commands, SaveReturns(c) PROVE TypeOK'
  <2>1. temp' \in [Commands -> Temps]
      BY <1>15 DEF SaveReturns, TypeOK
  <2>2. CASE End(c)
      BY <1>15, <2>1, <2>2, EndTypes DEF SaveReturns, TypeOK
  <2> QED
      BY <1>15, <2>1, <2>2 DEF SaveReturns, TypeOK
<1>16. ASSUME NEW c \in Commands, Killed(c) PROVE TypeOK'
    BY <1>16, GoneTypes, {c} \in SUBSET Commands DEF Killed, TypeOK
<1>17. CASE PowerFails
  <2>1. torn' \in BOOLEAN
      BY <1>17, Zenon DEF PowerFails, TypeOK
  <2>2. {c \in Commands : Running(c)} \in SUBSET Commands
      OBVIOUS
  <2> QED
      BY <1>17, <2>1, <2>2, GoneTypes DEF PowerFails, TypeOK
<1>18. CASE UNCHANGED vars
    BY <1>18 DEF vars, TypeOK
<1> QED
    BY <1>1, <1>2, <1>3, <1>4, <1>5, <1>6, <1>7, <1>8, <1>9, <1>10, <1>11, <1>12, <1>13,
       <1>14, <1>15, <1>16, <1>17, <1>18 DEF Next, Step

--------------------------------------------------------------------------------
(* Which command is at which step. *)

LEMMA GoneKind ==
    ASSUME TypeOK, KindInv, NEW C \in SUBSET Commands, NEW s \in {"ended", "dead"},
           Gone(C, s), UNCHANGED <<kind, calls>>
    PROVE  KindInv'
<1>1. s \notin SaveSteps \cup {"calling", "loaded", "watching"}
    BY DEF SaveSteps
<1>2. \A d \in Commands : /\ d \in C => step'[d] = s
                          /\ d \notin C => step'[d] = step[d] /\ code'[d] = code[d]
    BY DEF Gone, TypeOK
<1> QED
    BY <1>1, <1>2 DEF KindInv

LEMMA KindStep ==
    ASSUME TypeOK, KindInv, [Next]_vars
    PROVE  KindInv'
<1> USE DEF KindInv, SaveSteps
<1>0. ASSUME NEW c \in Commands, End(c), UNCHANGED <<kind, calls>> PROVE KindInv'
    BY <1>0, GoneKind, {c} \in SUBSET Commands DEF End
<1>1. ASSUME NEW c \in Commands, StartLogin(c) PROVE KindInv'
  <2>1. /\ step' = [step EXCEPT ![c] = "calling"] /\ calls' = [calls EXCEPT ![c] = 1]
        /\ kind' = kind /\ kind[c] = "login"
        /\ \A d \in Commands \ {c} : code'[d] = code[d]
      BY <1>1, TypeParts, AuthenticateTypes DEF StartLogin
  <2> QED
      BY <2>1 DEF TypeOK
<1>2. ASSUME NEW c \in Commands, SignIn(c) PROVE KindInv'
  <2>1. UNCHANGED <<code, kind, step, calls>>
      BY <1>2 DEF SignIn, Request, InitiatePKCE, SubmitCredentials, Verify2FA,
                  AuthorizationCode, ExchangeAuthorizationCode, RotateTokens,
                  AuthenticateLegacy
  <2> QED
      BY <2>1
<1>3. ASSUME NEW c \in Commands, PromptCode(c) PROVE KindInv'
  <2>1. CASE End(c) /\ UNCHANGED <<calls, service>>
      BY <1>0, <1>3, <2>1 DEF PromptCode
  <2>2. CASE calls' = [calls EXCEPT ![c] = @ + 1] /\ UNCHANGED <<step, loaded, saving>>
             /\ \E otp \in Codes \ NoCode : Authenticate(c, otp)
    <3>1. code'[c] # "" /\ \A d \in Commands \ {c} : code'[d] = code[d]
        BY <2>2, TypeParts, AuthenticateTypes DEF NoCode
    <3>2. kind' = kind /\ step' = step /\ \A d \in Commands \ {c} : calls'[d] = calls[d]
        BY <1>3, <2>2 DEF PromptCode, TypeOK
    <3> QED
        BY <3>1, <3>2
  <2> QED
      BY <1>3, <2>1, <2>2 DEF PromptCode
<1>4. ASSUME NEW c \in Commands, LoginAnswered(c) PROVE KindInv'
  <2>1. UNCHANGED <<kind, calls>> /\ kind[c] = "login"
      BY <1>4 DEF LoginAnswered
  <2>2. CASE End(c)
      BY <1>0, <2>1, <2>2
  <2>3. CASE step' = [step EXCEPT ![c] = "create"] /\ UNCHANGED code
      BY <2>1, <2>3 DEF TypeOK
  <2> QED
      BY <1>4, <2>2, <2>3 DEF LoginAnswered, Save
<1>5. ASSUME NEW c \in Commands, StartApp(c) PROVE KindInv'
    BY <1>5 DEF StartApp, TypeOK
<1>6. ASSUME NEW c \in Commands, AppCalls(c) PROVE KindInv'
  <2>1. /\ kind' = kind /\ step' = step /\ kind[c] = "app"
        /\ \A d \in Commands \ {c} : calls'[d] = calls[d]
      BY <1>6 DEF AppCalls, TypeOK
  <2>2. \A d \in Commands \ {c} : code'[d] = code[d]
      BY <1>6, TypeParts, AuthenticateTypes DEF AppCalls, CloseSession
  <2> QED
      BY <2>1, <2>2
<1>7. ASSUME NEW c \in Commands, StartRefresh(c) PROVE KindInv'
  <2>1. UNCHANGED <<kind, calls>> /\ kind[c] = "refresh"
      BY <1>7 DEF StartRefresh
  <2>2. CASE End(c)
      BY <1>0, <2>1, <2>2
  <2>3. CASE step' = [step EXCEPT ![c] = "loaded"] /\ UNCHANGED code
      BY <2>1, <2>3 DEF TypeOK
  <2> QED
      BY <1>7, <2>2, <2>3 DEF StartRefresh
<1>8. ASSUME NEW c \in Commands, RefreshLogin(c) PROVE KindInv'
  <2>1. UNCHANGED <<kind, calls>> /\ kind[c] = "refresh"
      BY <1>8 DEF RefreshLogin
  <2>2. CASE End(c)
      BY <1>0, <2>1, <2>2
  <2>3. CASE step' = [step EXCEPT ![c] = "create"] /\ UNCHANGED code
      BY <2>1, <2>3 DEF TypeOK
  <2> QED
      BY <1>8, <2>2, <2>3 DEF RefreshLogin, Save
<1>9. ASSUME NEW c \in Commands, StartWatch(c) PROVE KindInv'
    BY <1>9 DEF StartWatch, TypeOK
<1>10. ASSUME NEW c \in Commands, WatchEvent(c) PROVE KindInv'
  <2>1. kind' = kind /\ kind[c] = "watch"
      BY <1>10 DEF WatchEvent
  <2>2. CASE End(c) /\ UNCHANGED calls
      BY <1>0, <2>1, <2>2
  <2>3. CASE /\ step' = [step EXCEPT ![c] = "create"] /\ UNCHANGED code
             /\ calls' = [calls EXCEPT ![c] = @ + 1]
    <3>1. \A d \in Commands \ {c} : calls'[d] = calls[d] /\ step'[d] = step[d]
        BY <2>3 DEF TypeOK
    <3>2. step'[c] = "create"
        BY <2>3 DEF TypeOK
    <3> QED
        BY <2>1, <2>3, <3>1, <3>2, ZenonT(60)
  <2> QED
      BY <1>10, <2>2, <2>3 DEF WatchEvent, Save
<1>11. ASSUME NEW c \in Commands, StartLogout(c) PROVE KindInv'
  <2>1. CASE End(c)
      BY <1>0, <1>11, <2>1 DEF StartLogout
  <2>2. CASE ~End(c)
      BY <1>11, <2>2 DEF StartLogout, TypeOK
  <2> QED
      BY <2>1, <2>2
<1>12. ASSUME NEW c \in Commands, LogoutPush(c) PROVE KindInv'
  <2>1. End(c) /\ UNCHANGED <<kind, calls>>
      BY <1>12 DEF LogoutPush
  <2> QED
      BY <1>0, <2>1
<1>13. ASSUME NEW c \in Commands, SaveCreate(c) \/ SaveWrite(c) \/ SaveSync(c) \/ SaveClose(c)
       PROVE  KindInv'
  <2>1. /\ step[c] \in SaveSteps /\ UNCHANGED <<kind, calls, code>>
        /\ \E n \in SaveSteps \cup {"failed"} : step' = [step EXCEPT ![c] = n]
    <3>1. CASE SaveCreate(c) \/ SaveWrite(c)
        BY <3>1 DEF SaveCreate, SaveWrite, Saving
    <3>2. CASE SaveSync(c) \/ SaveClose(c)
        BY <3>2 DEF SaveSync, SaveClose, Saving
    <3> QED
        BY <1>13, <3>1, <3>2
  <2>2. /\ step'[c] \in SaveSteps \cup {"failed"}
        /\ \A d \in Commands \ {c} : step'[d] = step[d]
      BY <2>1 DEF TypeOK
  <2> QED
      BY <2>1, <2>2
<1>14. ASSUME NEW c \in Commands, SaveRename(c) PROVE KindInv'
    BY <1>14, ZenonT(60) DEF SaveRename, TypeOK
<1>15. ASSUME NEW c \in Commands, SaveReturns(c) PROVE KindInv'
  <2>1. CASE End(c)
      BY <1>0, <1>15, <2>1 DEF SaveReturns
  <2>2. CASE ~End(c)
    <3>1. /\ kind[c] = "watch" /\ step' = [step EXCEPT ![c] = "watching"]
          /\ UNCHANGED <<kind, calls, code>>
        BY <1>15, <2>2 DEF SaveReturns
    <3> QED
        BY <3>1 DEF TypeOK
  <2> QED
      BY <2>1, <2>2
<1>16. ASSUME NEW c \in Commands, Killed(c) PROVE KindInv'
    BY <1>16, GoneKind, {c} \in SUBSET Commands DEF Killed
<1>17. CASE PowerFails
  <2>1. {c \in Commands : Running(c)} \in SUBSET Commands
      OBVIOUS
  <2> QED
      BY <1>17, <2>1, GoneKind DEF PowerFails
<1>18. CASE UNCHANGED vars
    BY <1>18 DEF vars
<1> QED
    BY <1>1, <1>2, <1>3, <1>4, <1>5, <1>6, <1>7, <1>8, <1>9, <1>10, <1>11, <1>12, <1>13,
       <1>14, <1>15, <1>16, <1>17, <1>18 DEF Next, Step

--------------------------------------------------------------------------------
(* The files and the temporary files. *)

\* A step of a command outside save: it has no temporary file and makes none.
LEMMA QuietStep ==
    ASSUME TypeOK, SaveInv, NEW c \in Commands,
           step[c] \in {"idle", "calling", "loaded", "watching", "logout"},
           \A d \in Commands \ {c} : step'[d] = step[d],
           step'[c] \notin {"close", "rename"},
           UNCHANGED <<temp, torn>>, tokens' \subseteq tokens, push' \subseteq push
    PROVE  SaveInv'
BY DEF SaveInv, FilesWhole

LEMMA SaveStep ==
    ASSUME TypeOK, KindInv, SaveInv, [Next]_vars
    PROVE  SaveInv'
<1> DEFINE Outside == {"idle", "calling", "loaded", "watching", "logout"}
<1>0. ASSUME NEW c \in Commands, NEW n \in CmdSteps, step' = [step EXCEPT ![c] = n]
      PROVE  step'[c] = n /\ \A d \in Commands \ {c} : step'[d] = step[d]
    BY <1>0 DEF TypeOK
<1>e. ASSUME NEW c \in Commands, End(c)
      PROVE  step'[c] = "ended" /\ \A d \in Commands \ {c} : step'[d] = step[d]
    BY <1>e DEF End, Gone, TypeOK
<1>1. ASSUME NEW c \in Commands,
             \/ StartLogin(c) \/ SignIn(c) \/ PromptCode(c) \/ LoginAnswered(c)
             \/ StartApp(c) \/ AppCalls(c) \/ StartRefresh(c) \/ RefreshLogin(c)
             \/ StartWatch(c) \/ WatchEvent(c) \/ StartLogout(c) \/ LogoutPush(c)
      PROVE  SaveInv'
  <2>1. /\ step[c] \in Outside
        /\ UNCHANGED <<temp, torn>> /\ tokens' \subseteq tokens /\ push' \subseteq push
      BY <1>1 DEF StartLogin, SignIn, PromptCode, LoginAnswered, StartApp, AppCalls,
         StartRefresh, RefreshLogin, StartWatch, WatchEvent, StartLogout, LogoutPush
  <2>2. \/ \E n \in {"calling", "create", "loaded", "watching", "logout", "ended"} :
              step' = [step EXCEPT ![c] = n]
        \/ End(c) \/ UNCHANGED step
    <3>1. CASE StartLogin(c)
        BY <3>1 DEF StartLogin
    <3>2. CASE SignIn(c)
        BY <3>2 DEF SignIn
    <3>3. CASE PromptCode(c)
        BY <3>3 DEF PromptCode
    <3>4. CASE LoginAnswered(c)
        BY <3>4 DEF LoginAnswered, Save
    <3>5. CASE StartApp(c) \/ AppCalls(c)
        BY <3>5 DEF StartApp, AppCalls
    <3>6. CASE StartRefresh(c)
        BY <3>6 DEF StartRefresh
    <3>7. CASE RefreshLogin(c)
        BY <3>7 DEF RefreshLogin, Save
    <3>8. CASE StartWatch(c)
        BY <3>8 DEF StartWatch
    <3>9. CASE WatchEvent(c)
        BY <3>9 DEF WatchEvent, Save
    <3>10. CASE StartLogout(c) \/ LogoutPush(c)
        BY <3>10 DEF StartLogout, LogoutPush
    <3> QED
        BY <1>1, <3>1, <3>2, <3>3, <3>4, <3>5, <3>6, <3>7, <3>8, <3>9, <3>10
  <2>3. step'[c] \notin {"close", "rename"} /\ \A d \in Commands \ {c} : step'[d] = step[d]
    <3>1. CASE \E n \in {"calling", "create", "loaded", "watching", "logout", "ended"} :
                  step' = [step EXCEPT ![c] = n]
        BY <3>1 DEF TypeOK
    <3> QED
        BY <2>1, <2>2, <3>1, <1>e
  <2> QED
      BY <2>1, <2>3, QuietStep
<1>2. ASSUME NEW c \in Commands, NEW from \in CmdSteps, NEW to \in CmdSteps,
             NEW content \in Temps, Saving(c, from, to, content),
             to \in {"close", "rename"} => content = "synced",
             to \in {"write", "sync", "close", "rename"}
      PROVE  SaveInv'
    BY <1>2 DEF Saving, SaveInv, FilesWhole, TypeOK
<1>3. ASSUME NEW c \in Commands, SaveCreate(c) \/ SaveWrite(c) \/ SaveSync(c) \/ SaveClose(c)
      PROVE  SaveInv'
  <2> USE DEF CmdSteps, Temps
  <2>1. CASE SaveCreate(c)
      BY <1>2, <2>1 DEF SaveCreate
  <2>2. CASE SaveWrite(c)
      BY <1>2, <2>2 DEF SaveWrite
  <2>3. CASE SaveSync(c)
      BY <1>2, <2>3 DEF SaveSync
  <2>4. CASE SaveClose(c)
    <3>1. temp[c] = "synced"
        BY <2>4 DEF SaveClose, Saving, SaveInv
    <3> QED
        BY <1>2, <2>4, <3>1 DEF SaveClose
  <2> QED
      BY <1>3, <2>1, <2>2, <2>3, <2>4
<1>4. ASSUME NEW c \in Commands, SaveRename(c) PROVE SaveInv'
  <2> DEFINE record == [saving[c] EXCEPT !.synced = (temp[c] = "synced")]
  <2>1. step[c] = "rename" /\ temp[c] = "synced"
      BY <1>4 DEF SaveRename, SaveInv
  <2>2. record.synced
      BY <2>1 DEF TypeOK, Records
  <2>3. tokens' \subseteq tokens \cup {record} /\ push' \subseteq push \cup {record}
        /\ UNCHANGED torn
      BY <1>4 DEF SaveRename
  <2>4. FilesWhole'
      BY <2>2, <2>3 DEF SaveInv, FilesWhole
  <2>5. \/ step' = [step EXCEPT ![c] = "failed"] /\ UNCHANGED temp
        \/ step' = [step EXCEPT ![c] = "saved"] /\ temp' = [temp EXCEPT ![c] = "none"]
      BY <1>4 DEF SaveRename
  <2> QED
      BY <2>4, <2>5 DEF SaveInv, TypeOK
<1>5. ASSUME NEW c \in Commands, SaveReturns(c) PROVE SaveInv'
  <2>1. /\ \/ temp' = [temp EXCEPT ![c] = "none"]
           \/ temp[c] # "none" /\ temp' = [temp EXCEPT ![c] = "left"]
        /\ UNCHANGED <<tokens, push, torn>>
        /\ \/ step[c] = "saved" /\ step' = [step EXCEPT ![c] = "watching"]
           \/ End(c)
      BY <1>5 DEF SaveReturns
  <2>2. /\ step'[c] = "ended" \/ (step'[c] = "watching" /\ step[c] = "saved")
        /\ \A d \in Commands \ {c} : step'[d] = step[d]
      BY <2>1, <1>e DEF TypeOK
  <2>3. step[c] = "saved" => temp[c] = "none"
      BY DEF SaveInv
  <2> QED
      BY <2>1, <2>2, <2>3 DEF SaveInv, FilesWhole, TypeOK
<1>6. ASSUME NEW C \in SUBSET Commands, Gone(C, "dead"), UNCHANGED <<temp, tokens, push, torn>>
      PROVE  SaveInv'
  <2>1. \A d \in Commands : /\ d \in C => step'[d] = "dead"
                            /\ d \notin C => step'[d] = step[d]
      BY <1>6 DEF Gone
  <2> QED
      BY <1>6, <2>1 DEF SaveInv, FilesWhole
<1>7. ASSUME NEW c \in Commands, Killed(c) PROVE SaveInv'
    BY <1>6, <1>7, {c} \in SUBSET Commands DEF Killed
<1>8. CASE PowerFails
  <2>1. {c \in Commands : Running(c)} \in SUBSET Commands
      OBVIOUS
  <2>2. UNCHANGED torn
      BY <1>8, Zenon DEF PowerFails, SaveInv, FilesWhole, TypeOK
  <2> QED
      BY <1>6, <1>8, <2>1, <2>2 DEF PowerFails
<1>9. CASE UNCHANGED vars
    BY <1>9 DEF vars, SaveInv, FilesWhole
<1> QED
    BY <1>1, <1>3, <1>4, <1>5, <1>7, <1>8, <1>9 DEF Next, Step

--------------------------------------------------------------------------------
(* Who may hold a refresh token. *)

\* A login no command but the one that signs in can hold a token of.
Unsaved(l) ==
    /\ l \in Sessions
    /\ kind[l] = "login" => step[l] \in {"idle", "calling"} \cup SaveSteps
Saver(c) == step[c] \in SaveSteps /\ kind[c] # "watch"

HolderInv ==
    /\ \A r \in tokens : ~Unsaved(r.login) /\ r.refresh <= newest[r.login]
    /\ \A c \in Commands : step[c] = "loaded" =>
          ~Unsaved(loaded[c].login) /\ loaded[c].refresh <= newest[loaded[c].login]
    /\ \A c \in Commands : Saver(c) =>
          /\ kind[c] = "login" => saving[c].login = c
          /\ kind[c] = "refresh" => ~Unsaved(saving[c].login) /\ saving[c].refresh # 0
          /\ saving[c].refresh # 0 => saving[c].refresh = newest[saving[c].login]
    /\ rotates => \A c \in Commands : Saver(c) /\ saving[c].refresh # 0 =>
          /\ \A r \in tokens : r.login = saving[c].login => r.refresh # newest[r.login]
          /\ \A d \in Commands : step[d] = "loaded" /\ loaded[d].login = saving[c].login
                => loaded[d].refresh # newest[loaded[d].login]
          /\ \A d \in Commands \ {c} : Saver(d) => saving[d].login # saving[c].login

GrantInv ==
    \A c \in Commands :
        kind[c] = "login" /\ step[c] = "calling" /\ call[c] = "none" /\ result[c] = "tokens"
            => granted[c] \in {0, newest[c]}

\* A challenge whose code the service waits for is the one the session has pending, unless
\* the session is done.
ChallengeOf(c) ==
    /\ call[c] = "signin" => pending[c]
    /\ call[c] = "exchange" => stage[c] = "verified"
    /\ stage[c] = "waiting" => pending[c] \/ done[c]

\* Where the call of a login may still have a code delivered, none has been; a first call
\* that asks for a code leaves a challenge, or none has been delivered for one.
CodesOf(c) ==
    /\ call[c] \in {"begin", "signin"} => codes[c] = 0
    /\ call[c] = "verify" => code[c] \notin NoCode
    /\ call[c] = "legacy" /\ code[c] \in NoCode => pending[c] \/ codes[c] = 0
    /\ call[c] = "none" /\ result[c] = "requires2FA" /\ code[c] \in NoCode
          => pending[c] \/ codes[c] = 0
    /\ call[c] # "none" /\ code[c] \in NoCode => legacyCodes[c] = 0

\* What the code of a login and the state of its session say of the codes delivered.
CodeInv ==
    \A c \in Commands :
        /\ step[c] = "idle" =>
              /\ codes[c] = 0 /\ legacyCodes[c] = 0
              /\ ~pending[c] /\ call[c] = "none" /\ stage[c] = "none"
        /\ step[c] = "calling" => ChallengeOf(c)
        /\ kind[c] = "login" => codes[c] \in {0, 1} /\ legacyCodes[c] \in {0, 1}
        /\ kind[c] = "login" /\ step[c] = "calling" => CodesOf(c)

\* A step that gives nobody a token: each command keeps what it has, lets go of it, or
\* is of a kind that never has any.
KeepsOrDrops(d) ==
    \/ UNCHANGED <<step[d], loaded[d], saving[d]>>
    \/ step'[d] \notin {"idle", "calling", "loaded"} \cup SaveSteps
    \/ step[d] \in SaveSteps /\ step'[d] \in SaveSteps /\ UNCHANGED saving[d]
    \/ step[d] = "idle" /\ step'[d] = "calling"
    \/ kind[d] \in {"watch", "logout", "app"} /\ step'[d] # "loaded"
       /\ (step'[d] \in SaveSteps => kind[d] = "watch")

LEMMA HolderFrame ==
    ASSUME TypeOK, KindInv, HolderInv, UNCHANGED <<kind, newest, rotates>>,
           tokens' \subseteq tokens, \A d \in Commands : KeepsOrDrops(d)
    PROVE  HolderInv'
<1> USE DEF KeepsOrDrops, SaveSteps
<1>1. \A l \in Logins : ~Unsaved(l) => ~Unsaved(l)'
    BY DEF Unsaved, KindInv
<1>2. \A d \in Commands : step'[d] = "loaded" => step[d] = "loaded" /\ loaded'[d] = loaded[d]
    OBVIOUS
<1>3. \A d \in Commands : Saver(d)' => Saver(d) /\ saving'[d] = saving[d]
    BY DEF Saver
<1>4. /\ \A r \in tokens : r.login \in Logins
      /\ \A d \in Commands : loaded[d].login \in Logins /\ saving[d].login \in Logins
    BY DEF TypeOK, Records
<1>5. (\A r \in tokens : ~Unsaved(r.login) /\ r.refresh <= newest[r.login])'
    BY <1>1, <1>4 DEF HolderInv
<1>6. (\A c \in Commands : step[c] = "loaded" =>
          ~Unsaved(loaded[c].login) /\ loaded[c].refresh <= newest[loaded[c].login])'
    BY <1>1, <1>2, <1>4 DEF HolderInv
<1>7. (\A c \in Commands : Saver(c) =>
          /\ kind[c] = "login" => saving[c].login = c
          /\ kind[c] = "refresh" => ~Unsaved(saving[c].login) /\ saving[c].refresh # 0
          /\ saving[c].refresh # 0 => saving[c].refresh = newest[saving[c].login])'
    BY <1>1, <1>3, <1>4 DEF HolderInv
<1>8. (rotates => \A c \in Commands : Saver(c) /\ saving[c].refresh # 0 =>
          /\ \A r \in tokens : r.login = saving[c].login => r.refresh # newest[r.login]
          /\ \A d \in Commands : step[d] = "loaded" /\ loaded[d].login = saving[c].login
                => loaded[d].refresh # newest[loaded[d].login]
          /\ \A d \in Commands \ {c} : Saver(d) => saving[d].login # saving[c].login)'
    BY <1>2, <1>3 DEF HolderInv
<1> QED
    BY <1>5, <1>6, <1>7, <1>8 DEF HolderInv

LEMMA HolderStep ==
    ASSUME TypeOK, KindInv, HolderInv, GrantInv, [Next]_vars
    PROVE  HolderInv'
<1> USE DEF SaveSteps
<1>c. ASSUME NEW c \in Commands, NEW C \in SUBSET Commands, C = {c},
             UNCHANGED <<kind, newest, rotates>>, tokens' \subseteq tokens,
             \A d \in Commands \ {c} : UNCHANGED <<step[d], loaded[d], saving[d]>>,
             KeepsOrDrops(c)
      PROVE  HolderInv'
  <2>1. \A d \in Commands : KeepsOrDrops(d)
      BY <1>c DEF KeepsOrDrops
  <2> QED
      BY <1>c, <2>1, HolderFrame
<1>g. ASSUME NEW C \in SUBSET Commands, NEW s \in {"ended", "dead"}, Gone(C, s),
             UNCHANGED <<kind, newest, rotates>>, tokens' \subseteq tokens
      PROVE  HolderInv'
  <2>1. s \notin {"idle", "calling", "loaded"} \cup SaveSteps
      OBVIOUS
  <2>2. \A d \in Commands :
           /\ d \in C => step'[d] = s
           /\ d \notin C => UNCHANGED <<step[d], loaded[d], saving[d]>>
      BY <1>g DEF Gone, TypeOK
  <2>3. \A d \in Commands : KeepsOrDrops(d)
      BY <2>1, <2>2 DEF KeepsOrDrops
  <2> QED
      BY <1>g, <2>3, HolderFrame
<1>e. ASSUME NEW c \in Commands, End(c),
             UNCHANGED <<kind, newest, rotates>>, tokens' \subseteq tokens
      PROVE  HolderInv'
    BY <1>e, <1>g, {c} \in SUBSET Commands DEF End
<1>1. ASSUME NEW c \in Commands, StartLogin(c) PROVE HolderInv'
  <2>1. /\ step[c] = "idle" /\ step' = [step EXCEPT ![c] = "calling"]
        /\ UNCHANGED <<kind, loaded, saving, tokens>>
      BY <1>1 DEF StartLogin
  <2>2. UNCHANGED <<newest, rotates>>
      BY <1>1 DEF StartLogin, Authenticate
  <2>3. KeepsOrDrops(c) /\ \A d \in Commands \ {c} : UNCHANGED <<step[d], loaded[d], saving[d]>>
      BY <2>1 DEF KeepsOrDrops, TypeOK
  <2> QED
      BY <1>c, <2>1, <2>2, <2>3, {c} \in SUBSET Commands
<1>2. ASSUME NEW c \in Commands, SignIn(c) PROVE HolderInv'
  <2>1. Unsaved(c)
      BY <1>2 DEF SignIn, Unsaved, KindInv
  <2>2. \A l \in Logins : ~Unsaved(l) => newest'[l] = newest[l]
    <3>1. newest' \in {newest, [newest EXCEPT ![c] = newest[c] + 1]}
        BY <1>2, RequestIssues DEF SignIn
    <3> QED
        BY <2>1, <3>1 DEF TypeOK
  <2>3. UNCHANGED <<kind, step, loaded, saving, tokens>>
      BY <1>2 DEF SignIn
  <2>4. UNCHANGED rotates
      BY <1>2 DEF SignIn, Request, InitiatePKCE, SubmitCredentials, Verify2FA,
         AuthorizationCode, ExchangeAuthorizationCode, RotateTokens, AuthenticateLegacy
  <2>5. \A d \in Commands : Saver(d) => newest'[saving[d].login] = newest[saving[d].login]
    <3> TAKE d \in Commands
    <3> HAVE Saver(d)
    <3>1. kind[d] \in {"login", "refresh"} /\ saving[d].login \in Logins
        BY DEF Saver, KindInv, TypeOK, Records
    <3>2. CASE kind[d] = "refresh"
        BY <2>2, <3>1, <3>2 DEF HolderInv
    <3>3. CASE kind[d] = "login"
      <4>1. saving[d].login = d /\ d # c
          BY <1>2, <3>3 DEF HolderInv, Saver, SignIn
      <4> QED
          BY <1>2, <3>1, <4>1, RequestIssues DEF SignIn, TypeOK
    <3> QED
        BY <3>1, <3>2, <3>3
  <2>6. /\ \A r \in tokens : r.login \in Logins
        /\ \A d \in Commands : loaded[d].login \in Logins
      BY DEF TypeOK, Records
  <2>7. \A l \in Logins : Unsaved(l)' = Unsaved(l)
      BY <2>3 DEF Unsaved
  <2>8. \A d \in Commands : Saver(d)' = Saver(d)
      BY <2>3 DEF Saver
  <2>9. \A r \in tokens : newest'[r.login] = newest[r.login]
      BY <2>2, <2>6 DEF HolderInv
  <2>10. \A d \in Commands : step[d] = "loaded"
            => newest'[loaded[d].login] = newest[loaded[d].login]
      BY <2>2, <2>6 DEF HolderInv
  <2> QED
      BY <2>3, <2>4, <2>5, <2>6, <2>7, <2>8, <2>9, <2>10 DEF HolderInv, Unsaved, Saver
<1>3. ASSUME NEW c \in Commands, PromptCode(c) PROVE HolderInv'
  <2>1. UNCHANGED <<kind, tokens>>
      BY <1>3 DEF PromptCode
  <2>2. CASE End(c) /\ UNCHANGED service
      BY <1>e, <2>1, <2>2
  <2>3. CASE /\ \E otp \in Codes \ NoCode : Authenticate(c, otp)
             /\ UNCHANGED <<step, loaded, saving>>
    <3>1. UNCHANGED <<newest, rotates>>
        BY <2>3 DEF Authenticate
    <3> QED
        BY <2>1, <2>3, <3>1, HolderFrame DEF KeepsOrDrops
  <2> QED
      BY <1>3, <2>2, <2>3 DEF PromptCode
<1>4. ASSUME NEW c \in Commands, LoginAnswered(c) PROVE HolderInv'
  <2>1. /\ kind[c] = "login" /\ step[c] = "calling" /\ Unsaved(c)
        /\ UNCHANGED <<kind, tokens, newest, rotates>>
      BY <1>4 DEF LoginAnswered, Unsaved
  <2>2. CASE End(c)
      BY <1>e, <2>1, <2>2
  <2>3. CASE ~End(c)
    <3> DEFINE record == Record(c, granted[c])
    <3>1. /\ call[c] = "none" /\ result[c] = "tokens"
          /\ step' = [step EXCEPT ![c] = "create"]
          /\ saving' = [saving EXCEPT ![c] = record] /\ UNCHANGED loaded
        BY <1>4, <2>3 DEF LoginAnswered, Save
    <3>2. record.login = c /\ record.refresh \in {0, newest[c]}
        BY <2>1, <3>1 DEF Record, GrantInv
    <3>3. \A l \in Logins : Unsaved(l)' = Unsaved(l)
        BY <2>1, <3>1 DEF Unsaved, TypeOK
    <3>4. /\ \A r \in tokens : r.login # c /\ r.login \in Logins
          /\ \A d \in Commands : /\ loaded[d].login \in Logins /\ saving[d].login \in Logins
                                 /\ step[d] = "loaded" => loaded[d].login # c
          /\ \A d \in Commands \ {c} : Saver(d) => saving[d].login # c
      <4>1. \A d \in Commands \ {c} : Saver(d) => saving[d].login # c
          BY <2>1 DEF HolderInv, Saver, KindInv
      <4> QED
          BY <2>1, <4>1 DEF HolderInv, TypeOK, Records
    <3>5. /\ step'[c] = "create" /\ saving'[c] = record
          /\ \A d \in Commands \ {c} : UNCHANGED <<step[d], saving[d]>>
        BY <3>1 DEF TypeOK
    <3>6. \A d \in Commands \ {c} : Saver(d)' = Saver(d)
        BY <2>1, <3>5 DEF Saver
    <3>7. (\A r \in tokens : ~Unsaved(r.login) /\ r.refresh <= newest[r.login])'
        BY <2>1, <3>3, <3>4 DEF HolderInv
    <3>8. (\A d \in Commands : step[d] = "loaded" =>
              ~Unsaved(loaded[d].login) /\ loaded[d].refresh <= newest[loaded[d].login])'
        BY <2>1, <3>1, <3>3, <3>4, <3>5 DEF HolderInv
    <3>9. (\A d \in Commands : Saver(d) =>
              /\ kind[d] = "login" => saving[d].login = d
              /\ kind[d] = "refresh" => ~Unsaved(saving[d].login) /\ saving[d].refresh # 0
              /\ saving[d].refresh # 0 => saving[d].refresh = newest[saving[d].login])'
        BY <2>1, <3>2, <3>3, <3>4, <3>5, <3>6 DEF HolderInv
    <3>10. (rotates => \A b \in Commands : Saver(b) /\ saving[b].refresh # 0 =>
              /\ \A r \in tokens : r.login = saving[b].login => r.refresh # newest[r.login]
              /\ \A d \in Commands : step[d] = "loaded" /\ loaded[d].login = saving[b].login
                    => loaded[d].refresh # newest[loaded[d].login]
              /\ \A d \in Commands \ {b} : Saver(d) => saving[d].login # saving[b].login)'
        BY <2>1, <3>1, <3>2, <3>4, <3>5, <3>6 DEF HolderInv
    <3> QED
        BY <3>7, <3>8, <3>9, <3>10 DEF HolderInv
  <2> QED
      BY <2>2, <2>3
<1>5. ASSUME NEW c \in Commands, StartApp(c) \/ AppCalls(c) PROVE HolderInv'
  <2>1. /\ kind[c] = "app" /\ step'[c] = "calling" /\ UNCHANGED <<kind, tokens>>
        /\ \A d \in Commands \ {c} : UNCHANGED <<step[d], loaded[d], saving[d]>>
      BY <1>5 DEF StartApp, AppCalls, TypeOK
  <2>2. UNCHANGED <<newest, rotates>>
      BY <1>5 DEF StartApp, AppCalls, Authenticate, CloseSession
  <2> QED
      BY <1>c, <2>1, <2>2, {c} \in SUBSET Commands DEF KeepsOrDrops
<1>6. ASSUME NEW c \in Commands, StartRefresh(c) PROVE HolderInv'
  <2>1. UNCHANGED <<kind, tokens, newest, rotates>> /\ kind[c] = "refresh"
      BY <1>6 DEF StartRefresh
  <2>2. CASE End(c)
      BY <1>e, <2>1, <2>2
  <2>3. CASE ~End(c)
    <3>1. PICK r \in tokens : /\ loaded' = [loaded EXCEPT ![c] = r]
                              /\ step' = [step EXCEPT ![c] = "loaded"]
                              /\ UNCHANGED saving
        BY <1>6, <2>3 DEF StartRefresh
    <3>2. \A l \in Logins : Unsaved(l)' = Unsaved(l)
        BY <2>1, <3>1 DEF Unsaved, TypeOK
    <3>3. /\ \A q \in tokens : q.login \in Logins
          /\ \A d \in Commands : loaded[d].login \in Logins /\ saving[d].login \in Logins
        BY DEF TypeOK, Records
    <3>4. /\ step'[c] = "loaded" /\ loaded'[c] = r
          /\ \A d \in Commands \ {c} : UNCHANGED <<step[d], loaded[d]>>
        BY <3>1 DEF TypeOK
    <3>5. \A d \in Commands : Saver(d)' => Saver(d)
        BY <2>1, <3>4 DEF Saver
    <3>6. (\A q \in tokens : ~Unsaved(q.login) /\ q.refresh <= newest[q.login])'
        BY <2>1, <3>2, <3>3 DEF HolderInv
    <3>7. (\A d \in Commands : step[d] = "loaded" =>
              ~Unsaved(loaded[d].login) /\ loaded[d].refresh <= newest[loaded[d].login])'
        BY <2>1, <3>2, <3>3, <3>4 DEF HolderInv
    <3>8. (\A d \in Commands : Saver(d) =>
              /\ kind[d] = "login" => saving[d].login = d
              /\ kind[d] = "refresh" => ~Unsaved(saving[d].login) /\ saving[d].refresh # 0
              /\ saving[d].refresh # 0 => saving[d].refresh = newest[saving[d].login])'
        BY <2>1, <3>1, <3>2, <3>3, <3>5 DEF HolderInv
    <3>9. (rotates => \A b \in Commands : Saver(b) /\ saving[b].refresh # 0 =>
              /\ \A q \in tokens : q.login = saving[b].login => q.refresh # newest[q.login]
              /\ \A d \in Commands : step[d] = "loaded" /\ loaded[d].login = saving[b].login
                    => loaded[d].refresh # newest[loaded[d].login]
              /\ \A d \in Commands \ {b} : Saver(d) => saving[d].login # saving[b].login)'
        BY <2>1, <3>1, <3>4, <3>5 DEF HolderInv
    <3> QED
        BY <3>6, <3>7, <3>8, <3>9 DEF HolderInv
  <2> QED
      BY <2>2, <2>3
<1>7. ASSUME NEW c \in Commands, RefreshLogin(c) PROVE HolderInv'
  <2> DEFINE l == loaded[c].login
             new == KeepIfMissing(c, Answered(l))
  <2>1. /\ step[c] = "loaded" /\ kind[c] = "refresh" /\ l \in Logins /\ ~Unsaved(l)
        /\ loaded[c].refresh # 0 /\ loaded[c].refresh \in Nat /\ newest[l] \in Nat
        /\ UNCHANGED <<kind, tokens, rotates>>
      BY <1>7 DEF RefreshLogin, KindInv, HolderInv, TypeOK, Records
  <2>2. CASE UNCHANGED newest /\ End(c)
      BY <1>e, <2>1, <2>2
  <2>3. CASE loaded[c].refresh = newest[l] /\ Refresh(l)
    <3>1. /\ newest' = [newest EXCEPT ![l] = Refreshed(l)]
          /\ newest[l] <= newest'[l] /\ newest' \in [Logins -> Nat]
          /\ rotates => newest'[l] = newest[l] + 1
          /\ ~rotates => newest' = newest
        BY <2>1, <2>3 DEF Refresh, Refreshed, TypeOK
    <3>2. /\ \A q \in tokens : q.login \in Logins /\ q.refresh \in Nat
          /\ \A d \in Commands : /\ loaded[d].login \in Logins /\ loaded[d].refresh \in Nat
                                 /\ saving[d].login \in Logins
        BY DEF TypeOK, Records
    <3>3. rotates => \A d \in Commands : Saver(d) /\ saving[d].refresh # 0
                        => saving[d].login # l
        BY <2>1, <2>3 DEF HolderInv
    <3>4. \A k \in Logins : newest[k] \in Nat /\ newest[k] <= newest'[k]
                            /\ (k # l => newest'[k] = newest[k])
        BY <2>1, <3>1 DEF TypeOK
    <3>5. CASE End(c)
      <4>1. /\ step'[c] = "ended"
            /\ \A d \in Commands \ {c} : UNCHANGED <<step[d], loaded[d], saving[d]>>
          BY <3>5 DEF End, Gone, TypeOK
      <4>2. \A k \in Logins : ~Unsaved(k) => ~Unsaved(k)'
          BY <2>1, <4>1 DEF Unsaved
      <4>3. \A d \in Commands : Saver(d)' => Saver(d) /\ saving'[d] = saving[d]
          BY <2>1, <4>1 DEF Saver
      <4>4. (\A q \in tokens : ~Unsaved(q.login) /\ q.refresh <= newest[q.login])'
        <5> TAKE q \in tokens'
        <5>1. q \in tokens /\ q.login \in Logins /\ q.refresh \in Nat /\ newest'[q.login] \in Nat
            BY <2>1, <3>1, <3>2
        <5>2. q.refresh <= newest[q.login] /\ ~Unsaved(q.login)
            BY <5>1 DEF HolderInv
        <5> QED
            BY <3>4, <4>2, <5>1, <5>2
      <4>5. (\A d \in Commands : step[d] = "loaded" =>
                ~Unsaved(loaded[d].login) /\ loaded[d].refresh <= newest[loaded[d].login])'
        <5> TAKE d \in Commands
        <5> HAVE (step[d] = "loaded")'
        <5>1. d # c /\ step[d] = "loaded" /\ loaded'[d] = loaded[d]
            BY <4>1
        <5>2. /\ ~Unsaved(loaded[d].login) /\ loaded[d].refresh <= newest[loaded[d].login]
              /\ loaded[d].login \in Logins /\ loaded[d].refresh \in Nat
            BY <3>2, <5>1 DEF HolderInv
        <5>3. newest'[loaded[d].login] \in Nat
            BY <3>1, <5>2
        <5> QED
            BY <3>4, <4>2, <5>1, <5>2, <5>3
      <4>6. (\A d \in Commands : Saver(d) =>
                /\ kind[d] = "login" => saving[d].login = d
                /\ kind[d] = "refresh" => ~Unsaved(saving[d].login) /\ saving[d].refresh # 0
                /\ saving[d].refresh # 0 => saving[d].refresh = newest[saving[d].login])'
          BY <2>1, <3>1, <3>2, <3>3, <3>4, <4>2, <4>3 DEF HolderInv
      <4>7. (rotates => \A b \in Commands : Saver(b) /\ saving[b].refresh # 0 =>
                /\ \A q \in tokens : q.login = saving[b].login => q.refresh # newest[q.login]
                /\ \A d \in Commands : step[d] = "loaded" /\ loaded[d].login = saving[b].login
                      => loaded[d].refresh # newest[loaded[d].login]
                /\ \A d \in Commands \ {b} : Saver(d) => saving[d].login # saving[b].login)'
          BY <2>1, <3>2, <3>3, <3>4, <4>1, <4>3 DEF HolderInv
      <4> QED
          BY <4>4, <4>5, <4>6, <4>7 DEF HolderInv
    <3>6. CASE Save(c, Record(l, new))
      <4>1. /\ step'[c] = "create" /\ saving'[c] = Record(l, new) /\ UNCHANGED loaded
            /\ \A d \in Commands \ {c} : UNCHANGED <<step[d], saving[d]>>
          BY <3>6 DEF Save, TypeOK
      <4>2. saving'[c].login = l /\ saving'[c].refresh = newest'[l] /\ newest'[l] # 0
        <5>1. new = newest'[l] /\ newest'[l] # 0
            BY <2>1, <2>3, <3>1 DEF KeepIfMissing, Answered
        <5> QED
            BY <4>1, <5>1 DEF Record
      <4>3. \A k \in Logins : Unsaved(k)' = Unsaved(k)
          BY <2>1, <4>1 DEF Unsaved
      <4>4. \A d \in Commands \ {c} : Saver(d)' = Saver(d)
          BY <2>1, <4>1 DEF Saver
      <4>5. (\A q \in tokens : ~Unsaved(q.login) /\ q.refresh <= newest[q.login])'
        <5> TAKE q \in tokens'
        <5>1. q \in tokens /\ q.login \in Logins /\ q.refresh \in Nat /\ newest'[q.login] \in Nat
            BY <2>1, <3>1, <3>2
        <5>2. q.refresh <= newest[q.login] /\ ~Unsaved(q.login)
            BY <5>1 DEF HolderInv
        <5> QED
            BY <3>4, <4>3, <5>1, <5>2
      <4>6. (\A d \in Commands : step[d] = "loaded" =>
                ~Unsaved(loaded[d].login) /\ loaded[d].refresh <= newest[loaded[d].login])'
        <5> TAKE d \in Commands
        <5> HAVE (step[d] = "loaded")'
        <5>1. d # c /\ step[d] = "loaded" /\ loaded'[d] = loaded[d]
            BY <4>1
        <5>2. /\ ~Unsaved(loaded[d].login) /\ loaded[d].refresh <= newest[loaded[d].login]
              /\ loaded[d].login \in Logins /\ loaded[d].refresh \in Nat
            BY <3>2, <5>1 DEF HolderInv
        <5>3. newest'[loaded[d].login] \in Nat
            BY <3>1, <5>2
        <5> QED
            BY <3>4, <4>3, <5>1, <5>2, <5>3
      <4>7. (\A d \in Commands : Saver(d) =>
                /\ kind[d] = "login" => saving[d].login = d
                /\ kind[d] = "refresh" => ~Unsaved(saving[d].login) /\ saving[d].refresh # 0
                /\ saving[d].refresh # 0 => saving[d].refresh = newest[saving[d].login])'
        <5> TAKE d \in Commands
        <5> HAVE Saver(d)'
        <5>1. CASE d = c
            BY <2>1, <4>2, <4>3, <5>1
        <5>2. CASE d # c
          <6>1. Saver(d) /\ saving'[d] = saving[d] /\ saving[d].login \in Logins
              BY <3>2, <4>1, <4>4, <5>2
          <6>2. saving[d].refresh # 0 => newest'[saving[d].login] = newest[saving[d].login]
              BY <3>1, <3>3, <3>4, <6>1
          <6> QED
              BY <2>1, <4>3, <6>1, <6>2 DEF HolderInv
        <5> QED
            BY <5>1, <5>2
      <4>8. ASSUME rotates', NEW b \in Commands, Saver(b)', (saving[b].refresh # 0)'
            PROVE (/\ \A q \in tokens : q.login = saving[b].login => q.refresh # newest[q.login]
                   /\ \A d \in Commands : step[d] = "loaded" /\ loaded[d].login = saving[b].login
                         => loaded[d].refresh # newest[loaded[d].login]
                   /\ \A d \in Commands \ {b} : Saver(d) => saving[d].login # saving[b].login)'
        <5>r. rotates
            BY <2>1, <4>8
        <5>s. \A d \in Commands \ {c} : Saver(d) => saving[d].login # l
            BY <2>1, <3>3, <5>r DEF HolderInv, Saver, KindInv, Unsaved
        <5>1. CASE b = c
          <6>1. \A q \in tokens : q.login = l => q.refresh # newest'[l]
              BY <2>1, <3>1, <3>2, <5>r DEF HolderInv
          <6>2. \A d \in Commands : step[d] = "loaded" /\ loaded[d].login = l
                    => loaded[d].refresh # newest'[l]
              BY <2>1, <3>1, <3>2, <5>r DEF HolderInv
          <6> QED
              BY <2>1, <4>1, <4>2, <4>4, <5>1, <5>s, <6>1, <6>2
        <5>2. CASE b # c
          <6>1. /\ Saver(b) /\ saving'[b] = saving[b] /\ saving[b].login # l
                /\ saving[b].login \in Logins /\ saving[b].refresh # 0
              BY <3>2, <4>1, <4>4, <4>8, <5>2, <5>s
          <6>2. newest'[saving[b].login] = newest[saving[b].login]
              BY <3>4, <6>1
          <6>3. (\A q \in tokens : q.login = saving[b].login => q.refresh # newest[q.login])'
              BY <2>1, <5>r, <6>1, <6>2 DEF HolderInv
          <6>4. (\A d \in Commands : step[d] = "loaded" /\ loaded[d].login = saving[b].login
                         => loaded[d].refresh # newest[loaded[d].login])'
              BY <4>1, <5>r, <6>1, <6>2 DEF HolderInv
          <6>5. (\A d \in Commands \ {b} : Saver(d) => saving[d].login # saving[b].login)'
              BY <4>1, <4>2, <4>4, <5>r, <6>1 DEF HolderInv
          <6> QED
              BY <6>3, <6>4, <6>5
        <5> QED
            BY <5>1, <5>2
      <4> QED
          BY <4>5, <4>6, <4>7, <4>8 DEF HolderInv
    <3> QED
        BY <1>7, <2>3, <3>5, <3>6 DEF RefreshLogin
  <2> QED
      BY <1>7, <2>2, <2>3 DEF RefreshLogin
<1>8. ASSUME NEW c \in Commands, StartWatch(c) \/ WatchEvent(c) PROVE HolderInv'
  <2>1. kind[c] = "watch" /\ UNCHANGED <<kind, tokens, newest, rotates>>
      BY <1>8 DEF StartWatch, WatchEvent, KindInv
  <2>2. CASE End(c)
      BY <1>e, <2>1, <2>2
  <2>3. CASE ~End(c)
    <3>1. /\ step'[c] # "loaded"
          /\ \A d \in Commands \ {c} : UNCHANGED <<step[d], loaded[d], saving[d]>>
        BY <1>8, <2>3 DEF StartWatch, WatchEvent, Save, TypeOK
    <3> QED
        BY <1>c, <2>1, <3>1, {c} \in SUBSET Commands DEF KeepsOrDrops
  <2> QED
      BY <2>2, <2>3
<1>9. ASSUME NEW c \in Commands, StartLogout(c) \/ LogoutPush(c) PROVE HolderInv'
  <2>1. UNCHANGED <<kind, newest, rotates>> /\ tokens' \subseteq tokens
      BY <1>9 DEF StartLogout, LogoutPush
  <2>2. CASE End(c)
      BY <1>e, <2>1, <2>2
  <2>3. CASE ~End(c)
    <3>1. /\ step'[c] = "logout"
          /\ \A d \in Commands \ {c} : UNCHANGED <<step[d], loaded[d], saving[d]>>
        BY <1>9, <2>3 DEF StartLogout, LogoutPush, TypeOK
    <3> QED
        BY <1>c, <2>1, <3>1, {c} \in SUBSET Commands DEF KeepsOrDrops
  <2> QED
      BY <2>2, <2>3
<1>10. ASSUME NEW c \in Commands, SaveCreate(c) \/ SaveWrite(c) \/ SaveSync(c) \/ SaveClose(c)
       PROVE  HolderInv'
  <2>1. /\ step[c] \in SaveSteps
        /\ step'[c] \in SaveSteps \/ step'[c] \notin {"idle", "calling", "loaded"} \cup SaveSteps
        /\ \A d \in Commands \ {c} : UNCHANGED <<step[d], loaded[d], saving[d]>>
        /\ UNCHANGED <<saving, kind, newest, rotates, tokens>>
      BY <1>10 DEF SaveCreate, SaveWrite, SaveSync, SaveClose, Saving, TypeOK
  <2> QED
      BY <1>c, <2>1, {c} \in SUBSET Commands DEF KeepsOrDrops
<1>11. ASSUME NEW c \in Commands, SaveRename(c) PROVE HolderInv'
  <2> DEFINE record == [saving[c] EXCEPT !.synced = (temp[c] = "synced")]
  <2>1. /\ step[c] = "rename" /\ UNCHANGED <<kind, newest, rotates, loaded, saving>>
        /\ step'[c] \in {"saved", "failed"}
        /\ \A d \in Commands \ {c} : step'[d] = step[d]
      BY <1>11 DEF SaveRename, TypeOK
  <2>2. CASE tokens' \subseteq tokens
      BY <1>c, <2>1, <2>2, {c} \in SUBSET Commands DEF KeepsOrDrops
  <2>3. CASE tokens' = {record} /\ kind[c] # "watch" /\ step'[c] = "saved"
    <3>1. /\ record.login = saving[c].login /\ record.refresh = saving[c].refresh
          /\ saving[c].login \in Logins /\ saving[c].refresh \in Nat
        BY DEF TypeOK, Records
    <3>2. Saver(c) /\ kind[c] \in {"login", "refresh"}
        BY <2>1, <2>3 DEF Saver, KindInv
    <3>3. \A l \in Logins : ~Unsaved(l) => ~Unsaved(l)'
        BY <2>1 DEF Unsaved
    <3>4. \A d \in Commands : Saver(d)' => Saver(d) /\ d # c
        BY <2>1 DEF Saver
    <3>5. ~Unsaved(saving[c].login)'
      <4>1. CASE kind[c] = "refresh"
          BY <2>1, <3>1, <3>2, <3>3, <4>1 DEF HolderInv
      <4>2. CASE kind[c] = "login"
          BY <2>1, <3>2, <4>2 DEF HolderInv, Unsaved
      <4> QED
          BY <3>2, <4>1, <4>2
    <3>6. rotates => \A b \in Commands \ {c} : Saver(b) /\ saving[b].refresh # 0
                        => saving[b].login # saving[c].login
        BY <3>2 DEF HolderInv
    <3>7. /\ \A q \in tokens : q.login \in Logins
          /\ \A d \in Commands : loaded[d].login \in Logins /\ saving[d].login \in Logins
          /\ newest \in [Logins -> Nat]
        BY DEF TypeOK, Records
    <3>8. (\A q \in tokens : ~Unsaved(q.login) /\ q.refresh <= newest[q.login])'
      <4>1. saving[c].refresh <= newest[saving[c].login]
        <5>1. newest[saving[c].login] \in Nat
            BY <3>1, <3>7
        <5>2. saving[c].refresh \in {0, newest[saving[c].login]}
            BY <3>2 DEF HolderInv
        <5> QED
            BY <5>1, <5>2
      <4> QED
          BY <2>1, <2>3, <3>1, <3>5, <4>1
    <3>9. (\A d \in Commands : step[d] = "loaded" =>
              ~Unsaved(loaded[d].login) /\ loaded[d].refresh <= newest[loaded[d].login])'
        BY <2>1, <3>3, <3>7 DEF HolderInv
    <3>10. (\A d \in Commands : Saver(d) =>
              /\ kind[d] = "login" => saving[d].login = d
              /\ kind[d] = "refresh" => ~Unsaved(saving[d].login) /\ saving[d].refresh # 0
              /\ saving[d].refresh # 0 => saving[d].refresh = newest[saving[d].login])'
        BY <2>1, <3>3, <3>4, <3>7 DEF HolderInv
    <3>11. (rotates => \A b \in Commands : Saver(b) /\ saving[b].refresh # 0 =>
              /\ \A q \in tokens : q.login = saving[b].login => q.refresh # newest[q.login]
              /\ \A d \in Commands : step[d] = "loaded" /\ loaded[d].login = saving[b].login
                    => loaded[d].refresh # newest[loaded[d].login]
              /\ \A d \in Commands \ {b} : Saver(d) => saving[d].login # saving[b].login)'
        BY <2>1, <2>3, <3>1, <3>4, <3>6 DEF HolderInv
    <3> QED
        BY <3>8, <3>9, <3>10, <3>11 DEF HolderInv
  <2> QED
      BY <1>11, <2>1, <2>2, <2>3 DEF SaveRename, TypeOK
<1>12. ASSUME NEW c \in Commands, SaveReturns(c) PROVE HolderInv'
  <2>1. UNCHANGED <<kind, newest, rotates, tokens>>
      BY <1>12 DEF SaveReturns
  <2>2. CASE End(c)
      BY <1>e, <2>1, <2>2
  <2>3. CASE ~End(c)
    <3>1. /\ step'[c] = "watching"
          /\ \A d \in Commands \ {c} : UNCHANGED <<step[d], loaded[d], saving[d]>>
        BY <1>12, <2>3 DEF SaveReturns, TypeOK
    <3> QED
        BY <1>c, <2>1, <3>1, {c} \in SUBSET Commands DEF KeepsOrDrops
  <2> QED
      BY <2>2, <2>3
<1>13. ASSUME NEW c \in Commands, Killed(c) PROVE HolderInv'
    BY <1>13, <1>g, {c} \in SUBSET Commands DEF Killed
<1>14. CASE PowerFails
  <2>1. {c \in Commands : Running(c)} \in SUBSET Commands
      OBVIOUS
  <2> QED
      BY <1>14, <1>g, <2>1 DEF PowerFails
<1>15. CASE UNCHANGED vars
    BY <1>15, HolderFrame DEF vars, KeepsOrDrops
<1> QED
    BY <1>1, <1>2, <1>3, <1>4, <1>5, <1>6, <1>7, <1>8, <1>9, <1>10, <1>11, <1>12, <1>13,
       <1>14, <1>15 DEF Next, Step

--------------------------------------------------------------------------------
(* What a call of a login returns. *)

\* A session is as it was, but for the one that makes the request.
LEMMA RequestOthers ==
    ASSUME TypeOK, NEW s \in Sessions, Request(s), NEW d \in Sessions \ {s}
    PROVE  UNCHANGED <<call[d], code[d], pending[d], done[d], result[d], granted[d], stage[d],
                       codes[d], legacyCodes[d], newest[d]>>
<1> USE DEF Return, GoOn, Fail, Requires2FA, Deliver, Admit, TypeOK, Logins
<1>1. CASE InitiatePKCE(s)
    BY <1>1 DEF InitiatePKCE
<1>2. CASE SubmitCredentials(s)
  <2>1. /\ Deliver(s) \/ Admit(s) \/ UNCHANGED <<stage, codes>>
        /\ UNCHANGED <<code, pending, granted, newest, legacyCodes>>
      BY <1>2 DEF SubmitCredentials
  <2>2. (\E r \in {"failed", "requires2FA"} : Return(s, r))
        \/ (\E n \in {"verify", "authorize", "legacy"} : GoOn(s, n))
      BY <1>2 DEF SubmitCredentials
  <2>3. UNCHANGED <<call[d], result[d], done[d]>>
      BY <2>2
  <2>4. UNCHANGED <<stage[d], codes[d]>>
      BY <2>1
  <2> QED
      BY <2>1, <2>3, <2>4
<1>3. CASE Verify2FA(s) \/ AuthorizationCode(s)
    BY <1>3 DEF Verify2FA, AuthorizationCode
<1>4. CASE ExchangeAuthorizationCode(s)
    BY <1>4 DEF ExchangeAuthorizationCode
<1>5. CASE RotateTokens(s)
    BY <1>5 DEF RotateTokens, Refresh
<1>6. CASE AuthenticateLegacy(s)
    BY <1>6 DEF AuthenticateLegacy
<1> QED
    BY <1>1, <1>2, <1>3, <1>4, <1>5, <1>6 DEF Request

\* A call that returns tokens has the newest refresh token in hand, or none.
LEMMA RequestGrants ==
    ASSUME TypeOK, NEW s \in Sessions, Request(s), call'[s] = "none", result'[s] = "tokens"
    PROVE  granted'[s] \in {0, newest'[s]}
<1> USE DEF Return, GoOn, Fail, Requires2FA, TypeOK, Logins
<1>1. CASE InitiatePKCE(s) \/ SubmitCredentials(s)
    BY <1>1 DEF InitiatePKCE, SubmitCredentials
<1>2. CASE Verify2FA(s) \/ AuthorizationCode(s)
    BY <1>2 DEF Verify2FA, AuthorizationCode
<1>3. CASE ExchangeAuthorizationCode(s)
    BY <1>3 DEF ExchangeAuthorizationCode
<1>4. CASE RotateTokens(s)
    BY <1>4 DEF RotateTokens, Refresh, Refreshed, Answered
<1>5. CASE AuthenticateLegacy(s)
    BY <1>5 DEF AuthenticateLegacy
<1> QED
    BY <1>1, <1>2, <1>3, <1>4, <1>5 DEF Request

\* A step of others: the session of a command is as it was, or the command is done with it.
Rests(d) ==
    \/ step'[d] \notin {"idle", "calling"}
    \/ UNCHANGED <<step[d], call[d], code[d], pending[d], done[d], result[d], granted[d]>>

USE DEF Rests

\* Steps that change the sessions of the processes C alone, and only by ending them.
LEMMA GoneSessions ==
    ASSUME TypeOK, NEW C \in SUBSET Commands, NEW s \in {"ended", "dead"}, Gone(C, s)
    PROVE  \A d \in Commands : Rests(d)
<1>1. s \notin {"idle", "calling"}
    OBVIOUS
<1> QED
    BY <1>1 DEF Gone

\* What a step outside the sessions does to them.
LEMMA OutsideSessions ==
    ASSUME TypeOK, KindInv, NEW c \in Commands,
           \/ LoginAnswered(c) \/ StartRefresh(c) \/ RefreshLogin(c) \/ StartWatch(c)
           \/ WatchEvent(c) \/ StartLogout(c) \/ LogoutPush(c) \/ SaveCreate(c)
           \/ SaveWrite(c) \/ SaveSync(c) \/ SaveClose(c) \/ SaveRename(c)
           \/ SaveReturns(c) \/ Killed(c)
    PROVE  /\ \A d \in Commands : Rests(d)
           /\ UNCHANGED <<kind, stage, codes, legacyCodes>>
<1> DEFINE Concl == \A d \in Commands : Rests(d)
<1>1. UNCHANGED <<kind, stage, codes, legacyCodes>>
    BY DEF LoginAnswered, StartRefresh, RefreshLogin, StartWatch, WatchEvent, StartLogout,
       LogoutPush, SaveCreate, SaveWrite, SaveSync, SaveClose, Saving, SaveRename,
       SaveReturns, Killed
<1>2. \/ Gone({c}, "ended") \/ Gone({c}, "dead")
      \/ /\ UNCHANGED client
         /\ \E n \in CmdSteps \ {"idle", "calling"} : step' = [step EXCEPT ![c] = n]
  <2> USE DEF CmdSteps, End, Save
  <2>1. CASE LoginAnswered(c) \/ StartRefresh(c) \/ RefreshLogin(c)
      BY <2>1 DEF LoginAnswered, StartRefresh, RefreshLogin
  <2>2. CASE StartWatch(c) \/ WatchEvent(c) \/ StartLogout(c) \/ LogoutPush(c)
      BY <2>2 DEF StartWatch, WatchEvent, StartLogout, LogoutPush
  <2>3. CASE SaveCreate(c) \/ SaveWrite(c) \/ SaveSync(c) \/ SaveClose(c)
      BY <2>3 DEF SaveCreate, SaveWrite, SaveSync, SaveClose, Saving
  <2>4. CASE SaveRename(c) \/ SaveReturns(c) \/ Killed(c)
      BY <2>4 DEF SaveRename, SaveReturns, Killed
  <2> QED
      BY <2>1, <2>2, <2>3, <2>4
<1>3. CASE Gone({c}, "ended") \/ Gone({c}, "dead")
    BY <1>1, <1>3, GoneSessions, {c} \in SUBSET Commands
<1>4. ASSUME NEW n \in CmdSteps \ {"idle", "calling"}, step' = [step EXCEPT ![c] = n],
             UNCHANGED client
      PROVE  Concl
    BY <1>4 DEF TypeOK
<1> QED
    BY <1>1, <1>2, <1>3, <1>4

\* The step of a session by itself: a call begins, goes on by a request, or it closes.
LEMMA SessionSteps ==
    ASSUME TypeOK, KindInv, [Next]_vars
    PROVE  \/ \E c \in Commands : StartLogin(c) \/ SignIn(c) \/ AppCalls(c) \/ StartApp(c)
           \/ \E c \in Commands : PromptCode(c) /\ ~End(c)
           \/ /\ \A d \in Commands : Rests(d)
              /\ UNCHANGED <<kind, stage, codes, legacyCodes>>
<1> DEFINE Still == /\ \A d \in Commands : Rests(d)
                    /\ UNCHANGED <<kind, stage, codes, legacyCodes>>
<1>1. ASSUME NEW c \in Commands, PromptCode(c), End(c) PROVE Still
  <2>1. UNCHANGED <<kind, stage, codes, legacyCodes>>
      BY <1>1 DEF PromptCode, Authenticate
  <2> QED
      BY <1>1, <2>1, GoneSessions, {c} \in SUBSET Commands DEF End
<1>2. ASSUME PowerFails PROVE Still
  <2>1. {c \in Commands : Running(c)} \in SUBSET Commands
      OBVIOUS
  <2>2. UNCHANGED <<kind, stage, codes, legacyCodes>>
      BY <1>2 DEF PowerFails
  <2> QED
      BY <1>2, <2>1, <2>2, GoneSessions DEF PowerFails
<1>3. ASSUME UNCHANGED vars PROVE Still
    BY <1>3 DEF vars
<1>4. ASSUME NEW c \in Commands,
           \/ LoginAnswered(c) \/ StartRefresh(c) \/ RefreshLogin(c) \/ StartWatch(c)
           \/ WatchEvent(c) \/ StartLogout(c) \/ LogoutPush(c) \/ SaveCreate(c)
           \/ SaveWrite(c) \/ SaveSync(c) \/ SaveClose(c) \/ SaveRename(c)
           \/ SaveReturns(c) \/ Killed(c)
      PROVE Still
    BY <1>4, OutsideSessions
<1> HIDE DEF Still
<1>5. \/ \E c \in Commands : StartLogin(c) \/ SignIn(c) \/ AppCalls(c) \/ StartApp(c)
      \/ \E c \in Commands : PromptCode(c) /\ ~End(c)
      \/ Still
  <2>1. CASE \E c \in Commands : Step(c)
    <3>1. PICK c \in Commands : Step(c)
        BY <2>1
    <3> QED
        BY <1>1, <1>4, <3>1 DEF Step
  <2> QED
      BY <1>2, <1>3, <2>1 DEF Next
<1> QED
    BY <1>5 DEF Still

LEMMA GrantStep ==
    ASSUME TypeOK, KindInv, HolderInv, GrantInv, [Next]_vars
    PROVE  GrantInv'
<1>0. \A d \in Commands : newest[d] \in Nat
    BY DEF TypeOK, Logins
<1>1. ASSUME NEW c \in Commands, NEW otp \in Codes, Authenticate(c, otp),
             UNCHANGED kind, \A d \in Commands \ {c} : step'[d] = step[d]
      PROVE  GrantInv'
  <2>1. /\ call'[c] # "none" \/ result'[c] # "tokens"
        /\ UNCHANGED <<granted, newest>>
        /\ \A d \in Commands \ {c} : UNCHANGED <<call[d], result[d]>>
      BY <1>1 DEF Authenticate, Return, GoOn, Requires2FA, TypeOK
  <2> QED
      BY <1>1, <2>1 DEF GrantInv
<1>2. ASSUME NEW c \in Commands, StartLogin(c) PROVE GrantInv'
  <2>1. UNCHANGED kind /\ \A d \in Commands \ {c} : step'[d] = step[d]
      BY <1>2 DEF StartLogin, TypeOK
  <2> QED
      BY <1>1, <1>2, <2>1 DEF StartLogin
<1>3. ASSUME NEW c \in Commands, SignIn(c) PROVE GrantInv'
  <2>1. Request(c) /\ UNCHANGED <<kind, step>>
      BY <1>3 DEF SignIn
  <2>2. \A d \in Commands \ {c} : UNCHANGED <<call[d], result[d], granted[d], newest[d]>>
      BY <2>1, RequestOthers
  <2>3. call'[c] = "none" /\ result'[c] = "tokens" => granted'[c] \in {0, newest'[c]}
      BY <2>1, RequestGrants
  <2> QED
      BY <2>1, <2>2, <2>3 DEF GrantInv
<1>4. ASSUME NEW c \in Commands, AppCalls(c) \/ StartApp(c) PROVE GrantInv'
  <2>1. /\ UNCHANGED kind /\ kind[c] = "app" /\ \A d \in Commands \ {c} : step'[d] = step[d]
      BY <1>4 DEF AppCalls, StartApp, TypeOK
  <2>2. CASE \E otp \in Codes : Authenticate(c, otp)
      BY <1>1, <2>1, <2>2
  <2>3. CASE CloseSession(c) \/ StartApp(c)
    <3>1. UNCHANGED <<call, result, granted, newest>>
        BY <2>3 DEF CloseSession, StartApp
    <3> QED
        BY <2>1, <3>1 DEF GrantInv
  <2> QED
      BY <1>4, <2>2, <2>3 DEF AppCalls
<1>5. ASSUME NEW c \in Commands, PromptCode(c), ~End(c) PROVE GrantInv'
    BY <1>1, <1>5 DEF PromptCode
<1>6. CASE /\ \A d \in Commands : Rests(d)
           /\ UNCHANGED <<kind, stage, codes, legacyCodes>>
           /\ ~\E c \in Commands : StartLogin(c) \/ SignIn(c) \/ AppCalls(c) \/ StartApp(c)
           /\ ~\E c \in Commands : PromptCode(c) /\ ~End(c)
  <2>1. \A l \in Logins : Unsaved(l) => newest'[l] = newest[l]
    <3>1. ASSUME NEW c \in Commands, RefreshLogin(c) PROVE
             \A l \in Logins : Unsaved(l) => newest'[l] = newest[l]
      <4>1. ~Unsaved(loaded[c].login)
          BY <3>1 DEF RefreshLogin, HolderInv
      <4>2. newest' \in {newest, [newest EXCEPT ![loaded[c].login] = Refreshed(loaded[c].login)]}
          BY <3>1 DEF RefreshLogin, Refresh
      <4> QED
          BY <4>1, <4>2 DEF TypeOK
    <3>2. ASSUME NEW c \in Commands, Step(c), ~RefreshLogin(c) PROVE newest' = newest
        BY <1>6, <3>2 DEF Step, LoginAnswered, StartRefresh, StartWatch, WatchEvent,
           StartLogout, LogoutPush, SaveCreate, SaveWrite, SaveSync, SaveClose, Saving,
           SaveRename, SaveReturns, Killed, PromptCode, Authenticate
    <3>3. CASE PowerFails \/ UNCHANGED vars
        BY <3>3 DEF PowerFails, vars
    <3> QED
        BY <3>1, <3>2, <3>3 DEF Next
  <2>2. \A d \in Commands : kind[d] = "login" /\ step[d] = "calling" => Unsaved(d)
      BY DEF Unsaved
  <2> QED
      BY <1>6, <2>1, <2>2 DEF GrantInv, Logins
<1> QED
    BY <1>2, <1>3, <1>4, <1>5, <1>6, SessionSteps

--------------------------------------------------------------------------------
(* The codes asked for. *)

LEMMA RequestChallenge ==
    ASSUME TypeOK, NEW s \in Sessions, Request(s), ChallengeOf(s)
    PROVE  ChallengeOf(s)'
<1> USE DEF ChallengeOf, Return, GoOn, Fail, Requires2FA, TypeOK
<1>1. CASE InitiatePKCE(s)
    BY <1>1 DEF InitiatePKCE
<1>2. CASE SubmitCredentials(s)
    BY <1>2, ZenonT(60) DEF SubmitCredentials, Deliver, Admit
<1>3. CASE Verify2FA(s)
    BY <1>3 DEF Verify2FA
<1>4. CASE AuthorizationCode(s)
    BY <1>4 DEF AuthorizationCode
<1>5. CASE ExchangeAuthorizationCode(s)
    BY <1>5 DEF ExchangeAuthorizationCode
<1>6. CASE RotateTokens(s)
    BY <1>6 DEF RotateTokens
<1>7. CASE AuthenticateLegacy(s)
    BY <1>7 DEF AuthenticateLegacy
<1> QED
    BY <1>1, <1>2, <1>3, <1>4, <1>5, <1>6, <1>7 DEF Request

LEMMA FirstCode == 0 + 1 = 1
OBVIOUS

LEMMA RequestCodes ==
    ASSUME TypeOK, NEW s \in Sessions, Request(s), ChallengeOf(s), CodesOf(s),
           codes[s] \in {0, 1}, legacyCodes[s] \in {0, 1}
    PROVE  CodesOf(s)' /\ codes'[s] \in {0, 1} /\ legacyCodes'[s] \in {0, 1}
<1> USE DEF CodesOf, Return, GoOn, Fail, Requires2FA, TypeOK
<1>1. CASE InitiatePKCE(s)
    BY <1>1 DEF InitiatePKCE
<1>0. codes[s] \in Nat
    OBVIOUS
<1>2. CASE SubmitCredentials(s)
  <2>1. /\ call[s] = "signin" /\ codes[s] = 0 /\ UNCHANGED <<code, pending, legacyCodes>>
        /\ pending[s]
      BY <1>2 DEF SubmitCredentials, ChallengeOf
  <2>2. /\ \/ codes' = [codes EXCEPT ![s] = @ + 1] \/ codes' = codes
        /\ codes' # codes => call'[s] # "none" \/ result'[s] # "tokens"
      BY <1>2, ZenonT(60) DEF SubmitCredentials, Deliver, Admit
  <2>3. codes'[s] \in {0, 1}
      BY <2>1, <2>2
  <2>4. \/ call'[s] = "none" /\ result'[s] \in {"requires2FA", "failed"}
        \/ call'[s] = "verify" /\ code[s] \notin NoCode
        \/ call'[s] = "authorize"
        \/ call'[s] = "legacy" /\ UNCHANGED codes
      BY <1>2 DEF SubmitCredentials
  <2> QED
      BY <2>1, <2>3, <2>4
<1>3. CASE Verify2FA(s)
    BY <1>3 DEF Verify2FA
<1>4. CASE AuthorizationCode(s)
    BY <1>4 DEF AuthorizationCode
<1>5. CASE ExchangeAuthorizationCode(s)
    BY <1>5 DEF ExchangeAuthorizationCode
<1>6. CASE RotateTokens(s)
    BY <1>6 DEF RotateTokens
<1>7. CASE AuthenticateLegacy(s)
  <2>1. /\ call[s] = "legacy" /\ UNCHANGED <<code, pending, codes>>
        /\ call'[s] = "none"
        /\ code[s] \in NoCode => legacyCodes[s] = 0
      BY <1>7 DEF AuthenticateLegacy
  <2>2. \/ legacyCodes' = legacyCodes
        \/ code[s] \in NoCode /\ legacyCodes' = [legacyCodes EXCEPT ![s] = @ + 1]
      BY <1>7 DEF AuthenticateLegacy
  <2>3. legacyCodes'[s] \in {0, 1}
    <3>1. CASE legacyCodes' = legacyCodes
        BY <3>1
    <3>2. CASE code[s] \in NoCode /\ legacyCodes' = [legacyCodes EXCEPT ![s] = @ + 1]
      <4>1. legacyCodes[s] = 0 /\ legacyCodes \in [Sessions -> Nat]
          BY <2>1, <3>2
      <4>2. legacyCodes'[s] = 0 + 1
          BY <3>2, <4>1, Zenon
      <4> QED
          BY <4>2, FirstCode, Zenon
    <3> QED
        BY <2>2, <3>1, <3>2
  <2>4. code[s] \in NoCode => pending[s] \/ codes[s] = 0
      BY <2>1
  <2> QED
      BY <2>1, <2>3, <2>4
<1> QED
    BY <1>1, <1>2, <1>3, <1>4, <1>5, <1>6, <1>7 DEF Request

LEMMA CodeStep ==
    ASSUME TypeOK, KindInv, CodeInv, [Next]_vars
    PROVE  CodeInv'
<1>1. ASSUME NEW c \in Commands, NEW otp \in Codes, Authenticate(c, otp),
             UNCHANGED kind, \A d \in Commands \ {c} : step'[d] = step[d],
             step[c] \in {"idle", "calling"}, step'[c] = "calling",
             kind[c] = "login" => CodesOf(c)'
      PROVE  CodeInv'
  <2>1. /\ UNCHANGED <<pending, stage, codes, legacyCodes>>
        /\ done[c] => done'[c]
        /\ \A d \in Commands \ {c} : UNCHANGED done[d]
        /\ \A d \in Commands \ {c} : UNCHANGED <<call[d], result[d], code[d]>>
        /\ call'[c] \in {"none", "resume", "begin"}
      BY <1>1 DEF Authenticate, Return, GoOn, Requires2FA, TypeOK
  <2>2. ChallengeOf(c)'
      BY <1>1, <2>1 DEF CodeInv, ChallengeOf
  <2>3. \A d \in Commands \ {c} : /\ ChallengeOf(d)' = ChallengeOf(d)
                                  /\ CodesOf(d)' = CodesOf(d)
      BY <2>1 DEF ChallengeOf, CodesOf
  <2> QED
      BY <1>1, <2>1, <2>2, <2>3 DEF CodeInv
<1>2. ASSUME NEW c \in Commands, StartLogin(c) PROVE CodeInv'
  <2>1. /\ UNCHANGED kind /\ \A d \in Commands \ {c} : step'[d] = step[d]
        /\ step[c] = "idle" /\ step'[c] = "calling"
      BY <1>2 DEF StartLogin, TypeOK
  <2>2. PICK otp \in Codes : Authenticate(c, otp)
      BY <1>2 DEF StartLogin
  <2>3. codes[c] = 0 /\ legacyCodes[c] = 0 /\ ~pending[c]
      BY <2>1 DEF CodeInv
  <2>4. CodesOf(c)'
      BY <2>2, <2>3 DEF CodesOf, Authenticate, Return, GoOn, TypeOK
  <2> QED
      BY <1>1, <2>1, <2>2, <2>4
<1>3. ASSUME NEW c \in Commands, SignIn(c) PROVE CodeInv'
  <2>1. Request(c) /\ UNCHANGED <<kind, step>> /\ step[c] = "calling"
      BY <1>3 DEF SignIn
  <2>2. \A d \in Commands \ {c} :
           UNCHANGED <<call[d], code[d], pending[d], done[d], result[d], stage[d], codes[d],
                       legacyCodes[d]>>
      BY <2>1, RequestOthers
  <2>3. ChallengeOf(c)'
      BY <2>1, RequestChallenge DEF CodeInv
  <2>4. kind[c] = "login" =>
           CodesOf(c)' /\ codes'[c] \in {0, 1} /\ legacyCodes'[c] \in {0, 1}
      BY <2>1, RequestCodes DEF CodeInv
  <2>5. \A d \in Commands \ {c} : /\ ChallengeOf(d) => ChallengeOf(d)'
                                  /\ CodesOf(d) => CodesOf(d)'
      BY <2>2 DEF ChallengeOf, CodesOf
  <2> QED
      BY <2>1, <2>2, <2>3, <2>4, <2>5 DEF CodeInv
<1>4. ASSUME NEW c \in Commands, AppCalls(c) \/ StartApp(c) PROVE CodeInv'
  <2>1. /\ UNCHANGED kind /\ kind[c] = "app" /\ \A d \in Commands \ {c} : step'[d] = step[d]
        /\ step[c] \in {"idle", "calling"} /\ step'[c] = "calling"
      BY <1>4 DEF AppCalls, StartApp, TypeOK
  <2>2. CASE \E otp \in Codes : Authenticate(c, otp)
      BY <1>1, <2>1, <2>2
  <2>3. CASE CloseSession(c)
    <3>1. /\ UNCHANGED <<call, code, result, stage, codes, legacyCodes>>
          /\ call[c] = "none" /\ done'[c] = TRUE
          /\ \A d \in Commands \ {c} : UNCHANGED <<pending[d], done[d]>>
        BY <2>3 DEF CloseSession, TypeOK
    <3>2. \A d \in Commands \ {c} : /\ ChallengeOf(d)' = ChallengeOf(d)
                                    /\ CodesOf(d)' = CodesOf(d)
        BY <3>1 DEF ChallengeOf, CodesOf
    <3>3. ChallengeOf(c)'
        BY <3>1 DEF ChallengeOf
    <3> QED
        BY <2>1, <3>1, <3>2, <3>3 DEF CodeInv
  <2>4. CASE StartApp(c)
    <3>1. UNCHANGED <<call, code, pending, done, result, stage, codes, legacyCodes>>
        BY <2>4 DEF StartApp
    <3>2. \A d \in Commands : /\ ChallengeOf(d)' = ChallengeOf(d)
                              /\ CodesOf(d)' = CodesOf(d)
        BY <3>1 DEF ChallengeOf, CodesOf
    <3>3. ChallengeOf(c)
        BY <2>1, <2>4 DEF CodeInv, ChallengeOf, StartApp
    <3> QED
        BY <2>1, <3>1, <3>2, <3>3 DEF CodeInv
  <2> QED
      BY <1>4, <2>2, <2>3, <2>4 DEF AppCalls
<1>5. ASSUME NEW c \in Commands, PromptCode(c), ~End(c) PROVE CodeInv'
  <2>1. /\ kind[c] = "login" /\ step[c] = "calling" /\ result[c] = "requires2FA"
        /\ call[c] = "none" /\ code[c] = "" /\ UNCHANGED <<kind, step>>
      BY <1>5 DEF PromptCode
  <2>2. PICK otp \in Codes \ NoCode : Authenticate(c, otp)
      BY <1>5 DEF PromptCode
  <2>3. pending[c] \/ codes[c] = 0
      BY <2>1 DEF CodeInv, CodesOf, NoCode
  <2>4. CodesOf(c)'
      BY <2>2, <2>3 DEF CodesOf, Authenticate, Return, GoOn, TypeOK
  <2> QED
      BY <1>1, <2>1, <2>2, <2>4
<1>6. CASE /\ \A d \in Commands : Rests(d)
           /\ UNCHANGED <<kind, stage, codes, legacyCodes>>
  <2>1. \A d \in Commands : step'[d] \in {"idle", "calling"} =>
           step'[d] = step[d] /\ ChallengeOf(d)' = ChallengeOf(d) /\ CodesOf(d)' = CodesOf(d)
      BY <1>6, ZenonT(60) DEF ChallengeOf, CodesOf
  <2>2. \A d \in Commands : step'[d] = "idle" => UNCHANGED <<pending[d], call[d]>>
      BY <1>6
  <2> QED
      BY <1>6, <2>1, <2>2 DEF CodeInv
<1> QED
    BY <1>2, <1>3, <1>4, <1>5, <1>6, SessionSteps

--------------------------------------------------------------------------------
(* The theorems. *)

StoreInv == TypeOK /\ KindInv /\ SaveInv /\ HolderInv /\ GrantInv /\ CodeInv

LEMMA StoreInit == Init => StoreInv
<1> SUFFICES ASSUME Init PROVE StoreInv
    OBVIOUS
<1>1. Record(Earlier, 0) \in Records /\ Whole(Record(Earlier, 1)) \in Records
      /\ Whole(Record(Earlier, 0)) \in Records
    BY DEF Record, Records, Logins, Whole
<1>2. \A c \in Commands :
         /\ step[c] = "idle" /\ temp[c] = "none" /\ ~pending[c]
         /\ codes[c] = 0 /\ legacyCodes[c] = 0
         /\ call[c] = "none" /\ stage[c] = "none"
    BY DEF Init, InitSession
<1>3. /\ \A r \in tokens : r.login = Earlier /\ r.refresh = 1 /\ r.synced
      /\ \A r \in push : r.synced
      /\ ~torn /\ newest[Earlier] = 1 /\ Earlier \notin Sessions
    BY EarlierAssumption DEF Init, InitSession, Logins, Whole, Record
<1>4. TypeOK
  <2>1. /\ call \in [Sessions -> Steps] /\ code \in [Sessions -> Codes]
        /\ granted \in [Sessions -> Nat] /\ result \in [Sessions -> Results]
        /\ stage \in [Sessions -> Stages]
        /\ codes \in [Sessions -> Nat] /\ legacyCodes \in [Sessions -> Nat]
        /\ newest \in [Logins -> Nat]
      BY DEF Init, InitSession, Steps, Codes, NoCode, Results, Stages
  <2>2. pending \in [Sessions -> BOOLEAN] /\ done \in [Sessions -> BOOLEAN]
      BY Zenon DEF Init, InitSession
  <2>3. rotates \in BOOLEAN /\ torn \in BOOLEAN
      BY Zenon DEF Init, InitSession
  <2>4. kind \in [Commands -> Kinds]
      BY Zenon DEF Init
  <2>5. step \in [Commands -> CmdSteps] /\ temp \in [Commands -> Temps]
      BY DEF Init, CmdSteps, Temps
  <2>6. calls \in [Commands -> 0 .. CallLimit]
    <3>1. 0 \in 0 .. CallLimit
        BY BoundAssumption
    <3> QED
        BY <3>1, Zenon DEF Init
  <2>7. /\ loaded \in [Commands -> Records] /\ saving \in [Commands -> Records]
        /\ tokens \in SUBSET Records /\ push \in SUBSET Records
      BY <1>1 DEF Init
  <2>8. \A c \in Commands : step[c] # "loaded"
      BY <1>2
  <2> QED
      BY <2>1, <2>2, <2>3, <2>4, <2>5, <2>6, <2>7, <2>8 DEF TypeOK
<1>5. KindInv /\ SaveInv
    BY <1>2, <1>3 DEF KindInv, SaveInv, SaveSteps, FilesWhole
<1>6. HolderInv /\ GrantInv
    BY <1>2, <1>3 DEF HolderInv, GrantInv, Unsaved, Saver, SaveSteps
<1>7. CodeInv
  <2>1. \A c \in Commands : codes[c] \in {0, 1} /\ legacyCodes[c] \in {0, 1}
      BY <1>2
  <2>2. \A c \in Commands : step[c] # "calling"
      BY <1>2
  <2> QED
      BY <1>2, <2>1, <2>2, Zenon DEF CodeInv
<1> QED
    BY <1>4, <1>5, <1>6, <1>7 DEF StoreInv

\* What is known of the commands in every reachable state.
THEOREM StoreInvariant == Spec => []StoreInv
<1>1. StoreInv /\ [Next]_vars => StoreInv'
    BY TypeStep, KindStep, SaveStep, HolderStep, GrantStep, CodeStep DEF StoreInv
<1> QED
    BY <1>1, StoreInit, PTL DEF Spec

\* Every variable holds a value of its type: refresh never shows the service a record
\* without a refresh token.
THEOREM TypeCorrect == Spec => []TypeOK
<1>1. StoreInv => TypeOK
    BY DEF StoreInv
<1> QED
    BY <1>1, StoreInvariant, PTL

\* The token file and push.json are whole at all times, whatever runs, fails, is killed
\* or loses power, and a command that returned has removed its temporary file, if it could.
THEOREM SavesAlwaysAtomic == Spec => []SavesAtomic
<1>1. StoreInv => SavesAtomic
    BY DEF StoreInv, SaveInv, SavesAtomic, TempRemoved
<1> QED
    BY <1>1, StoreInvariant, PTL

\* A session that is neither closed nor signed in keeps the challenge whose code the
\* service waits for.
THEOREM ChallengeNeverLost == Spec => []ChallengeRetained
<1>1. StoreInv => ChallengeRetained
    BY DEF StoreInv, CodeInv, ChallengeOf, ChallengeRetained
<1> QED
    BY <1>1, StoreInvariant, PTL

\* auth login has at most one code delivered by each route, whichever routes its two calls
\* take and whatever fails on the way.
THEOREM LoginAsksOnce == Spec => []OneCodePerLogin
<1>1. StoreInv => OneCodePerLogin
  <2>1. ASSUME StoreInv, NEW c \in Commands, kind[c] = "login"
        PROVE  codes[c] \in {0, 1} /\ legacyCodes[c] \in {0, 1}
      BY <2>1 DEF StoreInv, CodeInv
  <2> QED
      BY <2>1 DEF OneCodePerLogin
<1> QED
    BY <1>1, StoreInvariant, PTL

\* What SaveRename puts in the token file, and when the file changes otherwise.
LEMMA FileStep ==
    ASSUME StoreInv, [Next]_vars, NEW r \in tokens' \ tokens
    PROVE  \E c \in Commands : /\ Saver(c) /\ UNCHANGED newest
                               /\ r.login = saving[c].login /\ r.refresh = saving[c].refresh
<1>1. ASSUME NEW c \in Commands, SaveRename(c)
      PROVE  Saver(c) /\ UNCHANGED newest
             /\ r.login = saving[c].login /\ r.refresh = saving[c].refresh
  <2> DEFINE record == [saving[c] EXCEPT !.synced = (temp[c] = "synced")]
  <2>1. record.login = saving[c].login /\ record.refresh = saving[c].refresh
      BY DEF StoreInv, TypeOK, Records
  <2>2. r = record /\ kind[c] # "watch" /\ step[c] = "rename" /\ UNCHANGED newest
      BY <1>1 DEF SaveRename
  <2> QED
      BY <2>1, <2>2 DEF Saver, SaveSteps
<1>2. ASSUME NEW c \in Commands, Step(c), ~SaveRename(c) PROVE tokens' \subseteq tokens
    BY <1>2 DEF Step, StartLogin, SignIn, PromptCode, LoginAnswered, StartApp, AppCalls,
       StartRefresh, RefreshLogin, StartWatch, WatchEvent, StartLogout, LogoutPush,
       SaveCreate, SaveWrite, SaveSync, SaveClose, Saving, SaveReturns, Killed
<1>3. CASE PowerFails \/ UNCHANGED vars
    BY <1>3 DEF PowerFails, vars
<1> QED
    BY <1>1, <1>2, <1>3 DEF Next

\* A refresh token that save puts in the token file is the newest of its login, however
\* many commands run at once.
THEOREM AlwaysSavesNewest == Spec => SavesNewest
<1>1. StoreInv /\ [Next]_vars =>
         [\A r \in tokens' \ tokens : r.refresh # 0 => r.refresh = newest[r.login]]_vars
  <2> SUFFICES ASSUME StoreInv, [Next]_vars, NEW r \in tokens' \ tokens, r.refresh # 0
               PROVE  r.refresh = newest[r.login]
      OBVIOUS
  <2>1. PICK c \in Commands : /\ Saver(c)
                              /\ r.login = saving[c].login /\ r.refresh = saving[c].refresh
      BY FileStep
  <2> QED
      BY <2>1 DEF StoreInv, HolderInv
<1> QED
    BY <1>1, StoreInvariant, PTL DEF Spec, SavesNewest

\* A save of a refresh never leaves a login without the refresh token it had.
THEOREM RefreshAlwaysKept == Spec => RefreshKept
<1>1. StoreInv /\ [Next]_vars =>
         [\A r \in tokens' \ tokens, old \in tokens :
             r.login = old.login /\ old.refresh # 0 => r.refresh # 0]_vars
  <2> SUFFICES ASSUME StoreInv, [Next]_vars, NEW r \in tokens' \ tokens, NEW old \in tokens,
                      r.login = old.login
               PROVE  r.refresh # 0
      OBVIOUS
  <2>1. PICK c \in Commands : /\ Saver(c)
                              /\ r.login = saving[c].login /\ r.refresh = saving[c].refresh
      BY FileStep
  <2>2. kind[c] \in {"login", "refresh"}
      BY <2>1 DEF StoreInv, KindInv, Saver
  <2>3. CASE kind[c] = "login"
    <3>1. Unsaved(c) /\ old.login = c
        BY <2>1, <2>3 DEF StoreInv, HolderInv, Saver, Unsaved
    <3> QED
        BY <3>1 DEF StoreInv, HolderInv
  <2>4. CASE kind[c] = "refresh"
      BY <2>1, <2>4 DEF StoreInv, HolderInv
  <2> QED
      BY <2>2, <2>3, <2>4
<1> QED
    BY <1>1, StoreInvariant, PTL DEF Spec, RefreshKept
================================================================================
