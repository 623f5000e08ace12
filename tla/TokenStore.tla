------------------------------- MODULE TokenStore -------------------------------
(***************************************************************************)
(* The commands of the CLI that keep credentials on disk: auth login,      *)
(* refresh and logout (cmd/go-ring/tokens.go, main.go) and events watch    *)
(* (events.go).  Every command is a process; several may run at once over  *)
(* one directory, any may fail at a step or be killed between two, and the *)
(* power may fail.  A login signs in through a LoginSession; an            *)
(* application may use one in any order of calls.                          *)
(*                                                                         *)
(* A file is the set of the records it holds: none, or one.                *)
(***************************************************************************)
EXTENDS LoginSession

CONSTANTS CallLimit,   \* bound: calls of an application, credentials a watch is sent
          Mixes        \* bound: what the commands of a behaviour may be

Commands == Sessions   \* each has a session at hand

VARIABLES kind,     \* what the command is
          step,     \* where it is
          calls,    \* calls it has begun on its session, or events it has saved
          loaded,   \* the tokens refreshLogin has loaded
          saving,   \* the record save has been given
          temp,     \* the temporary file of save: "none", "empty", "written" or "synced", and
            \* "left" when it could not be removed
          tokens,   \* the content of the token file
          push,     \* the content of push.json
          torn      \* a file holds neither a whole record nor nothing

commands == <<kind, step, calls, loaded, saving, temp>>
disk     == <<tokens, push, torn>>
vars     == <<session, commands, disk>>

ASSUME BoundAssumption == CallLimit \in Nat /\ CallLimit >= 2

Kinds    == {"login", "app", "refresh", "logout", "watch"}
CmdSteps == {"idle", "calling", "loaded", "watching", "create", "write", "sync",
             "close", "rename", "saved", "failed", "logout", "ended", "dead"}
Temps    == {"none", "empty", "written", "synced", "left"}

\* What matters of storedTokens and of the push credentials: whose they are, the
\* refresh token, and whether the content has been synced.
Record(l, g) == [login |-> l, refresh |-> g, synced |-> FALSE]
Records      == [login : Logins, refresh : Nat, synced : BOOLEAN]
Whole(r)     == [r EXCEPT !.synced = TRUE]

Init == /\ InitSession
        /\ kind \in [Commands -> Kinds] \cap Mixes /\ step = [c \in Commands |-> "idle"]
        /\ calls = [c \in Commands |-> 0]
        /\ loaded = [c \in Commands |-> Record(Earlier, 0)]
        /\ saving = [c \in Commands |-> Record(Earlier, 0)]
        /\ temp = [c \in Commands |-> "none"]
        /\ tokens \in {{}, {Whole(Record(Earlier, 1))}}
        /\ push \in {{}, {Whole(Record(Earlier, 0))}}
        /\ torn = FALSE

\* A command goes on with its memory as it is, but for what the action says.
Go(c, s) == step' = [step EXCEPT ![c] = s]
Kept     == UNCHANGED <<client, loaded, saving>>
GoOnly(c, s) == Go(c, s) /\ Kept

\* The processes C are gone and their memory with them, the sessions included.
Gone(C, s) ==
    LET Reset(f, v) == [c \in Commands |-> IF c \in C THEN v ELSE f[c]] IN
    /\ step' = Reset(step, s)
    /\ loaded' = Reset(loaded, Record(Earlier, 0)) /\ saving' = Reset(saving, Record(Earlier, 0))
    /\ call' = Reset(call, "none") /\ code' = Reset(code, "") /\ result' = Reset(result, "none")
    /\ pending' = Reset(pending, FALSE) /\ done' = Reset(done, FALSE)
    /\ granted' = Reset(granted, 0)
End(c) == Gone({c}, "ended")

--------------------------------------------------------------------------------
(* login, and the use an application makes of a session. *)

StartLogin(c) ==
    /\ kind[c] = "login" /\ step[c] = "idle"
    /\ calls' = [calls EXCEPT ![c] = 1]
    /\ \E otp \in Codes \ {"ask"} : Authenticate(c, otp)
    /\ Go(c, "calling")
    /\ UNCHANGED <<kind, loaded, saving, temp, disk>>

\* One request of the call under way.
SignIn(c) == /\ step[c] = "calling" /\ Request(c)
             /\ UNCHANGED <<commands, disk>>

\* login asks for a code once, and only if the environment gave none.
PromptCode(c) ==
    /\ kind[c] = "login" /\ step[c] = "calling" /\ call[c] = "none"
    /\ result[c] = "requires2FA" /\ code[c] = ""
    /\ \/ /\ calls' = [calls EXCEPT ![c] = @ + 1]
          /\ \E otp \in Codes \ NoCode : Authenticate(c, otp)
          /\ UNCHANGED <<step, loaded, saving>>
       \/ End(c) /\ UNCHANGED <<calls, service>>
    /\ UNCHANGED <<kind, temp, disk>>

Save(c, record) == /\ Go(c, "create")
                   /\ saving' = [saving EXCEPT ![c] = record]
                   /\ UNCHANGED <<client, loaded>>

LoginAnswered(c) ==
    /\ kind[c] = "login" /\ step[c] = "calling" /\ call[c] = "none"
    /\ \/ result[c] = "tokens" /\ Save(c, Record(c, granted[c]))
       \/ /\ result[c] = "failed" \/ (result[c] = "requires2FA" /\ code[c] # "")
          /\ End(c)
    /\ UNCHANGED <<service, kind, calls, temp, disk>>

\* An application calls Request2FACode, Authenticate and Close in any order.
StartApp(c) ==
    /\ kind[c] = "app" /\ step[c] = "idle"
    /\ GoOnly(c, "calling")
    /\ UNCHANGED <<service, kind, calls, temp, disk>>
AppCalls(c) ==
    /\ kind[c] = "app" /\ step[c] = "calling" /\ calls[c] < CallLimit
    /\ calls' = [calls EXCEPT ![c] = @ + 1]
    /\ CloseSession(c) \/ \E otp \in Codes : Authenticate(c, otp)
    /\ UNCHANGED <<kind, step, loaded, saving, temp, disk>>

--------------------------------------------------------------------------------
(* refresh, watch and logout. *)

StartRefreshUnchecked(c) ==   \* mutant: a record without a refresh token will do
    /\ kind[c] = "refresh" /\ step[c] = "idle"
    /\ \E r \in tokens : loaded' = [loaded EXCEPT ![c] = r] /\ Go(c, "loaded")
    /\ UNCHANGED <<client, saving, service, kind, calls, temp, disk>>
\* load refuses what is not a whole record; without a refresh token there is nothing to do.
StartRefresh(c) ==
    /\ kind[c] = "refresh" /\ step[c] = "idle"
    /\ \/ \E r \in tokens : /\ r.refresh # 0
                            /\ loaded' = [loaded EXCEPT ![c] = r]
                            /\ Go(c, "loaded")
                            /\ UNCHANGED <<client, saving>>
       \/ (\A r \in tokens : r.refresh = 0) /\ End(c)
    /\ UNCHANGED <<service, kind, calls, temp, disk>>

\* RefreshToken, and the old refresh token kept where the answer has none.
KeepLoaded(c, answer)    == loaded[c].refresh                                  \* mutant
KeepNothing(c, answer)   == answer                                             \* mutant
KeepIfMissing(c, answer) == IF answer = 0 THEN loaded[c].refresh ELSE answer
RefreshLogin(c) ==
    /\ step[c] = "loaded"
    /\ LET l == loaded[c].login IN
       \/ /\ loaded[c].refresh = newest[l]
          /\ Refresh(l)
          /\ \/ Save(c, Record(l, KeepIfMissing(c, Answered(l))))
             \/ End(c)
       \/ End(c) /\ UNCHANGED newest
    /\ UNCHANGED <<stage, codes, legacyCodes, rotates, kind, calls, temp, disk>>

\* events watch needs a saved login.  The receiver reports the credentials it was started
\* with, and new ones after every registration; the watch saves them all.
StartWatch(c) ==
    /\ kind[c] = "watch" /\ step[c] = "idle"
    /\ (tokens # {} /\ GoOnly(c, "watching")) \/ GoOnly(c, "ended")
    /\ UNCHANGED <<service, kind, calls, temp, disk>>
WatchEvent(c) ==
    /\ step[c] = "watching"
    /\ \/ /\ calls[c] < CallLimit
          /\ calls' = [calls EXCEPT ![c] = @ + 1]
          /\ \E owner \in {c} \cup {r.login : r \in push} : Save(c, Record(owner, 0))
       \/ End(c) /\ UNCHANGED calls
    /\ UNCHANGED <<service, kind, temp, disk>>

\* logout removes the token file, then the push credentials; either may fail.
StartLogout(c) ==
    /\ kind[c] = "logout" /\ step[c] = "idle"
    /\ \/ tokens' = {} /\ GoOnly(c, "logout")
       \/ End(c) /\ UNCHANGED tokens
    /\ UNCHANGED <<service, kind, calls, temp, push, torn>>
LogoutPush(c) ==
    /\ step[c] = "logout"
    /\ push' \in {push, {}}
    /\ End(c)
    /\ UNCHANGED <<service, kind, calls, temp, tokens, torn>>

--------------------------------------------------------------------------------
(* save, and savePushCredentials: every step may fail, to the deferred calls. *)

Saving(c, from, to, content) ==
    /\ step[c] = from
    /\ \/ temp' = [temp EXCEPT ![c] = content] /\ Go(c, to)
       \/ Go(c, "failed") /\ UNCHANGED temp
    /\ Kept /\ UNCHANGED <<service, kind, calls, disk>>

\* CreateTemp: a failure is before the deferred calls, with no file.
SaveCreate(c) == Saving(c, "create", "write", "empty")
\* Chmod, restrictTokenFile and Write.
SaveWrite(c) == Saving(c, "write", "sync", "written")
SyncForgotten(c) == Saving(c, "sync", "close", "written")   \* mutant
SaveSync(c) == Saving(c, "sync", "close", "synced")
SaveClose(c) == Saving(c, "close", "rename", temp[c])

\* Rename puts the whole content in place of the old file at once.
SaveRename(c) ==
    /\ step[c] = "rename"
    /\ \/ GoOnly(c, "failed") /\ UNCHANGED <<temp, tokens, push>>
       \/ LET record == [saving[c] EXCEPT !.synced = (temp[c] = "synced")] IN
          /\ GoOnly(c, "saved")
          /\ temp' = [temp EXCEPT ![c] = "none"]
          /\ IF kind[c] = "watch" THEN push' = {record} /\ UNCHANGED tokens
                                  ELSE tokens' = {record} /\ UNCHANGED push
    /\ UNCHANGED <<service, kind, calls, torn>>

\* The deferred Close and Remove, whose errors are ignored: the file of a save that has
\* failed may stay, and there is none where Rename has succeeded.  A watch goes on after a
\* save that succeeded.
SaveLittering(c) ==   \* mutant: no deferred Remove
    /\ step[c] \in {"saved", "failed"} /\ End(c)
    /\ UNCHANGED <<service, kind, calls, temp, disk>>
SaveReturns(c) ==
    /\ \/ step[c] = "saved" /\ kind[c] = "watch" /\ GoOnly(c, "watching")
       \/ step[c] = "saved" /\ kind[c] # "watch" /\ End(c)
       \/ step[c] = "failed" /\ End(c)
    /\ \/ temp' = [temp EXCEPT ![c] = "none"]
       \/ temp[c] # "none" /\ temp' = [temp EXCEPT ![c] = "left"]
    /\ UNCHANGED <<service, kind, calls, disk>>

--------------------------------------------------------------------------------
(* The end of a process, at any point, and of all of them. *)

Running(c) == step[c] \notin {"idle", "ended", "dead"}

Killed(c) == /\ Running(c)
             /\ Gone({c}, "dead")
             /\ UNCHANGED <<service, kind, calls, temp, disk>>

\* What had not been synced is gone.
PowerFails ==
    /\ \E c \in Commands : Running(c)
    /\ Gone({c \in Commands : Running(c)}, "dead")
    /\ torn' = (torn \/ \E r \in tokens \cup push : ~r.synced)
    /\ UNCHANGED <<service, kind, calls, temp, tokens, push>>

Step(c) == \/ StartLogin(c) \/ SignIn(c) \/ PromptCode(c) \/ LoginAnswered(c)
           \/ StartApp(c) \/ AppCalls(c)
           \/ StartRefresh(c) \/ RefreshLogin(c)
           \/ StartWatch(c) \/ WatchEvent(c)
           \/ StartLogout(c) \/ LogoutPush(c)
           \/ SaveCreate(c) \/ SaveWrite(c) \/ SaveSync(c) \/ SaveClose(c)
           \/ SaveRename(c) \/ SaveReturns(c)
           \/ Killed(c)

Next == (\E c \in Commands : Step(c)) \/ PowerFails

Spec == Init /\ [][Next]_vars

--------------------------------------------------------------------------------
(* Properties. *)

\* Every variable holds a value of its type, and what refresh shows the service is a token.
TypeOK ==
    /\ call \in [Sessions -> Steps] /\ code \in [Sessions -> Codes]
    /\ pending \in [Sessions -> BOOLEAN] /\ done \in [Sessions -> BOOLEAN]
    /\ granted \in [Sessions -> Nat] /\ result \in [Sessions -> Results]
    /\ stage \in [Sessions -> Stages]
    /\ codes \in [Sessions -> Nat] /\ legacyCodes \in [Sessions -> Nat]
    /\ newest \in [Logins -> Nat] /\ rotates \in BOOLEAN
    /\ kind \in [Commands -> Kinds] /\ step \in [Commands -> CmdSteps]
    /\ calls \in [Commands -> 0 .. CallLimit] /\ temp \in [Commands -> Temps]
    /\ loaded \in [Commands -> Records] /\ saving \in [Commands -> Records]
    /\ tokens \in SUBSET Records /\ push \in SUBSET Records
    /\ torn \in BOOLEAN
    /\ \A c \in Commands : step[c] = "loaded" => loaded[c].refresh # 0

\* The token file and push.json are whole at all times: a command killed at any step
\* of save, a step that fails and a loss of power leave the old record or the new one.
FilesWhole == ~torn /\ \A r \in tokens \cup push : r.synced

\* A command that returned, with an error too, has removed its temporary file, and a
\* watch each of those it made, unless that very removal failed.
TempRemoved ==
    \A c \in Commands : step[c] \in {"ended", "watching"} => temp[c] \in {"none", "left"}

\* save replaces a file as a whole or not at all, and leaves nothing beside it that it can
\* remove, whichever of its steps is the last.
SavesAtomic == FilesWhole /\ TempRemoved

\* While the service waits for the code of a challenge, the session that started it, unless
\* it is closed or signed in, still has the state, cookies and verifier needed to finish.
ChallengeRetained ==
    \A s \in Sessions :
        step[s] = "calling" /\ stage[s] = "waiting" /\ ~done[s] => pending[s]

\* auth login has at most one code delivered by each route, whatever fails on the way.
OneCodePerLogin ==
    \A c \in Commands : kind[c] = "login" => codes[c] <= 1 /\ legacyCodes[c] <= 1

\* However many commands run at once, a refresh token that save puts in the token
\* file is the newest of its login: the service would refuse any other.
SavesNewest ==
    [][\A r \in tokens' \ tokens : r.refresh # 0 => r.refresh = newest[r.login]]_vars

\* A save of a refresh never leaves a login without the refresh token it had.
RefreshKept ==
    [][\A r \in tokens' \ tokens, old \in tokens :
          r.login = old.login /\ old.refresh # 0 => r.refresh # 0]_vars
================================================================================
