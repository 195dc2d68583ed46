------------------------------ MODULE LoginSessions ------------------------------
(***************************************************************************)
(* Logins of one account in one browser: the rotating refresh tokens of    *)
(* auth.service.ts, the cookie all tabs share, and what each tab does when *)
(* its access token is refused (client.ts, auth-context.tsx), while calls  *)
(* overtake each other, get lost, and tabs reload, sign in and sign out.   *)
(*                                                                         *)
(* A refresh token is <<family, n>>: a rotated token is derived from the   *)
(* one presented, so the n-th of a login is the same whoever asks for it.  *)
(* Only the ten seconds of grace matter of the time since a rotation.      *)
(* Epochs and calls are numbered by one clock.  disturbed is a ghost: an   *)
(* answer was lost, delayed beyond the grace, or overtaken by a later one. *)
(***************************************************************************)
EXTENDS Naturals, Sequences, FiniteSets

CONSTANTS BrowserTabs, Nobody,   \* Nobody: no cookie, token, call, lock or reset token
          LoginBudgets           \* bounds: [expiries, reloads, faults, logins, logouts, resets, slow]

ASSUME NobodyIsNone ==
    Nobody \notin Nat /\ Nobody \notin Nat \X Nat /\ Nobody \notin [ok: {TRUE}, token: Nat \X Nat]

VARIABLES tokens,   \* refresh_tokens: id -> [status, grace, expired]
          account,  \* the users row: password version, reset token
          mails,    \* reset tokens that were sent
          cookie, calls, lock, pages,
          disturbed, clockTick, loginBudget

loginVars == <<tokens, account, mails, cookie, calls, lock, pages, disturbed, clockTick, loginBudget>>
storeVars == <<tokens, account, mails>>
browserVars == <<cookie, lock, pages>>

SpendLogin(what) == loginBudget[what] > 0 /\ loginBudget' = [loginBudget EXCEPT ![what] = @ - 1]
Tick == clockTick' = clockTick + 1

Fresh == [status |-> "live", grace |-> TRUE, expired |-> FALSE]
FamilyOf(id) == {i \in DOMAIN tokens : i[1] = id[1]}
Child(id) == <<id[1], id[2] + 1>>
Ending == {"logout", "password_reset", "compromise"}

\* A fresh JavaScript context: the session is restored with the cookie.
NewPage(epoch) == [epoch |-> epoch, status |-> "loading", access |-> Nobody,
                   refreshing |-> {}, rejected |-> FALSE]

LoginInit ==
    /\ tokens = [i \in {<<1, 1>>} |-> Fresh] /\ cookie = <<1, 1>>
    /\ account = [password |-> 1, reset |-> Nobody] /\ mails = {}
    /\ calls = {} /\ lock = Nobody
    /\ pages = [t \in BrowserTabs |-> NewPage(0)]
    /\ disturbed = FALSE /\ clockTick = 0 /\ loginBudget \in LoginBudgets

----------------------------------------------------------------------------
(* The server: each a serializable transaction. *)

RevokeFamily(rows, family, reason) ==
    [i \in DOMAIN rows |-> IF i[1] = family /\ rows[i].status = "live"
                           THEN [rows[i] EXCEPT !.status = reason] ELSE rows[i]]
WithToken(rows, id) == [i \in DOMAIN rows \cup {id} |-> IF i = id THEN Fresh ELSE rows[i]]
\* Mutants: the presented token is left as it is; the child is handed out unsaved.
RotatedOutBeside(id) == WithToken(tokens, Child(id))
RotatedOutUnsaved(id) == [tokens EXCEPT ![id].status = "rotation", ![id].grace = TRUE]
RotatedOut(id) ==
    WithToken([tokens EXCEPT ![id].status = "rotation", ![id].grace = TRUE], Child(id))

Granted(id) == [ok |-> TRUE, token |-> id]
Refused(code) == [ok |-> FALSE, code |-> code]
Result(answer, rows) == [answer |-> answer, rows |-> rows]

\* Mutants of refresh: a rotated token is taken for stolen at once; the child of a
\* rotated token is handed out without looking at it.
RefreshedNoGrace(id) ==
    IF id \notin DOMAIN tokens \/ tokens[id].expired THEN Result(Refused(401), tokens)
    ELSE IF tokens[id].status = "live" THEN Result(Granted(Child(id)), RotatedOut(id))
    ELSE IF tokens[id].status # "rotation" THEN Result(Refused(401), tokens)
    ELSE Result(Refused(401), RevokeFamily(tokens, id[1], "compromise"))
RefreshedUnchecked(id) ==
    IF id \notin DOMAIN tokens \/ tokens[id].expired THEN Result(Refused(401), tokens)
    ELSE IF tokens[id].status = "live" THEN Result(Granted(Child(id)), RotatedOut(id))
    ELSE IF tokens[id].status # "rotation" THEN Result(Refused(401), tokens)
    ELSE IF ~tokens[id].grace
    THEN Result(Refused(401), RevokeFamily(tokens, id[1], "compromise"))
    ELSE Result(Granted(Child(id)), tokens)
\* refreshTransaction.
Refreshed(id) ==
    IF id \notin DOMAIN tokens \/ tokens[id].expired THEN Result(Refused(401), tokens)
    ELSE IF tokens[id].status = "live" THEN Result(Granted(Child(id)), RotatedOut(id))
    ELSE IF tokens[id].status # "rotation" THEN Result(Refused(401), tokens)
    ELSE IF ~tokens[id].grace
    THEN Result(Refused(401), RevokeFamily(tokens, id[1], "compromise"))
    ELSE IF tokens[Child(id)].status # "live" \/ tokens[Child(id)].expired
    THEN Result(Refused(401), tokens)
    ELSE Result(Granted(Child(id)), tokens)

Answered(c, answer) == calls' = (calls \ {c}) \cup {[c EXCEPT !.answer = answer]}

ServeRefresh(c) ==
    /\ c.kind = "refresh" /\ c.answer = Nobody
    /\ \E result \in {Refreshed(c.presented)} :
         tokens' = result.rows /\ Answered(c, result.answer)
    /\ UNCHANGED <<account, mails, browserVars, disturbed, clockTick, loginBudget>>

\* logoutTransaction: whatever token of the login is presented.
ServeLogout(c) ==
    /\ c.kind = "logout" /\ c.answer = Nobody
    /\ tokens' = IF c.presented \in DOMAIN tokens
                 THEN RevokeFamily(tokens, c.presented[1], "logout") ELSE tokens
    /\ Answered(c, Granted(Nobody))
    /\ UNCHANGED <<account, mails, browserVars, disturbed, clockTick, loginBudget>>

\* login: the password is compared first, the token stored later.
CheckPassword(c) ==
    /\ c.kind = "login" /\ c.answer = Nobody /\ ~c.checked
    /\ IF c.presented = account.password
       THEN calls' = (calls \ {c}) \cup {[c EXCEPT !.checked = TRUE]}
       ELSE Answered(c, Refused(401))
    /\ UNCHANGED <<storeVars, browserVars, disturbed, clockTick, loginBudget>>
Families == {i[1] : i \in DOMAIN tokens}
NewFamily == <<Cardinality(Families) + 1, 1>>
IssueTokenPair(c) ==
    /\ c.kind = "login" /\ c.answer = Nobody /\ c.checked
    /\ tokens' = WithToken(tokens, NewFamily)
    /\ Answered(c, Granted(NewFamily))
    /\ UNCHANGED <<account, mails, browserVars, disturbed, clockTick, loginBudget>>

\* 429 or 503 of the rate limiter, a transaction that kept conflicting.
RefuseCall(c) ==
    /\ c.answer = Nobody /\ SpendLogin("faults")
    /\ Answered(c, Refused(503))
    /\ UNCHANGED <<storeVars, browserVars, disturbed, clockTick>>

RequestPasswordReset ==
    /\ SpendLogin("resets") /\ Tick
    /\ account' = [account EXCEPT !.reset = clockTick + 1]
    /\ mails' = mails \cup {clockTick + 1}
    /\ UNCHANGED <<tokens, browserVars, calls, disturbed>>

\* Mutant: the reset token is not cleared.
ResetPasswordAgain(token) ==
    /\ token \in mails /\ account.reset = token /\ account.password < 3
    /\ account' = [account EXCEPT !.password = @ + 1]
    /\ tokens' = [i \in DOMAIN tokens |-> IF tokens[i].status = "live"
                     THEN [tokens[i] EXCEPT !.status = "password_reset"] ELSE tokens[i]]
    /\ UNCHANGED <<mails, browserVars, calls, disturbed, clockTick, loginBudget>>
\* resetPasswordTransaction: consume the token, revoke every stored login.
ResetPassword(token) ==
    /\ token \in mails /\ account.reset = token
    /\ account' = [password |-> account.password + 1, reset |-> Nobody]
    /\ tokens' = [i \in DOMAIN tokens |-> IF tokens[i].status = "live"
                     THEN [tokens[i] EXCEPT !.status = "password_reset"] ELSE tokens[i]]
    /\ UNCHANGED <<mails, browserVars, calls, disturbed, clockTick, loginBudget>>

\* Ten seconds pass after a rotation; seven days after the token was made.
GraceEnds(id) ==
    /\ tokens[id].status = "rotation" /\ tokens[id].grace
    /\ IF \E c \in calls : c.kind = "refresh" /\ c.presented = id
       THEN disturbed' = TRUE /\ SpendLogin("slow") ELSE UNCHANGED <<disturbed, loginBudget>>
    /\ tokens' = [tokens EXCEPT ![id].grace = FALSE]
    /\ UNCHANGED <<account, mails, browserVars, calls, clockTick>>
TokenExpires(id) ==
    /\ tokens[id].status = "live" /\ ~tokens[id].expired /\ SpendLogin("slow")
    /\ tokens' = [tokens EXCEPT ![id].expired = TRUE]
    /\ UNCHANGED <<account, mails, browserVars, calls, disturbed, clockTick>>

----------------------------------------------------------------------------
(* The tabs. *)

\* setAccessTokenForEpoch.  Mutant: whatever the epoch.
TakeAnyToken(page, token, epoch) == [page EXCEPT !.access = token]
TakeToken(page, token, epoch) ==
    IF page.epoch = epoch THEN [page EXCEPT !.access = token] ELSE page
Access(epoch) == [epoch |-> epoch, valid |-> TRUE]
Restored(page) == [page EXCEPT !.status = IF @ = "loading" THEN "authed" ELSE @]

\* A request without a valid access token was refused: refreshOnce looks at the lock.
NeedsToken(page) ==
    \/ page.status = "loading" /\ page.access = Nobody
    \/ page.status = "authed" /\ page.access # Nobody /\ ~page.access.valid
Flight(epoch, stage, lockId) == [epoch |-> epoch, stage |-> stage, lock |-> lockId]
Joined(page) == \E r \in page.refreshing : r.epoch = page.epoch
Staged(r, stage) == [r EXCEPT !.stage = stage, !.lock = Nobody]
Moved(page, r, stage) == [page EXCEPT !.refreshing = (@ \ {r}) \cup {Staged(r, stage)}]
RefreshOnce(t) ==
    /\ NeedsToken(pages[t]) /\ ~Joined(pages[t])
    /\ pages' = [pages EXCEPT ![t].refreshing = @ \cup
          {IF lock # Nobody /\ lock.fresh THEN Flight(pages[t].epoch, "waits", lock.id)
           ELSE Flight(pages[t].epoch, "sends", Nobody)}]
    /\ UNCHANGED <<storeVars, cookie, calls, lock, disturbed, clockTick, loginBudget>>

Call(kind, t, epoch, flight, presented) ==
    [id |-> clockTick + 1, kind |-> kind, tab |-> t, epoch |-> epoch, flight |-> flight,
     presented |-> presented, checked |-> FALSE, answer |-> Nobody]

\* performOwnRefresh: the lock is written without looking again; the epoch is the
\* tab's when it sends, which after a wait need not be the one it waited in.
PerformOwnRefresh(t) ==
    \E r \in pages[t].refreshing :
        /\ r.stage = "sends"
        /\ lock' = [id |-> clockTick + 1, fresh |-> TRUE] /\ Tick
        /\ calls' = calls \cup {Call("refresh", t, pages[t].epoch, r.epoch, cookie)}
        /\ pages' = [pages EXCEPT ![t] = Moved(@, r, "sent")]
        /\ UNCHANGED <<storeVars, cookie, disturbed, loginBudget>>
\* Another tab may run between the two steps above, this one's user may not.
Yields(t) == \A r \in pages[t].refreshing : r.stage # "sends"

\* release: a tab waiting on this lock hears the outcome; it adopts a token if its
\* epoch has not changed since, anything else makes it refresh itself.
HeardBy(page, r, granted) ==
    IF granted /\ r.epoch = page.epoch
    THEN Restored([page EXCEPT !.access = Access(page.epoch), !.refreshing = @ \ {r}])
    ELSE Moved(page, r, "sends")
Heard(ps, lockId, granted) ==
    [t \in BrowserTabs |->
        LET waiting == {r \in ps[t].refreshing : r.stage = "waits" /\ r.lock = lockId}
        IN  IF waiting = {} THEN ps[t] ELSE HeardBy(ps[t], CHOOSE r \in waiting : TRUE, granted)]

Finished(page, c) == [page EXCEPT !.refreshing = {r \in @ : r.epoch # c.flight}]
\* Mutant: every failed refresh ends the session.
AfterRefreshAnyFailure(page, c) ==
    LET done == Finished(page, c)
    IN  IF c.answer.ok
        THEN IF done.epoch = c.epoch THEN Restored(TakeToken(done, Access(c.epoch), c.epoch)) ELSE done
        ELSE IF done.epoch # c.epoch THEN done
        ELSE [TakeToken(done, Nobody, c.epoch) EXCEPT !.status = "anon", !.rejected = c.answer.code = 401]
\* A definitive rejection ends the session; anything else is told to the caller.
AfterRefresh(page, c) ==
    LET done == Finished(page, c)
    IN  IF c.answer.ok
        THEN LET took == TakeToken(done, Access(c.epoch), c.epoch)
             IN  IF page.epoch = c.epoch THEN Restored(took) ELSE took
        ELSE IF page.epoch # c.epoch THEN done
        ELSE IF c.answer.code = 401
        THEN [TakeToken(done, Nobody, c.epoch) EXCEPT !.status = "anon", !.rejected = TRUE]
        ELSE [done EXCEPT !.status = IF @ = "loading" THEN "error" ELSE @]

\* The answer brings back a token that a later call has used already.
Overtaken(id) == cookie # id /\ id \in DOMAIN tokens /\ tokens[id].status = "rotation"
ReceiveRefresh(c) ==
    /\ c.kind = "refresh" /\ c.answer # Nobody
    /\ cookie' = IF c.answer.ok THEN c.answer.token ELSE cookie
    /\ disturbed' = (disturbed \/ (c.answer.ok /\ Overtaken(c.answer.token)))
    /\ LET took == c.answer.ok /\ pages[c.tab].epoch = c.epoch
       IN  pages' = Heard([pages EXCEPT ![c.tab] = AfterRefresh(@, c)], c.id, took)
    /\ lock' = Nobody   \* removeKey, whoever wrote it
    /\ calls' = calls \ {c}
    /\ UNCHANGED <<storeVars, clockTick, loginBudget>>

\* The answer does not arrive: a network failure, told to the tab if it is still there.
LoseAnswer(c) ==
    /\ SpendLogin("faults") /\ disturbed' = TRUE /\ calls' = calls \ {c}
    /\ pages' = IF c.kind = "refresh"
                THEN Heard([pages EXCEPT ![c.tab] = AfterRefresh(@, [c EXCEPT !.answer = Refused(503)])],
                           c.id, FALSE)
                ELSE pages
    /\ lock' = IF c.kind = "refresh" THEN Nobody ELSE lock
    /\ UNCHANGED <<storeVars, cookie, clockTick>>

\* Mutant: only an outcome ends the wait.
WaitForEver(t) == FALSE /\ UNCHANGED loginVars
\* Five seconds without an outcome: refresh anyway.
WaitTimesOut(t) ==
    \E r \in pages[t].refreshing :
        /\ r.stage = "waits"
        /\ pages' = [pages EXCEPT ![t] = Moved(@, r, "sends")]
        /\ UNCHANGED <<storeVars, cookie, calls, lock, disturbed, clockTick, loginBudget>>
LockGoesStale ==
    /\ lock # Nobody /\ lock.fresh /\ SpendLogin("slow")
    /\ lock' = [lock EXCEPT !.fresh = FALSE]
    /\ UNCHANGED <<storeVars, cookie, calls, pages, disturbed, clockTick>>

AccessExpires(t) ==
    /\ pages[t].access # Nobody /\ pages[t].access.valid /\ SpendLogin("expiries")
    /\ pages' = [pages EXCEPT ![t].access.valid = FALSE]
    /\ UNCHANGED <<storeVars, cookie, calls, lock, disturbed, clockTick>>

RetrySession(t) ==
    /\ pages[t].status = "error"
    /\ pages' = [pages EXCEPT ![t].status = "loading"]
    /\ UNCHANGED <<storeVars, cookie, calls, lock, disturbed, clockTick, loginBudget>>

\* The page is reloaded: the answers to its calls are dropped, its lock entry stays.
Reload(t) ==
    /\ SpendLogin("reloads") /\ Tick
    /\ pages' = [pages EXCEPT ![t] = NewPage(clockTick + 1)]
    /\ calls' = {c \in calls : c.tab # t}
    /\ disturbed' = (disturbed \/ \E c \in calls : c.tab = t)
    /\ UNCHANGED <<storeVars, cookie, lock>>

Login(t) ==
    /\ pages[t].status = "anon" /\ Yields(t) /\ ~\E c \in calls : c.kind = "login" /\ c.tab = t
    /\ SpendLogin("logins") /\ Tick
    /\ pages' = [pages EXCEPT ![t].epoch = clockTick + 1]
    /\ calls' = calls \cup {Call("login", t, clockTick + 1, 0, account.password)}
    /\ UNCHANGED <<storeVars, cookie, lock, disturbed>>
ReceiveLogin(c) ==
    /\ c.kind = "login" /\ c.answer # Nobody
    /\ cookie' = IF c.answer.ok THEN c.answer.token ELSE cookie
    /\ pages' = IF c.answer.ok /\ pages[c.tab].epoch = c.epoch
                THEN [pages EXCEPT ![c.tab] = [TakeToken(@, Access(c.epoch), c.epoch)
                                                 EXCEPT !.status = "authed", !.rejected = FALSE]]
                ELSE pages
    /\ calls' = calls \ {c}
    /\ UNCHANGED <<storeVars, lock, disturbed, clockTick, loginBudget>>

Logout(t) ==
    /\ pages[t].status = "authed" /\ Yields(t) /\ SpendLogin("logouts") /\ Tick
    /\ pages' = [pages EXCEPT ![t].epoch = clockTick + 1, ![t].access = Nobody,
                              ![t].status = "anon", ![t].rejected = TRUE]
    /\ calls' = calls \cup {Call("logout", t, clockTick + 1, 0, cookie)}
    /\ UNCHANGED <<storeVars, cookie, lock, disturbed>>
ReceiveLogout(c) ==
    /\ c.kind = "logout" /\ c.answer # Nobody
    /\ cookie' = IF c.answer.ok THEN Nobody ELSE cookie
    /\ calls' = calls \ {c}
    /\ UNCHANGED <<storeVars, lock, pages, disturbed, clockTick, loginBudget>>

----------------------------------------------------------------------------
ServerReplies == \E c \in calls : \/ ServeRefresh(c) \/ ServeLogout(c)
                                  \/ CheckPassword(c) \/ IssueTokenPair(c)
TabActs(t) == \/ RefreshOnce(t) \/ PerformOwnRefresh(t) \/ WaitTimesOut(t)
              \/ \E c \in calls : c.tab = t /\ (ReceiveRefresh(c) \/ ReceiveLogin(c) \/ ReceiveLogout(c))

LoginNext ==
    \/ ServerReplies \/ RequestPasswordReset \/ LockGoesStale
    \/ \E c \in calls : RefuseCall(c) \/ LoseAnswer(c)
    \/ \E token \in mails : ResetPassword(token)
    \/ \E id \in DOMAIN tokens : GraceEnds(id) \/ TokenExpires(id)
    \/ \E t \in BrowserTabs : \/ TabActs(t) \/ AccessExpires(t) \/ RetrySession(t) \/ Reload(t)
                              \/ Login(t) \/ Logout(t)

\* The server answers and the tabs run; a waiting tab's timer fires.
LoginFairness ==
    WF_loginVars(ServerReplies) /\ \A t \in BrowserTabs : WF_loginVars(TabActs(t))

LoginSpec == LoginInit /\ [][LoginNext]_loginVars /\ LoginFairness

----------------------------------------------------------------------------
(* Properties. *)

\* The cookie always names a stored token, and no two calls are the same.
LoginTypeOK ==
    /\ \A i \in DOMAIN tokens : tokens[i].status \in {"live", "rotation"} \cup Ending
    /\ cookie # Nobody => cookie \in DOMAIN tokens
    /\ \A t \in BrowserTabs : pages[t].status \in {"loading", "authed", "anon", "error"}
    /\ \A c, d \in calls : c.id = d.id => c = d

\* However tabs race and answers get lost, a login has at most one token that can
\* still be rotated, and it is the newest: concurrent refreshes never branch.
OneLiveTokenPerLogin ==
    \A i, j \in DOMAIN tokens :
        i[1] = j[1] /\ tokens[i].status = "live" => j[2] <= i[2]

\* A login ended by a logout, a password reset or reuse grants nothing any more,
\* also not to a refresh within the grace of an earlier rotation.
EndedLoginsStayEnded ==
    [][\A i \in DOMAIN tokens : tokens[i].status \in Ending =>
          \A j \in DOMAIN tokens' : j[1] = i[1] =>
             /\ tokens'[j].status # "live"
             /\ \A c \in calls' : (c \notin calls /\ c.answer # Nobody /\ c.answer.ok)
                                     => c.answer.token # j]_loginVars

\* Tabs that merely race are not taken for theft: a login is only revoked for reuse
\* after an answer was lost, overtaken or slower than the grace.
NoFalseAlarm == (\E i \in DOMAIN tokens : tokens[i].status = "compromise") => disturbed

\* A late answer to a call made before the tab's last sign-in or sign-out never
\* becomes the access token of a signed-in tab.
TokenOfThisLogin ==
    \A t \in BrowserTabs : pages[t].status = "authed" /\ pages[t].access # Nobody
                              => pages[t].access.epoch = pages[t].epoch

\* A tab is only ever signed out by the user or by a definitive rejection, never by
\* a rate limit, an outage or a lost answer.
OnlyRejectionSignsOut == \A t \in BrowserTabs : pages[t].status = "anon" => pages[t].rejected

\* A reset token works once, and never after a newer one was requested.
ResetTokenWorksOnce ==
    [][account'.password # account.password =>
          account'.reset = Nobody /\ \A m \in mails : m <= account.reset]_loginVars

\* A tab whose session is being restored learns how it stands, although the tab it
\* waits for may have been closed with the lock in hand.
RestoreEnds == []<>(\A t \in BrowserTabs : pages[t].status # "loading")

\* One login has one line of tokens, ends only for a reason and for good, and every
\* tab comes to know how it stands.
LoginsHold ==
    /\ [](/\ LoginTypeOK /\ OneLiveTokenPerLogin /\ NoFalseAlarm /\ TokenOfThisLogin
         /\ OnlyRejectionSignsOut)
    /\ EndedLoginsStayEnded
    /\ ResetTokenWorksOnce
    /\ RestoreEnds

=============================================================================
