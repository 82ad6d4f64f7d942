------------------------------ MODULE CliSession ------------------------------
(***************************************************************************)
(* Sessions of the command line client.  The server keeps a session's      *)
(* current refresh token, and for a while takes the one before it for a    *)
(* retry (internal/auth/refresh_session.go).  The commands of one machine  *)
(* share a credentials file: a refresh holds a lock of its own over its    *)
(* round trip, while login and logout only lock the file (cmd/sync).       *)
(*                                                                         *)
(* A session's refresh tokens are numbered by the rotations that made      *)
(* them; an access token comes with each and is told from it nowhere.      *)
(***************************************************************************)
EXTENDS Integers

CONSTANTS
    Commands,       \* the processes of the machine, one command at a time each
    NoOne,
    MaxLogins,      \* bound: sessions
    MaxRotations,   \* bound: rotations of a session
    MaxFaults       \* bound: crashes, timeouts and failed calls together

ASSUME SessionAssumption ==
    /\ NoOne \notin Commands
    /\ MaxLogins \in Nat \ {0} /\ MaxRotations \in Nat /\ MaxFaults \in Nat

VARIABLES
    session,   \* the server's sessions
    file,      \* the credentials file
    lock,      \* the command that holds the refresh lock
    command,   \* control state of a command, and the credentials it holds
    requests,  \* requests on their way, some of them given up by their sender
    loggedOut, \* auxiliary: sessions whose logout was confirmed to the user
    faults

vars == <<session, file, lock, command, requests, loggedOut, faults>>

Sessions == 1 .. MaxLogins
Tokens   == 0 .. MaxRotations

\* A credential names its session and the number of its refresh token.
None        == [session |-> 0, token |-> 0]
Credentials == [session : Sessions, token : Tokens]

Locked   == {"look", "asking"}
Waiting  == {"asking", "leaving", "leaving_again"}
Controls == Locked \cup Waiting \cup {"idle", "ready", "locking", "done", "error", "leave"}

Requests == [from : Commands, kind : {"refresh", "logout"}, credential : Credentials,
             awaited : BOOLEAN]

Session == [status : {"none", "active", "revoked"}, token : Tokens, retry : BOOLEAN]
Command == [pc : Controls, mine : Credentials \cup {None}, before : Credentials \cup {None},
            answer : {"none", "granted", "denied", "failed"}, given : Tokens, told : BOOLEAN]

TypeOK ==
    /\ session \in [Sessions -> Session]
    /\ file \in Credentials \cup {None}
    /\ command \in [Commands -> Command]
    /\ requests \subseteq Requests
    /\ loggedOut \subseteq Sessions
    /\ faults \in 0 .. MaxFaults
    /\ lock \in Commands \cup {NoOne}
    /\ \A p \in Commands : command[p].pc \in Locked <=> lock = p

Idle == [pc |-> "idle", mine |-> None, before |-> None, answer |-> "none", given |-> 0,
         told |-> FALSE]

\* The user has logged in once.
Init ==
    /\ session = [k \in Sessions |-> [status |-> IF k = 1 THEN "active" ELSE "none",
                                      token |-> 0, retry |-> FALSE]]
    /\ file = [session |-> 1, token |-> 0]
    /\ lock = NoOne
    /\ command = [p \in Commands |-> Idle]
    /\ requests = {} /\ loggedOut = {} /\ faults = 0

Fault == faults < MaxFaults /\ faults' = faults + 1

Update(p, c) == command' = [command EXCEPT ![p] = c]
Finish(p)    == Update(p, Idle)

Release(p) == lock' = NoOne

-----------------------------------------------------------------------------
(* The server.                                                             *)

\* (bug) the previous token rotates the session like the current one.
PreviousRotates(credential) ==
    LET s == session[credential.session] IN
    s.token = credential.token \/ (s.retry /\ s.token = credential.token + 1)

\* The current token rotates the session.
Rotates(credential) == session[credential.session].token = credential.token

\* (bug) only the current token is taken.
NeverRetries(credential) == FALSE

\* The one before it is only good for the answer that may have been lost.
Retries(credential) ==
    LET s == session[credential.session] IN s.retry /\ s.token = credential.token + 1

Active(credential) == session[credential.session].status = "active"

\* RotateCLISession, one transaction.
RefreshAnswer(credential) ==
    IF Active(credential) /\ (Rotates(credential) \/ Retries(credential))
    THEN "granted" ELSE "denied"

Refreshed(credential) ==
    IF Active(credential) /\ Rotates(credential)
    THEN [session EXCEPT ![credential.session].token = @ + 1,
                         ![credential.session].retry = TRUE]
    ELSE session

\* RevokeCLISessionWithRefreshToken: only the current token ends the session.
LogoutAnswer(credential) ==
    IF Active(credential) /\ session[credential.session].token = credential.token
    THEN "granted" ELSE "denied"

LoggedOut(credential) ==
    IF LogoutAnswer(credential) = "granted"
    THEN [session EXCEPT ![credential.session].status = "revoked"]
    ELSE session

AnswerTo(r)  == IF r.kind = "refresh" THEN RefreshAnswer(r.credential) ELSE LogoutAnswer(r.credential)
EffectOf(r)  == IF r.kind = "refresh" THEN Refreshed(r.credential) ELSE LoggedOut(r.credential)
Affordable(r) == r.kind = "refresh" => session[r.credential.session].token < MaxRotations

\* The answer reaches a sender that still waits for it.
Reply(r, answer, given) ==
    /\ requests' = requests \ {r}
    /\ command' = IF r.awaited
                  THEN [command EXCEPT ![r.from].answer = answer, ![r.from].given = given]
                  ELSE command

Serve(r) ==
    /\ r \in requests /\ Affordable(r)
    /\ session' = EffectOf(r)
    /\ Reply(r, AnswerTo(r), EffectOf(r)[r.credential.session].token)
    /\ UNCHANGED <<file, lock, loggedOut, faults>>

\* The store fails: a read is answered with a failure; a commit, which may have
\* taken effect all the same, with the refusal of the token.
ServeFails(r, committed, answer) ==
    /\ r \in requests /\ Affordable(r) /\ Fault
    /\ committed => answer = "denied"
    /\ session' = IF committed THEN EffectOf(r) ELSE session
    /\ Reply(r, answer, 0)
    /\ UNCHANGED <<file, lock, loggedOut>>

\* The user revokes the session in the browser, or the account is suspended.
RevokeElsewhere(k) ==
    /\ session[k].status = "active"
    /\ session' = [session EXCEPT ![k].status = "revoked"]
    /\ UNCHANGED <<file, lock, command, requests, loggedOut, faults>>

\* The retry window of a rotation ends.
WindowCloses(k) ==
    /\ session[k].retry
    /\ session' = [session EXCEPT ![k].retry = FALSE]
    /\ UNCHANGED <<file, lock, command, requests, loggedOut, faults>>

-----------------------------------------------------------------------------
(* Commands that call the API.                                             *)

\* A login stores a new session over whatever is there.
Login(p, k) ==
    /\ command[p].pc = "idle"
    /\ session[k].status = "none" /\ \A j \in Sessions : j < k => session[j].status # "none"
    /\ session' = [session EXCEPT ![k].status = "active"]
    /\ file' = [session |-> k, token |-> 0]
    /\ UNCHANGED <<lock, command, requests, loggedOut, faults>>

\* withStoredCredentials, or a logout, loads the file.
Begin(p, next) ==
    /\ command[p].pc = "idle" /\ file # None
    /\ Update(p, [Idle EXCEPT !.pc = next, !.mine = file, !.before = file])
    /\ UNCHANGED <<session, file, lock, requests, loggedOut, faults>>

\* The access token is refused.
Unauthorized(p) ==
    /\ command[p].pc = "ready"
    /\ Update(p, [command[p] EXCEPT !.pc = "locking"])
    /\ UNCHANGED <<session, file, lock, requests, loggedOut, faults>>

\* (bug) the refresh lock is taken whoever holds it.
LockFreeAlways == TRUE

LockFree == lock = NoOne

Lock(p) ==
    /\ command[p].pc = "locking" /\ LockFree
    /\ lock' = p
    /\ Update(p, [command[p] EXCEPT !.pc = "look"])
    /\ UNCHANGED <<session, file, requests, loggedOut, faults>>

\* A request is sent with the credentials c holds.
Send(p, kind, c) ==
    /\ requests' = requests \cup {[from |-> p, kind |-> kind, credential |-> c.mine,
                                   awaited |-> TRUE]}
    /\ Update(p, [c EXCEPT !.answer = "none", !.given = 0])

SameSession(p) == file.session = command[p].mine.session

\* refreshLocked reads the file again.  Credentials that another command has
\* renewed are taken over; an access token that is still good saves the refresh.
LookGone(p) ==
    /\ command[p].pc = "look" /\ ~SameSession(p)
    /\ Update(p, [command[p] EXCEPT !.pc = "done", !.told = TRUE])
    /\ Release(p)
    /\ UNCHANGED <<session, file, requests, loggedOut, faults>>

LookRenewed(p) ==
    /\ command[p].pc = "look" /\ SameSession(p) /\ file # command[p].mine
    /\ Update(p, [command[p] EXCEPT !.pc = "done", !.mine = file])
    /\ Release(p)
    /\ UNCHANGED <<session, file, requests, loggedOut, faults>>

LookAsk(p) ==
    /\ command[p].pc = "look" /\ SameSession(p)
    /\ Send(p, "refresh", [command[p] EXCEPT !.pc = "asking", !.mine = file])
    /\ UNCHANGED <<session, file, lock, loggedOut, faults>>

\* The server could not say: the command ends with an error.
Failed(p) ==
    /\ command[p].pc = "asking" /\ command[p].answer = "failed"
    /\ Update(p, [command[p] EXCEPT !.pc = "error", !.answer = "none"])
    /\ Release(p)
    /\ UNCHANGED <<session, file, requests, loggedOut, faults>>

\* After a refusal the file is read once more.
Recheck(p) ==
    /\ command[p].pc = "asking" /\ command[p].answer = "denied"
    /\ IF SameSession(p) /\ file # command[p].mine
       THEN Update(p, [command[p] EXCEPT !.pc = "done", !.answer = "none", !.mine = file])
       ELSE Update(p, [command[p] EXCEPT !.pc = "done", !.answer = "none", !.told = TRUE])
    /\ Release(p)
    /\ UNCHANGED <<session, file, requests, loggedOut, faults>>

\* persistCredentials: what is stored is only replaced if it is what the refresh
\* began with.
Save(p) ==
    /\ command[p].pc = "asking" /\ command[p].answer = "granted"
    /\ LET c       == [command[p] EXCEPT !.pc = "done", !.answer = "none", !.given = 0]
           rotated == [session |-> c.mine.session, token |-> command[p].given]
       IN  IF file = c.mine
           THEN file' = rotated /\ Update(p, [c EXCEPT !.mine = rotated])
           ELSE /\ Update(p, IF SameSession(p) THEN [c EXCEPT !.mine = file]
                           ELSE [c EXCEPT !.pc = "error"])
                /\ UNCHANGED file
    /\ Release(p)
    /\ UNCHANGED <<session, requests, loggedOut, faults>>

\* The file cannot be written.
SaveFails(p) ==
    /\ command[p].pc = "asking" /\ command[p].answer = "granted" /\ Fault
    /\ Update(p, [command[p] EXCEPT !.pc = "error", !.answer = "none", !.given = 0])
    /\ Release(p)
    /\ UNCHANGED <<session, file, requests, loggedOut>>

\* A command that is told to log in again clears what it began with; one that
\* holds other credentials than it began with stores them in their place.  The
\* new access token, too, is refused if the session is revoked meanwhile.
End(p, refused) ==
    LET c    == command[p]
        told == c.told \/ refused
    IN  /\ c.pc \in {"done", "error", "ready"}
        /\ refused => c.pc = "done" /\ ~c.told /\ session[c.mine.session].status = "revoked"
        /\ file' = IF file # c.before THEN file ELSE IF told THEN None ELSE c.mine
        /\ Finish(p)
        /\ UNCHANGED <<session, lock, requests, loggedOut, faults>>

-----------------------------------------------------------------------------
(* auth logout.                                                            *)

Leave(p) ==
    /\ command[p].pc = "leave"
    /\ Send(p, "logout", [command[p] EXCEPT !.pc = "leaving"])
    /\ UNCHANGED <<session, file, lock, loggedOut, faults>>

\* A refusal may be due to a refresh: once more, with what is stored now.
LeaveAgain(p) ==
    /\ command[p].pc = "leaving" /\ command[p].answer = "denied"
    /\ IF SameSession(p) /\ file # command[p].mine
       THEN Send(p, "logout", [command[p] EXCEPT !.pc = "leaving_again", !.mine = file])
       ELSE Finish(p) /\ UNCHANGED requests
    /\ UNCHANGED <<session, file, lock, loggedOut, faults>>

\* The server did not confirm.
LeaveFailed(p) ==
    /\ \/ command[p].pc \in {"leaving", "leaving_again"} /\ command[p].answer = "failed"
       \/ command[p].pc = "leaving_again" /\ command[p].answer = "denied"
    /\ Finish(p)
    /\ UNCHANGED <<session, file, lock, requests, loggedOut, faults>>

\* The credentials of the session are cleared, whichever they are by now.
Clear(p) ==
    /\ command[p].pc \in {"leaving", "leaving_again"} /\ command[p].answer = "granted"
    /\ file' = IF SameSession(p) THEN None ELSE file
    /\ loggedOut' = loggedOut \cup {command[p].mine.session}
    /\ Finish(p)
    /\ UNCHANGED <<session, lock, requests, faults>>

-----------------------------------------------------------------------------
(* Faults.                                                                 *)

\* What p has sent may still be served, for nobody.
Abandoned(p) == {IF r.from = p THEN [r EXCEPT !.awaited = FALSE] ELSE r : r \in requests}

GiveUp(p) ==
    /\ command[p].pc \in Waiting /\ Fault
    /\ requests' = Abandoned(p)
    /\ IF command[p].pc = "asking"
       THEN Update(p, [command[p] EXCEPT !.pc = "error", !.answer = "none", !.given = 0])
            /\ Release(p)
       ELSE Finish(p) /\ UNCHANGED lock
    /\ UNCHANGED <<session, file, loggedOut>>

\* The process is killed; the operating system takes its lock back.
Crash(p) ==
    /\ command[p].pc # "idle" /\ Fault
    /\ requests' = Abandoned(p)
    /\ lock' = IF lock = p THEN NoOne ELSE lock
    /\ Finish(p)
    /\ UNCHANGED <<session, file, loggedOut>>

-----------------------------------------------------------------------------
Call(p) ==
    \/ Unauthorized(p) \/ Lock(p) \/ LookGone(p) \/ LookRenewed(p) \/ LookAsk(p)
    \/ Failed(p) \/ Recheck(p) \/ Save(p) \/ SaveFails(p)
    \/ \E refused \in BOOLEAN : End(p, refused)

LogOut(p) ==
    \/ Leave(p) \/ LeaveAgain(p) \/ LeaveFailed(p) \/ Clear(p)

Next ==
    \/ \E p \in Commands :
         \/ Call(p) \/ LogOut(p) \/ GiveUp(p) \/ Crash(p)
         \/ \E next \in {"ready", "leave"} : Begin(p, next)
         \/ \E k \in Sessions : Login(p, k)
    \/ \E r \in requests :
         \/ Serve(r)
         \/ \E committed \in BOOLEAN, answer \in {"denied", "failed"} :
              ServeFails(r, committed, answer)
    \/ \E k \in Sessions : RevokeElsewhere(k) \/ WindowCloses(k)

Spec == Init /\ [][Next]_vars

-----------------------------------------------------------------------------
(* Properties.                                                             *)

\* A refresh with c is granted, and its answer is the token after c's.
Renewable(c) ==
    RefreshAnswer(c) = "granted" /\ Refreshed(c)[c.session].token = c.token + 1

\* The command has been granted what will renew the file.
Renewing(p) ==
    command[p].pc = "asking" /\ command[p].answer = "granted" /\ command[p].mine = file

\* What is stored is never of a session that the user was told is logged out,
\* and as long as its session is active it can be used: the server renews it, by
\* rotation or by the retry of a rotation whose answer was not stored, and
\* always to the same successor; or a command holds that successor and is about
\* to store it.  It is out of reach in one case only: after a crash, a timeout or
\* a failure left it one rotation behind and the retry window has closed since.
StoredIsUsable ==
    file # None =>
      LET s == session[file.session] IN
      /\ file.session \notin loggedOut
      /\ s.status = "active" =>
           \/ Renewable(file)
           \/ \E p \in Commands : Renewing(p)
           \/ faults > 0 /\ s.token = file.token + 1 /\ ~s.retry

\* As long as nothing fails and no session is revoked, commands that run at once
\* never cost each other the login: none is told to log in again, but where a
\* new login has replaced its session, and the file is never cleared.
StaysLoggedIn ==
    faults = 0 /\ (\A k \in Sessions : session[k].status # "revoked") =>
      /\ file # None
      /\ \A p \in Commands : command[p].told => file.session # command[p].before.session
=============================================================================
