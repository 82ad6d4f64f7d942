--------------------------- MODULE CliSessionProofs ---------------------------
(***************************************************************************)
(* Machine-checked proofs about CliSession, for any commands and any bounds. *)
(***************************************************************************)
EXTENDS CliSession, TLAPS

USE SessionAssumption

Calm == faults = 0 /\ \A k \in Sessions : session[k].status # "revoked"

\* The credentials file only ever gets newer: what was once read from it is of
\* an older session, or of an older rotation of the same one.
Known(c) == c \in Credentials /\ session[c.session].status # "none"
Old(c)   == file # None =>
              c.session < file.session \/ (c.session = file.session /\ c.token <= file.token)

SessionInv(k) ==
    session[k].status = "none" =>
      /\ session[k].token = 0 /\ ~session[k].retry /\ k \notin loggedOut
      /\ \A j \in Sessions : j > k => session[j].status = "none"

FileInv ==
    file # None =>
      /\ Known(file) /\ file.session \notin loggedOut
      /\ session[file.session].token \in {file.token, file.token + 1}
      /\ session[file.session].token # file.token =>
           faults > 0 \/ \E p \in Commands : Renewing(p)

Holds(c) ==
    /\ Known(c.mine) /\ Known(c.before) /\ Old(c.mine) /\ Old(c.before)
    /\ c.mine.session = c.before.session /\ c.before.token <= c.mine.token
    /\ c.pc = "asking" /\ c.answer = "granted" =>
         c.given = c.mine.token + 1 /\ c.given <= session[c.mine.session].token
    /\ c.pc \in {"leaving", "leaving_again"} /\ c.answer = "granted" =>
         session[c.mine.session].status = "revoked"
    /\ Calm /\ c.told => file.session # c.mine.session
    /\ Calm /\ c.pc = "asking" =>
         file.session # c.mine.session \/ (file = c.mine /\ c.answer # "denied")

CommandInv(p) == IF command[p].pc = "idle" THEN ~command[p].told ELSE Holds(command[p])

RequestInv(r) ==
    /\ Known(r.credential) /\ Old(r.credential)
    /\ ~r.awaited => faults > 0
    /\ r.awaited => /\ command[r.from].mine = r.credential
                    /\ command[r.from].answer = "none"
                    /\ command[r.from].pc \in IF r.kind = "refresh" THEN {"asking"}
                                              ELSE {"leaving", "leaving_again"}

IndInv ==
    /\ TypeOK
    /\ \A k \in Sessions : SessionInv(k)
    /\ FileInv
    /\ \A p \in Commands : CommandInv(p)
    /\ \A r \in requests : RequestInv(r)
    /\ Calm => file # None

\* What an update of a command's record leaves of it.
LEMMA MovedFields ==
    ASSUME NEW w \in Command, NEW pc \in Controls
    PROVE  LET c == [w EXCEPT !.pc = pc] IN
            c \in Command /\ c.pc = pc /\ c.mine = w.mine /\ c.before = w.before
            /\ c.answer = w.answer /\ c.told = w.told
BY DEF Command, Tokens

LEMMA ToldFields ==
    ASSUME NEW w \in Command, NEW pc \in Controls
    PROVE  LET c == [w EXCEPT !.pc = pc, !.told = TRUE] IN
            c \in Command /\ c.pc = pc /\ c.mine = w.mine /\ c.before = w.before /\ c.told
BY DEF Command, Tokens

LEMMA AnsweredFields ==
    ASSUME NEW w \in Command, NEW pc \in Controls
    PROVE  LET c == [w EXCEPT !.pc = pc, !.answer = "none"] IN
            c \in Command /\ c.pc = pc /\ c.mine = w.mine /\ c.before = w.before
            /\ c.answer = "none" /\ c.told = w.told
BY DEF Command, Tokens

LEMMA ClearedFields ==
    ASSUME NEW w \in Command, NEW pc \in Controls
    PROVE  LET c == [w EXCEPT !.pc = pc, !.answer = "none", !.given = 0] IN
            c \in Command /\ c.pc = pc /\ c.mine = w.mine /\ c.before = w.before
            /\ c.answer = "none" /\ c.told = w.told
<1>1. 0 \in Tokens
  BY DEF Tokens
<1> QED
  BY <1>1 DEF Command

LEMMA SentFields ==
    ASSUME NEW w \in Command
    PROVE  LET c == [w EXCEPT !.answer = "none", !.given = 0] IN
            c \in Command /\ c.pc = w.pc /\ c.mine = w.mine /\ c.before = w.before
            /\ c.answer = "none" /\ c.told = w.told
<1>1. 0 \in Tokens
  BY DEF Tokens
<1> QED
  BY <1>1 DEF Command

LEMMA IdleIs ==
    Idle \in Command /\ Idle.pc = "idle" /\ Idle.answer = "none" /\ ~Idle.told
BY DEF Idle, Command, Controls, Tokens

LEMMA Updated ==
    ASSUME TypeOK, NEW p \in Commands, NEW c \in Command, Update(p, c)
    PROVE  /\ command' \in [Commands -> Command] /\ command'[p] = c
           /\ \A q \in Commands : q # p => command'[q] = command[q]
BY DEF TypeOK, Update

LEMMA InitInv == Init => IndInv
<1> SUFFICES ASSUME Init PROVE IndInv
  OBVIOUS
<1>1. file \in Credentials /\ session \in [Sessions -> Session] /\ 1 \in Sessions
  BY DEF Init, Credentials, Session, Sessions, Tokens
<1>2. command \in [Commands -> Command]
  BY IdleIs DEF Init
<1>3. TypeOK
  <2>1. \A p \in Commands : command[p].pc \notin Locked /\ lock # p
    BY IdleIs DEF Init, Locked
  <2>2. 0 \in 0 .. MaxFaults /\ lock = NoOne
    BY DEF Init
  <2> QED
    BY <1>1, <1>2, <2>1, <2>2 DEF Init, TypeOK
<1>4. \A k \in Sessions : SessionInv(k)
  BY DEF Init, SessionInv, Sessions
<1> QED
  BY <1>1, <1>3, <1>4, IdleIs DEF Init, IndInv, FileInv, CommandInv, Known, None

\* A command keeps what it holds while others renew or revoke sessions.
LEMMA HoldsOn ==
    ASSUME TypeOK, NEW c \in Command, Holds(c), UNCHANGED file, Calm' => Calm,
           session' \in [Sessions -> Session],
           \A k \in Sessions : /\ session[k].status # "none" => session'[k].status # "none"
                               /\ session[k].status = "revoked" => session'[k].status = "revoked"
                               /\ session[k].token <= session'[k].token
    PROVE  Holds(c)'
<1>1. /\ c.mine \in Credentials /\ c.before \in Credentials /\ c.mine.session \in Sessions
      /\ c.before.session \in Sessions /\ c.given \in Nat
      /\ session[c.mine.session].token \in Nat /\ session'[c.mine.session].token \in Nat
  BY DEF Holds, Known, Credentials, Command, TypeOK, Session, Tokens
<1>2. Known(c.mine)' /\ Known(c.before)' /\ Old(c.mine)' /\ Old(c.before)'
  BY <1>1 DEF Holds, Known, Old
<1>3. c.given <= session[c.mine.session].token => c.given <= session'[c.mine.session].token
  BY <1>1
<1> QED
  BY <1>1, <1>2, <1>3 DEF Holds

\* A step of one command, the file and the server unchanged.
LEMMA OwnStep ==
    ASSUME IndInv, NEW p \in Commands, NEW c \in Command, Update(p, c),
           UNCHANGED <<session, file, loggedOut>>,
           requests' \subseteq Requests, faults' \in faults .. MaxFaults,
           \A r \in requests' : (r \in requests /\ (r.awaited => r.from # p)) \/ RequestInv(r)',
           Renewing(p) => faults' > 0,
           \/ lock' = lock /\ (c.pc \in Locked <=> command[p].pc \in Locked)
           \/ lock' = p /\ c.pc \in Locked /\ lock = NoOne
           \/ lock' = NoOne /\ command[p].pc \in Locked /\ c.pc \notin Locked,
           IF c.pc = "idle" THEN ~c.told ELSE Holds(c)
    PROVE  IndInv'
<1>0. TypeOK /\ faults \in Nat /\ faults' \in Nat /\ faults <= faults'
  BY DEF IndInv, TypeOK
<1>1. /\ command' \in [Commands -> Command] /\ command'[p] = c
      /\ \A q \in Commands : q # p => command'[q] = command[q]
  BY <1>0, Updated
<1>2. TypeOK'
  <2>1. \A q \in Commands : (command[q].pc \in Locked <=> lock = q)
    BY <1>0 DEF TypeOK
  <2>2. (\A q \in Commands : (command[q].pc \in Locked <=> lock = q))'
    BY <1>1, <2>1
  <2>3. lock' \in Commands \cup {NoOne}
    BY <1>0 DEF TypeOK
  <2> QED
    BY <1>0, <1>1, <2>2, <2>3 DEF TypeOK
<1>3. Calm' => Calm
  BY <1>0 DEF Calm
<1>4. \A k \in Sessions : session[k].token <= session[k].token
  BY <1>0 DEF TypeOK, Session, Tokens
<1>5. ASSUME NEW q \in Commands PROVE CommandInv(q)'
  <2>1. command'[q] \in Command /\ session' \in [Sessions -> Session]
    BY <1>0, <1>1 DEF TypeOK
  <2>2. IF command'[q].pc = "idle" THEN ~command'[q].told ELSE Holds(command'[q])
    BY <1>1 DEF IndInv, CommandInv
  <2>3. ASSUME NEW d \in Command, d = command'[q], Holds(d) PROVE Holds(command[q])'
    <3>2. Holds(d)'
      BY <1>0, <1>3, <1>4, <2>1, <2>3, HoldsOn
    <3> QED
      BY <2>3, <3>2 DEF Holds, Known, Old
  <2> QED
    BY <2>1, <2>2, <2>3 DEF CommandInv
<1>6. ASSUME NEW r \in requests' PROVE RequestInv(r)'
  <2>1. CASE r \in requests /\ (r.awaited => r.from # p)
    <3>1. RequestInv(r) /\ r.from \in Commands
      BY <1>0, <2>1 DEF IndInv, TypeOK, Requests
    <3> QED
      BY <1>0, <1>1, <2>1, <3>1 DEF RequestInv, Known, Old
  <2> QED
    BY <2>1
<1>7. FileInv'
  <2>1. \A q \in Commands : Renewing(q) => faults' > 0 \/ Renewing(q)'
    BY <1>1 DEF Renewing
  <2> QED
    BY <1>0, <2>1 DEF IndInv, FileInv, Known
<1>8. \A k \in Sessions : SessionInv(k)'
  BY DEF IndInv, SessionInv
<1> QED
  BY <1>2, <1>3, <1>5, <1>6, <1>7, <1>8 DEF IndInv

\* The credentials stay, or the newer ones in the file are taken over.
LEMMA Moves ==
    ASSUME IndInv, NEW w \in Command, Holds(w), NEW c \in Command, c.before = w.before,
           c.mine = w.mine \/ (c.mine = file /\ file.session = w.mine.session),
           c.told => w.told \/ (Calm => file.session # c.mine.session),
           c.pc # "asking", c.pc \notin {"leaving", "leaving_again"} \/ c.answer = "none"
    PROVE  Holds(c)
<1>1. CASE c.mine = w.mine
  BY <1>1 DEF Holds
<1>2. CASE c.mine = file /\ file.session = w.mine.session
  <2>1. /\ w.mine \in Credentials /\ w.before \in Credentials
        /\ w.mine.session \in Sessions /\ w.before.token \in Nat
    BY DEF Holds, Known, Credentials, Tokens
  <2>2. file # None
    BY <1>2, <2>1 DEF None, Sessions
  <2>3. Known(file) /\ file.session \in Sessions /\ file.token \in Nat
    BY <2>2 DEF IndInv, FileInv, Known, Credentials, Tokens
  <2>4. w.before.token <= file.token
    BY <1>2, <2>1, <2>2, <2>3 DEF Holds, Old, Sessions
  <2>5. Old(file)
    BY <2>3 DEF Old
  <2> QED
    BY <1>2, <2>3, <2>4, <2>5 DEF Holds
<1> QED
  BY <1>1, <1>2

LEMMA CommandIs ==
    ASSUME IndInv, NEW p \in Commands
    PROVE  /\ TypeOK /\ command[p] \in Command /\ faults \in faults .. MaxFaults /\ requests \subseteq Requests
           /\ command[p].pc # "idle" => Holds(command[p])
           /\ command[p].pc \in Locked <=> lock = p
           /\ file = None \/ (Known(file) /\ file \in Credentials)
           /\ file \in Credentials \cup {None}
           /\ command[p].mine \in Credentials \cup {None}
           /\ command[p].answer # "none" \/ command[p].pc \notin Waiting =>
                \A r \in requests : r.awaited => r.from # p
           /\ Fault => faults' \in faults .. MaxFaults /\ faults' > 0
<1>1. command[p].answer # "none" \/ command[p].pc \notin Waiting =>
        \A r \in requests : r.awaited => r.from # p
  BY DEF IndInv, RequestInv, Waiting
<1>2. Fault => faults' \in faults .. MaxFaults /\ faults' > 0
  BY DEF IndInv, TypeOK, Fault
<1> QED
  BY <1>1, <1>2 DEF IndInv, TypeOK, CommandInv, FileInv, Known, Command

\* The steps between two messages.
LEMMA LocalStep ==
    ASSUME IndInv, NEW p \in Commands, NEW c \in Command, Update(p, c),
           UNCHANGED <<session, file, loggedOut, requests>>,
           faults' = faults \/ Fault,
           command[p].answer # "none" \/ command[p].pc \notin Waiting,
           Renewing(p) => Fault,
           \/ lock' = lock /\ (c.pc \in Locked <=> command[p].pc \in Locked)
           \/ lock' = p /\ c.pc \in Locked /\ lock = NoOne
           \/ lock' = NoOne /\ command[p].pc \in Locked /\ c.pc \notin Locked,
           IF c.pc = "idle" THEN ~c.told ELSE Holds(c)
    PROVE  IndInv'
<1>1. requests' \subseteq Requests /\ faults' \in faults .. MaxFaults
  BY CommandIs
<1>2. \A r \in requests' : r \in requests /\ (r.awaited => r.from # p)
  BY CommandIs
<1>3. Renewing(p) => faults' > 0
  BY CommandIs
<1> QED
  BY <1>1, <1>2, <1>3, OwnStep

LEMMA QuietSteps ==
    ASSUME IndInv, NEW p \in Commands,
           \/ \E next \in {"ready", "leave"} : Begin(p, next)
           \/ Unauthorized(p) \/ Lock(p) \/ LookGone(p) \/ LookRenewed(p)
           \/ Failed(p) \/ SaveFails(p) \/ LeaveFailed(p)
    PROVE  IndInv'
<1> DEFINE w == command[p]
<1>0. w \in Command /\ (w.pc # "idle" => Holds(w)) /\ file \in Credentials \cup {None}
      /\ w.mine \in Credentials \cup {None}
  BY CommandIs
<1>1. ASSUME NEW next \in {"ready", "leave"}, Begin(p, next) PROVE IndInv'
  <2> DEFINE c == [Idle EXCEPT !.pc = next, !.mine = file, !.before = file]
  <2>1. /\ c \in Command /\ c.pc = next /\ c.mine = file /\ c.before = file /\ ~c.told
        /\ c.answer = "none"
    <3>1. next \in Controls
      BY DEF Controls
    <3> QED
      BY <1>0, <3>1, IdleIs DEF Command
  <2>2. Known(file) /\ file.token \in Nat /\ file.session \in Nat
    BY <1>1, CommandIs DEF Begin, Credentials, Tokens, Sessions
  <2>3. Holds(c)
    BY <2>1, <2>2 DEF Holds, Old
  <2>4. Update(p, c)
    BY <1>1 DEF Begin
  <2> HIDE DEF c
  <2> QED
    BY <1>1, <2>1, <2>3, <2>4, LocalStep DEF Begin, Locked, Waiting, Renewing
<1>2. CASE Unauthorized(p)
  <2> DEFINE c == [w EXCEPT !.pc = "locking"]
  <2>1. c \in Command /\ c.pc = "locking" /\ c.mine = w.mine /\ c.before = w.before
        /\ c.answer = w.answer /\ c.told = w.told
    BY <1>0, MovedFields DEF Controls
  <2>2. Update(p, c) /\ w.pc = "ready"
    BY <1>2 DEF Unauthorized
  <2> HIDE DEF c
  <2>3. Holds(c)
    BY <1>0, <2>1, <2>2, Moves
  <2> QED
    BY <1>2, <2>1, <2>2, <2>3, LocalStep DEF Unauthorized, Locked, Waiting, Renewing
<1>3. CASE Lock(p)
  <2> DEFINE c == [w EXCEPT !.pc = "look"]
  <2>1. c \in Command /\ c.pc = "look" /\ c.mine = w.mine /\ c.before = w.before
        /\ c.answer = w.answer /\ c.told = w.told
    BY <1>0, MovedFields DEF Controls, Locked
  <2>2. Update(p, c) /\ w.pc = "locking" /\ lock = NoOne /\ lock' = p
    BY <1>3 DEF Lock, LockFree
  <2> HIDE DEF c
  <2>3. Holds(c)
    BY <1>0, <2>1, <2>2, Moves
  <2> QED
    BY <1>3, <2>1, <2>2, <2>3, LocalStep DEF Lock, Locked, Waiting, Renewing
<1>4. CASE LookGone(p)
  <2> DEFINE c == [w EXCEPT !.pc = "done", !.told = TRUE]
  <2>1. c \in Command /\ c.pc = "done" /\ c.mine = w.mine /\ c.before = w.before
    BY <1>0, ToldFields DEF Controls
  <2>2. Update(p, c) /\ w.pc = "look" /\ lock' = NoOne /\ file.session # w.mine.session
    BY <1>4 DEF LookGone, Release, SameSession
  <2> HIDE DEF c
  <2>3. Holds(c)
    BY <1>0, <2>1, <2>2, Moves
  <2> QED
    BY <1>4, <2>1, <2>2, <2>3, LocalStep DEF LookGone, Locked, Waiting, Renewing
<1>5. CASE LookRenewed(p)
  <2> DEFINE c == [w EXCEPT !.pc = "done", !.mine = file]
  <2>1. c \in Command /\ c.pc = "done" /\ c.mine = file /\ c.before = w.before /\ c.told = w.told
    <3>1. "done" \in Controls
      BY DEF Controls
    <3> HIDE DEF w
    <3> QED
      BY <1>0, <3>1 DEF Command
  <2>2. Update(p, c) /\ w.pc = "look" /\ lock' = NoOne /\ file.session = w.mine.session
    BY <1>5 DEF LookRenewed, Release, SameSession
  <2> HIDE DEF c
  <2>3. Holds(c)
    BY <1>0, <2>1, <2>2, Moves
  <2> QED
    BY <1>5, <2>1, <2>2, <2>3, LocalStep DEF LookRenewed, Locked, Waiting, Renewing
<1>6. CASE Failed(p)
  <2> DEFINE c == [w EXCEPT !.pc = "error", !.answer = "none"]
  <2>1. c \in Command /\ c.pc = "error" /\ c.mine = w.mine /\ c.before = w.before /\ c.told = w.told
    BY <1>0, AnsweredFields DEF Controls
  <2>2. Update(p, c) /\ w.pc = "asking" /\ w.answer = "failed" /\ lock' = NoOne
    BY <1>6 DEF Failed, Release
  <2> HIDE DEF c
  <2>3. Holds(c)
    BY <1>0, <2>1, <2>2, Moves
  <2> QED
    BY <1>6, <2>1, <2>2, <2>3, LocalStep DEF Failed, Locked, Waiting, Renewing
<1>7. CASE SaveFails(p)
  <2> DEFINE c == [w EXCEPT !.pc = "error", !.answer = "none", !.given = 0]
  <2>1. c \in Command /\ c.pc = "error" /\ c.mine = w.mine /\ c.before = w.before /\ c.told = w.told
    BY <1>0, ClearedFields DEF Controls
  <2>2. Update(p, c) /\ w.pc = "asking" /\ w.answer = "granted" /\ lock' = NoOne /\ Fault
    BY <1>7 DEF SaveFails, Release
  <2> HIDE DEF c
  <2>3. Holds(c)
    BY <1>0, <2>1, <2>2, Moves
  <2> QED
    BY <1>7, <2>1, <2>2, <2>3, LocalStep DEF SaveFails, Locked, Waiting, Renewing
<1>8. CASE LeaveFailed(p)
  <2>1. Update(p, Idle) /\ w.pc \in {"leaving", "leaving_again"} /\ w.answer \in {"failed", "denied"}
    BY <1>8 DEF LeaveFailed, Finish
  <2> QED
    BY <1>8, <2>1, IdleIs, LocalStep DEF LeaveFailed, Locked, Waiting, Renewing
<1> QED
  BY <1>1, <1>2, <1>3, <1>4, <1>5, <1>6, <1>7, <1>8

\* A refused refresh looks once more at the file.
LEMMA RecheckInv ==
    ASSUME IndInv, NEW p \in Commands, Recheck(p) PROVE IndInv'
<1> DEFINE w == command[p]
<1>0. /\ w \in Command /\ file \in Credentials \cup {None}
      /\ w.mine \in Credentials \cup {None}
      /\ w.pc = "asking" /\ w.answer = "denied" /\ lock' = NoOne
      /\ UNCHANGED <<session, file, requests, loggedOut, faults>>
  BY CommandIs DEF Recheck, Release
<1>1. Holds(w)
  BY <1>0, CommandIs
<1>2. CASE SameSession(p) /\ file # w.mine
  <2> DEFINE c == [w EXCEPT !.pc = "done", !.answer = "none", !.mine = file]
  <2>1. c \in Command /\ c.pc = "done" /\ c.mine = file /\ c.before = w.before /\ c.told = w.told
    <3>1. "done" \in Controls
      BY DEF Controls
    <3> HIDE DEF w
    <3> QED
      BY <1>0, <3>1 DEF Command
  <2>2. Update(p, c) /\ file.session = w.mine.session
    BY <1>2 DEF Recheck, SameSession
  <2> HIDE DEF c
  <2>3. Holds(c)
    BY <1>1, <1>0, <2>1, <2>2, Moves
  <2> QED
    BY <1>0, <2>1, <2>2, <2>3, LocalStep DEF Locked, Waiting, Renewing
<1>3. CASE ~(SameSession(p) /\ file # w.mine)
  <2> DEFINE c == [w EXCEPT !.pc = "done", !.answer = "none", !.told = TRUE]
  <2>1. c \in Command /\ c.pc = "done" /\ c.mine = w.mine /\ c.before = w.before
    <3>1. "done" \in Controls
      BY DEF Controls
    <3> HIDE DEF w
    <3> QED
      BY <1>0, <3>1 DEF Command
  <2>2. Update(p, c)
    BY <1>3 DEF Recheck
  <2>3. Calm => file.session # w.mine.session
    BY <1>0, <1>1 DEF Holds
  <2> HIDE DEF c
  <2>4. Holds(c)
    BY <1>0, <1>1, <2>1, <2>3, Moves
  <2> QED
    BY <1>0, <2>1, <2>2, <2>4, LocalStep DEF Locked, Waiting, Renewing
<1> QED
  BY <1>2, <1>3

\* A message is sent.
LEMMA SendInv ==
    ASSUME IndInv, NEW p \in Commands, NEW kind \in {"refresh", "logout"}, NEW v \in Command,
           Send(p, kind, v), Holds(command[p]), command[p].pc # "idle",
           v.before = command[p].before, v.told = command[p].told,
           v.mine = command[p].mine \/ (v.mine = file /\ file.session = command[p].mine.session),
           v.pc = "asking" => v.mine = file,
           UNCHANGED <<session, file, lock, loggedOut, faults>>,
           command[p].answer # "none" \/ command[p].pc \notin Waiting, ~Renewing(p),
           v.pc \in IF kind = "refresh" THEN {"asking"} ELSE {"leaving", "leaving_again"},
           v.pc \in Locked <=> command[p].pc \in Locked
    PROVE  IndInv'
<1> DEFINE c == [v EXCEPT !.answer = "none", !.given = 0]
           r == [from |-> p, kind |-> kind, credential |-> v.mine, awaited |-> TRUE]
<1>1. c \in Command /\ c.pc = v.pc /\ c.mine = v.mine /\ c.before = v.before
      /\ c.answer = "none" /\ c.told = v.told
  BY SentFields
<1>2. Update(p, c) /\ requests' = requests \cup {r}
  BY DEF Send
<1>3. command'[p] = c
  <2> HIDE DEF c
  <2> QED
    BY <1>1, <1>2, Updated, CommandIs
<1>4. Holds(c) /\ Known(c.mine) /\ Old(c.mine)
  <2> DEFINE d == [c EXCEPT !.pc = "done"]
  <2>1. d \in Command /\ d.pc = "done" /\ d.mine = c.mine /\ d.before = c.before
        /\ d.answer = "none" /\ d.told = c.told
    <3> HIDE DEF c
    <3> QED
      BY <1>1, MovedFields DEF Controls
  <2> HIDE DEF c, d
  <2>2. command[p] \in Command
    BY CommandIs
  <2>3. Holds(d)
    BY <1>1, <2>1, <2>2, Moves
  <2> QED
    BY <1>1, <2>1, <2>3 DEF Holds
<1>5. r \in Requests /\ RequestInv(r)'
  <2>1. r \in Requests
    BY <1>1, <1>4 DEF Requests, Known
  <2>2. r.awaited /\ r.from = p /\ r.kind = kind /\ r.credential = v.mine
    OBVIOUS
  <2> HIDE DEF r, c
  <2> QED
    BY <1>1, <1>3, <1>4, <2>1, <2>2 DEF RequestInv, Known, Old
<1>6. requests' \subseteq Requests /\ faults' \in faults .. MaxFaults
  BY <1>2, <1>5, CommandIs
<1>7. \A q \in requests' : (q \in requests /\ (q.awaited => q.from # p)) \/ RequestInv(q)'
  <2> HIDE DEF r
  <2> QED
    BY <1>2, <1>5, CommandIs
<1> HIDE DEF c, r
<1> QED
  BY <1>1, <1>2, <1>4, <1>6, <1>7, OwnStep DEF Controls, Command

LEMMA AskInv ==
    ASSUME IndInv, NEW p \in Commands, LookAsk(p) \/ Leave(p) \/ LeaveAgain(p) PROVE IndInv'
<1> DEFINE w == command[p]
<1>0. /\ w \in Command /\ w.pc # "idle" /\ Holds(w) /\ file \in Credentials \cup {None}
      /\ UNCHANGED <<session, file, lock, loggedOut, faults>>
  <2>1. w.pc # "idle"
    BY DEF LookAsk, Leave, LeaveAgain
  <2> QED
    BY <2>1, CommandIs DEF LookAsk, Leave, LeaveAgain
<1>1. CASE LookAsk(p)
  <2> DEFINE v == [w EXCEPT !.pc = "asking", !.mine = file]
  <2>1. v \in Command /\ v.pc = "asking" /\ v.mine = file /\ v.before = w.before /\ v.told = w.told
    <3>1. "asking" \in Controls
      BY DEF Controls, Locked
    <3> HIDE DEF w
    <3> QED
      BY <1>0, <3>1 DEF Command
  <2>2. Send(p, "refresh", v) /\ w.pc = "look" /\ file.session = w.mine.session
    BY <1>1 DEF LookAsk, SameSession
  <2> HIDE DEF v
  <2> QED
    BY <1>0, <2>1, <2>2, SendInv DEF Locked, Waiting, Renewing
<1>2. CASE Leave(p)
  <2> DEFINE v == [w EXCEPT !.pc = "leaving"]
  <2>1. v \in Command /\ v.pc = "leaving" /\ v.mine = w.mine /\ v.before = w.before /\ v.told = w.told
    <3>1. "leaving" \in Controls
      BY DEF Controls, Waiting
    <3> HIDE DEF w
    <3> QED
      BY <1>0, <3>1 DEF Command
  <2>2. Send(p, "logout", v) /\ w.pc = "leave"
    BY <1>2 DEF Leave
  <2> HIDE DEF v
  <2> QED
    BY <1>0, <2>1, <2>2, SendInv DEF Locked, Waiting, Renewing
<1>3. CASE LeaveAgain(p)
  <2>0. w.pc = "leaving" /\ w.answer = "denied"
    BY <1>3 DEF LeaveAgain
  <2>1. CASE SameSession(p) /\ file # w.mine
    <3> DEFINE v == [w EXCEPT !.pc = "leaving_again", !.mine = file]
    <3>1. v \in Command /\ v.pc = "leaving_again" /\ v.mine = file /\ v.before = w.before
          /\ v.told = w.told
      <4>1. "leaving_again" \in Controls
        BY DEF Controls, Waiting
      <4> HIDE DEF w
      <4> QED
        BY <1>0, <4>1 DEF Command
    <3>2. Send(p, "logout", v) /\ file.session = w.mine.session
      BY <1>3, <2>1 DEF LeaveAgain, SameSession
    <3> HIDE DEF v
    <3> QED
      BY <1>0, <2>0, <3>1, <3>2, SendInv DEF Locked, Waiting, Renewing
  <2>2. CASE ~(SameSession(p) /\ file # w.mine)
    <3>1. Update(p, Idle) /\ UNCHANGED requests
      BY <1>3, <2>2 DEF LeaveAgain, Finish
    <3> QED
      BY <1>0, <2>0, <3>1, IdleIs, LocalStep DEF Locked, Waiting, Renewing
  <2> QED
    BY <2>1, <2>2
<1> QED
  BY <1>1, <1>2, <1>3

\* A command that gives up or dies leaves its request behind.
LEMMA AbandonInv ==
    ASSUME IndInv, NEW p \in Commands, GiveUp(p) \/ Crash(p) PROVE IndInv'
<1> DEFINE w == command[p]
<1>0. /\ w \in Command /\ w.pc # "idle" /\ Holds(w) /\ Fault
      /\ UNCHANGED <<session, file, loggedOut>> /\ requests' = Abandoned(p)
  <2>1. w.pc # "idle"
    BY DEF GiveUp, Crash, Waiting
  <2> QED
    BY <2>1, CommandIs DEF GiveUp, Crash
<1>1. ASSUME NEW r \in requests'
      PROVE  r \in Requests /\ ((r \in requests /\ (r.awaited => r.from # p)) \/ RequestInv(r)')
  <2>1. PICK q \in requests : r = IF q.from = p THEN [q EXCEPT !.awaited = FALSE] ELSE q
    BY <1>0 DEF Abandoned
  <2>2. q \in Requests /\ RequestInv(q)
    BY CommandIs DEF IndInv
  <2>3. CASE q.from # p
    BY <2>1, <2>2, <2>3
  <2>4. CASE q.from = p
    <3>1. r \in Requests /\ r.credential = q.credential /\ r.awaited = FALSE
      BY <2>1, <2>2, <2>4 DEF Requests
    <3> QED
      BY <1>0, <2>2, <3>1, CommandIs DEF RequestInv, Known, Old
  <2> QED
    BY <2>3, <2>4
<1>2. requests' \subseteq Requests /\ faults' \in faults .. MaxFaults /\ faults' > 0
  BY <1>0, <1>1, CommandIs
<1>3. ASSUME NEW c \in Command, Update(p, c), c.pc \notin Locked,
             lock' = IF w.pc \in Locked THEN NoOne ELSE lock,
             IF c.pc = "idle" THEN ~c.told ELSE Holds(c)
      PROVE  IndInv'
  BY <1>0, <1>1, <1>2, <1>3, OwnStep
<1>4. CASE GiveUp(p) /\ w.pc = "asking"
  <2> DEFINE c == [w EXCEPT !.pc = "error", !.answer = "none", !.given = 0]
  <2>1. c \in Command /\ c.pc = "error" /\ c.mine = w.mine /\ c.before = w.before /\ c.told = w.told
    <3>1. "error" \in Controls /\ 0 \in Tokens
      BY DEF Controls, Tokens
    <3> HIDE DEF w
    <3> QED
      BY <1>0, <3>1 DEF Command
  <2>2. Update(p, c) /\ lock' = NoOne
    BY <1>4 DEF GiveUp, Release
  <2> HIDE DEF c
  <2>3. Holds(c)
    BY <1>0, <2>1, Moves
  <2> QED
    BY <1>3, <1>4, <2>1, <2>2, <2>3 DEF Locked
<1>5. CASE GiveUp(p) /\ w.pc # "asking"
  <2>1. Update(p, Idle) /\ UNCHANGED lock /\ w.pc \notin Locked
    BY <1>5 DEF GiveUp, Finish, Waiting, Locked
  <2> QED
    BY <1>3, <2>1, IdleIs DEF Locked
<1>6. CASE Crash(p)
  <2>1. Update(p, Idle) /\ lock' = IF lock = p THEN NoOne ELSE lock
    BY <1>6 DEF Crash, Finish
  <2> QED
    BY <1>3, <2>1, IdleIs, CommandIs DEF Locked
<1> QED
  BY <1>4, <1>5, <1>6

\* The file changes: what the commands and requests hold is of it, or older.
LEMMA FileStep ==
    ASSUME IndInv, NEW p \in Commands, NEW c \in Command, Update(p, c),
           file' \in Credentials \cup {None}, session' \in [Sessions -> Session],
           loggedOut' \subseteq Sessions, UNCHANGED <<requests, faults>>,
           \/ lock' = lock /\ (c.pc \in Locked <=> command[p].pc \in Locked)
           \/ lock' = NoOne /\ command[p].pc \in Locked /\ c.pc \notin Locked,
           \A r \in requests : r.awaited => r.from # p,
           \A d : Known(d) => Known(d)', \A d : Known(d) /\ Old(d) => Old(d)',
           \A d \in Command : Holds(d) => Holds(d)' \/ (d.pc = "asking" /\ lock = p),
           IF c.pc = "idle" THEN ~c.told ELSE Holds(c)',
           \A k \in Sessions : SessionInv(k)', FileInv', (Calm => file # None)'
    PROVE  IndInv'
<1>0. TypeOK
  BY DEF IndInv
<1>1. /\ command' \in [Commands -> Command] /\ command'[p] = c
      /\ \A q \in Commands : q # p => command'[q] = command[q]
  BY <1>0, Updated
<1>2. TypeOK'
  <2>1. \A q \in Commands : (command[q].pc \in Locked <=> lock = q)
    BY <1>0 DEF TypeOK
  <2>2. (\A q \in Commands : (command[q].pc \in Locked <=> lock = q))'
    BY <1>1, <2>1
  <2>3. lock' \in Commands \cup {NoOne}
    BY <1>0 DEF TypeOK
  <2> QED
    BY <1>0, <1>1, <2>2, <2>3 DEF TypeOK
<1>5. ASSUME NEW q \in Commands PROVE CommandInv(q)'
  <2>1. CASE q = p
    <3>1. Holds(c)' => Holds(command[p])'
      BY <1>1 DEF Holds, Known, Old
    <3> QED
      BY <1>1, <2>1, <3>1 DEF CommandInv
  <2>2. CASE q # p
    <3>1. command'[q] = command[q] /\ command[q] \in Command
      BY <1>0, <1>1, <2>2 DEF TypeOK
    <3>2. IF command[q].pc = "idle" THEN ~command[q].told ELSE Holds(command[q])
      BY DEF IndInv, CommandInv
    <3>3. ASSUME NEW d \in Command, d = command[q], Holds(d) PROVE Holds(command[q])'
      <4>1. ~(d.pc = "asking" /\ lock = p)
        BY <1>0, <2>2, <3>3 DEF TypeOK, Locked
      <4>2. Holds(d)'
        BY <3>3, <4>1
      <4> QED
        BY <3>1, <3>3, <4>2 DEF Holds, Known, Old
    <3> QED
      BY <3>1, <3>2, <3>3 DEF CommandInv
  <2> QED
    BY <2>1, <2>2
<1>6. ASSUME NEW r \in requests' PROVE RequestInv(r)'
  <2>1. r \in requests /\ RequestInv(r) /\ r.from \in Commands
    BY <1>0 DEF IndInv, TypeOK, Requests
  <2>2. Known(r.credential)' /\ Old(r.credential)'
    BY <2>1 DEF RequestInv
  <2> QED
    BY <1>1, <2>1, <2>2 DEF RequestInv
<1> QED
  BY <1>2, <1>5, <1>6 DEF IndInv

\* What replaces the file is the rotation that the server is at.
LEMMA RenewInv ==
    ASSUME IndInv, NEW p \in Commands, NEW c \in Command, NEW t \in Credentials, Update(p, c),
           lock = p, command[p].pc = "asking", lock' = NoOne, file' = t,
           UNCHANGED <<session, requests, loggedOut, faults>>,
           \A r \in requests : r.awaited => r.from # p,
           file # None, Known(file), t.session = file.session, t.token = file.token + 1,
           t.token <= session[file.session].token,
           c.pc = "done", c.mine = t, Known(c.before), Old(c.before),
           c.before.session = t.session, Calm => ~c.told
    PROVE  IndInv'
<1>0. file \in Credentials /\ file.token \in Nat /\ file.session \in Nat /\ t # None
  BY DEF Known, Credentials, Tokens, None, Sessions
<1>1. \A d : Known(d) => Known(d)'
  BY DEF Known
<1>2. \A d : Known(d) /\ Old(d) => Old(d)'
  BY <1>0 DEF Known, Old, Credentials, Tokens
<1>3. Calm' <=> Calm
  BY DEF Calm
<1>4. \A d \in Command : Holds(d) => Holds(d)' \/ (d.pc = "asking" /\ lock = p)
  <2> SUFFICES ASSUME NEW d \in Command, Holds(d), d.pc # "asking" PROVE Holds(d)'
    OBVIOUS
  <2>1. Known(d.mine)' /\ Known(d.before)' /\ Old(d.mine)' /\ Old(d.before)'
    BY <1>1, <1>2 DEF Holds
  <2> QED
    BY <1>3, <2>1 DEF Holds
<1>5. Known(t)' /\ Old(t)'
  BY <1>0 DEF Known, Old
<1>6. Holds(c)'
  <2>1. Known(c.before)' /\ Old(c.before)'
    BY <1>1, <1>2
  <2>2. c.before.token <= t.token
    BY <1>0 DEF Known, Old, Credentials, Tokens
  <2> QED
    BY <1>3, <1>5, <2>1, <2>2 DEF Holds
<1>7. FileInv'
  <2>1. /\ session[file.session].token \in {file.token, file.token + 1}
        /\ file.session \notin loggedOut
    BY DEF IndInv, FileInv
  <2>2. session[file.session].token = t.token
    BY <1>0, <2>1
  <2> QED
    BY <1>5, <2>1, <2>2 DEF FileInv
<1>8. \A k \in Sessions : SessionInv(k)'
  BY DEF IndInv, SessionInv
<1>9. (Calm => file # None)' /\ file' \in Credentials \cup {None}
  BY <1>0
<1>10. session' \in [Sessions -> Session] /\ loggedOut' \subseteq Sessions
  BY DEF IndInv, TypeOK
<1>11. lock' = NoOne /\ command[p].pc \in Locked /\ c.pc \notin Locked /\ c.pc # "idle"
  BY DEF Locked
<1> QED
  BY <1>1, <1>2, <1>4, <1>6, <1>7, <1>8, <1>9, <1>10, <1>11, FileStep

\* The refresh stores the rotation it was granted, which is the server's.
LEMMA SaveInv ==
    ASSUME IndInv, NEW p \in Commands, Save(p) PROVE IndInv'
<1> DEFINE w == command[p]
           v == [w EXCEPT !.pc = "done", !.answer = "none", !.given = 0]
           rotated == [session |-> w.mine.session, token |-> w.given]
<1>0. /\ w \in Command /\ w.pc = "asking" /\ w.answer = "granted" /\ Holds(w)
      /\ file \in Credentials \cup {None}
      /\ UNCHANGED <<session, requests, loggedOut, faults>> /\ lock' = NoOne
      /\ \A r \in requests : r.awaited => r.from # p
  BY CommandIs DEF Save, Release
<1>1. /\ v \in Command /\ v.pc = "done" /\ v.mine = w.mine /\ v.before = w.before
      /\ v.answer = "none" /\ v.told = w.told
  <2>1. "done" \in Controls /\ 0 \in Tokens
    BY DEF Controls, Tokens
  <2> HIDE DEF w
  <2> QED
    BY <1>0, <2>1 DEF Command
<1>3. CASE file = w.mine
  <2>1. /\ rotated \in Credentials /\ rotated.session = file.session
        /\ rotated.token = file.token + 1 /\ file.token \in Nat /\ file # None
        /\ rotated.token <= session[file.session].token /\ Known(file)
        /\ w.before \in Credentials /\ w.before.token \in Nat
    BY <1>0, <1>3 DEF Holds, Known, Credentials, None, Tokens, Sessions, Command
  <2> DEFINE c == [v EXCEPT !.mine = rotated]
  <2>2. c \in Command /\ c.pc = "done" /\ c.mine = rotated /\ c.before = w.before /\ c.told = w.told
    <3> HIDE DEF v, rotated
    <3> QED
      BY <1>1, <2>1 DEF Command
  <2>3. file' = rotated /\ Update(p, c)
    BY <1>1, <1>3 DEF Save
  <2> HIDE DEF c, v, rotated
  <2>4. /\ lock = p /\ Known(w.before) /\ Old(w.before) /\ w.before.session = rotated.session
        /\ Calm => ~w.told
    BY <1>0, <1>3, CommandIs DEF Holds, Locked, rotated
  <2> QED
    BY <1>0, <2>1, <2>2, <2>3, <2>4, RenewInv
<1>4. CASE file # w.mine /\ SameSession(p)
  <2> DEFINE c == [v EXCEPT !.mine = file]
  <2>1. c \in Command /\ c.pc = "done" /\ c.mine = file /\ c.before = w.before /\ c.told = w.told
    <3> HIDE DEF v
    <3> QED
      BY <1>0, <1>1 DEF Command
  <2>2. Update(p, c) /\ file.session = w.mine.session /\ UNCHANGED file
    BY <1>1, <1>4 DEF Save, SameSession
  <2> HIDE DEF c, v
  <2>3. Holds(c)
    BY <1>0, <2>1, <2>2, Moves
  <2> QED
    BY <1>0, <1>4, <2>1, <2>2, <2>3, LocalStep DEF Locked, Renewing
<1>5. CASE file # w.mine /\ ~SameSession(p)
  <2> DEFINE c == [v EXCEPT !.pc = "error"]
  <2>1. c \in Command /\ c.pc = "error" /\ c.mine = w.mine /\ c.before = w.before /\ c.told = w.told
    <3>1. "error" \in Controls
      BY DEF Controls
    <3> HIDE DEF v
    <3> QED
      BY <1>0, <1>1, <3>1 DEF Command
  <2>2. Update(p, c) /\ UNCHANGED file
    BY <1>1, <1>5 DEF Save
  <2> HIDE DEF c, v
  <2>3. Holds(c)
    BY <1>0, <2>1, <2>2, Moves
  <2> QED
    BY <1>0, <1>5, <2>1, <2>2, <2>3, LocalStep DEF Locked, Renewing
<1> QED
  BY <1>3, <1>4, <1>5

\* The file is cleared: only after a logout, or a revocation.
LEMMA ClearInv ==
    ASSUME IndInv, NEW p \in Commands, Clear(p) \/ \E refused \in BOOLEAN : End(p, refused)
    PROVE  IndInv'
<1> DEFINE w == command[p]
<1>0. /\ w \in Command /\ w.pc \notin Locked /\ w.pc # "idle" /\ Holds(w) /\ TypeOK
      /\ file \in Credentials \cup {None} /\ (w.pc \notin Waiting \/ w.answer # "none")
      /\ UNCHANGED <<session, requests, lock, faults>> /\ Update(p, Idle)
      /\ \A r \in requests : r.awaited => r.from # p
  <2>1. /\ w.pc \notin Locked /\ w.pc # "idle" /\ (w.pc \notin Waiting \/ w.answer # "none")
        /\ UNCHANGED <<session, requests, lock, faults>> /\ Update(p, Idle)
    BY DEF Clear, End, Finish, Locked, Waiting
  <2> QED
    BY <2>1, CommandIs
<1>1. ASSUME ~Calm, file' = None \/ file' = file, loggedOut' \subseteq Sessions,
             \A k \in loggedOut' : session[k].status # "none",
             file' = None \/ file.session \notin loggedOut'
      PROVE  IndInv'
  <2>1. ~Calm' /\ file' \in Credentials \cup {None} /\ (Calm => file # None)'
    BY <1>0, <1>1 DEF Calm
  <2>2. (\A d : Known(d) => Known(d)') /\ (\A d : Known(d) /\ Old(d) => Old(d)')
    BY <1>0, <1>1 DEF Known, Old
  <2>3. \A d \in Command : Holds(d) => Holds(d)'
    BY <1>0, <1>1, <2>1, <2>2 DEF Holds
  <2>4. \A k \in Sessions : SessionInv(k)'
    BY <1>0, <1>1 DEF IndInv, SessionInv
  <2>5. FileInv'
    <3>1. \A q \in Commands : Renewing(q) /\ UNCHANGED file => Renewing(q)'
      BY <1>0, Updated, IdleIs DEF Renewing, Locked
    <3> QED
      BY <1>0, <1>1, <3>1 DEF IndInv, FileInv, Known
  <2>6. session' \in [Sessions -> Session] /\ UNCHANGED <<requests, faults>>
    BY <1>0 DEF TypeOK
  <2>7. lock' = lock /\ (Idle.pc \in Locked <=> command[p].pc \in Locked)
    BY <1>0, IdleIs DEF Locked
  <2>8. \A d \in Command : Holds(d) => Holds(d)' \/ (d.pc = "asking" /\ lock = p)
    BY <2>3
  <2> HIDE DEF w
  <2> QED
    BY <1>0, <1>1, <2>1, <2>2, <2>4, <2>5, <2>6, <2>7, <2>8, IdleIs, FileStep
<1>2. \A k \in loggedOut : session[k].status # "none"
  BY <1>0 DEF IndInv, TypeOK, SessionInv
<1>3. CASE Clear(p)
  <2>1. session[w.mine.session].status = "revoked" /\ w.mine.session \in Sessions
    BY <1>0, <1>3 DEF Clear, Holds, Known, Credentials
  <2>2. ~Calm /\ loggedOut' = loggedOut \cup {w.mine.session} /\ loggedOut' \subseteq Sessions
    BY <1>0, <1>3, <2>1 DEF Calm, Clear, TypeOK
  <2>3. file' = None \/ (file' = file /\ file.session # w.mine.session)
    BY <1>3 DEF Clear, SameSession
  <2>4. file = None \/ file.session \notin loggedOut
    BY DEF IndInv, FileInv
  <2> QED
    BY <1>1, <1>2, <2>1, <2>2, <2>3, <2>4
<1>4. ASSUME NEW refused \in BOOLEAN, End(p, refused) PROVE IndInv'
  <2>0. UNCHANGED loggedOut /\ loggedOut \subseteq Sessions
    BY <1>0, <1>4 DEF End, TypeOK
  <2>1. ASSUME UNCHANGED file PROVE IndInv'
    BY <1>0, <2>0, <2>1, IdleIs, LocalStep DEF Locked, Renewing
  <2>2. CASE file = w.before /\ (w.told \/ refused)
    <3>1. ~Calm
      <4>1. w.mine.session = w.before.session /\ (Calm /\ w.told => file.session # w.mine.session)
            /\ w.mine.session \in Sessions
        BY <1>0 DEF Holds, Known, Credentials
      <4>2. refused => session[w.mine.session].status = "revoked"
        BY <1>4 DEF End
      <4> QED
        BY <2>2, <4>1, <4>2 DEF Calm
    <3>2. file' = None
      BY <1>4, <2>2 DEF End
    <3> QED
      BY <1>1, <1>2, <2>0, <3>1, <3>2
  <2>3. CASE file = w.before /\ ~(w.told \/ refused)
    <3>1. file' = w.mine
      BY <1>4, <2>3 DEF End
    <3>2. w.mine = w.before
      <4>1. /\ w.mine \in Credentials /\ w.before \in Credentials /\ w.mine.session = w.before.session
            /\ w.before.token <= w.mine.token /\ Old(w.mine)
        BY <1>0 DEF Holds, Known
      <4>2. w.before # None /\ w.mine.token \in Nat /\ w.before.token \in Nat /\ w.mine.session \in Nat
        BY <4>1 DEF Credentials, None, Sessions, Tokens
      <4>3. w.mine.token = w.before.token
        BY <2>3, <4>1, <4>2 DEF Old
      <4> HIDE DEF w
      <4> QED
        BY <4>1, <4>3 DEF Credentials
    <3> QED
      BY <2>1, <2>3, <3>1, <3>2
  <2>4. CASE file # w.before
    BY <1>4, <2>1, <2>4 DEF End
  <2> QED
    BY <2>2, <2>3, <2>4
<1> QED
  BY <1>3, <1>4

\* A login's session is newer than all that went before.
LEMMA LoginInv ==
    ASSUME IndInv, NEW p \in Commands, NEW k \in Sessions, Login(p, k) PROVE IndInv'
<1> DEFINE w == command[p]
<1>0. /\ w \in Command /\ w.pc = "idle" /\ ~w.told /\ TypeOK
      /\ UNCHANGED <<requests, lock, faults, loggedOut, command>>
      /\ session[k].status = "none" /\ session[k].token = 0 /\ k \notin loggedOut
      /\ \A j \in Sessions : j < k => session[j].status # "none"
      /\ \A j \in Sessions : j > k => session[j].status = "none"
      /\ file' = [session |-> k, token |-> 0] /\ file' \in Credentials
      /\ \A r \in requests : r.awaited => r.from # p
  <2>1. w.pc = "idle" /\ session[k].status = "none" /\ UNCHANGED <<requests, lock, faults, loggedOut, command>>
        /\ file' = [session |-> k, token |-> 0]
        /\ \A j \in Sessions : j < k => session[j].status # "none"
    BY DEF Login
  <2>2. file' \in Credentials
    BY <2>1 DEF Credentials, Tokens
  <2>3. session[k].token = 0 /\ k \notin loggedOut /\ \A j \in Sessions : j > k => session[j].status = "none"
    BY <2>1 DEF IndInv, SessionInv
  <2> QED
    BY <2>1, <2>2, <2>3, CommandIs DEF Waiting, IndInv, CommandInv
<1>1. Update(p, w)
  BY <1>0 DEF Update, TypeOK
<1>2. /\ session' \in [Sessions -> Session]
      /\ session'[k].status = "active" /\ session'[k].token = 0
      /\ \A j \in Sessions : j # k => session'[j] = session[j]
  <2>1. session' = [session EXCEPT ![k].status = "active"] /\ session[k] \in Session
    BY <1>0 DEF Login, TypeOK
  <2>2. [session[k] EXCEPT !.status = "active"] \in Session
        /\ [session[k] EXCEPT !.status = "active"].status = "active"
        /\ [session[k] EXCEPT !.status = "active"].token = session[k].token
    BY <2>1 DEF Session
  <2> DEFINE e == [session[k] EXCEPT !.status = "active"]
  <2>3. session' = [session EXCEPT ![k] = e]
    BY <2>1
  <2> HIDE DEF e
  <2>4. e \in Session /\ e.status = "active" /\ e.token = session[k].token
    BY <2>2 DEF e
  <2> QED
    BY <1>0, <2>3, <2>4 DEF TypeOK
<1>3. ASSUME NEW d, Known(d) PROVE Known(d)' /\ Old(d)' /\ d.session # k /\ d.session \in Sessions
  BY <1>0, <1>2, <1>3 DEF Known, Old, Credentials, Sessions
<1>4. Calm' => Calm
  BY <1>0, <1>2 DEF Calm
<1>5. ASSUME NEW d \in Command, Holds(d) PROVE Holds(d)'
  <2>1. Known(d.mine) /\ Known(d.before)
    BY <1>5 DEF Holds
  <2>2. file'.session = k
    BY <1>0
  <2> QED
    BY <1>2, <1>3, <1>4, <1>5, <2>1, <2>2 DEF Holds
<1>6. \A j \in Sessions : SessionInv(j)'
  <2> SUFFICES ASSUME NEW j \in Sessions, session'[j].status = "none"
               PROVE  /\ session'[j].token = 0 /\ ~session'[j].retry /\ j \notin loggedOut
                      /\ \A i \in Sessions : i > j => session'[i].status = "none"
    BY <1>0 DEF SessionInv
  <2>1. j # k /\ session[j].status = "none"
    BY <1>2
  <2>2. j > k /\ SessionInv(j)
    BY <1>0, <2>1 DEF IndInv, Sessions
  <2> QED
    BY <1>2, <2>1, <2>2 DEF SessionInv, Sessions
<1>7. FileInv'
  BY <1>0, <1>2 DEF FileInv, Known
<1>8. (Calm => file # None)' /\ file' \in Credentials \cup {None}
  BY <1>0 DEF None, Sessions
<1> HIDE DEF w
<1>9. loggedOut' \subseteq Sessions
  BY <1>0 DEF TypeOK
<1>10. lock' = lock /\ (w.pc \in Locked <=> command[p].pc \in Locked)
  BY <1>0 DEF w
<1>11. (\A d : Known(d) => Known(d)') /\ (\A d : Known(d) /\ Old(d) => Old(d)')
  BY <1>3
<1>12. \A d \in Command : Holds(d) => Holds(d)' \/ (d.pc = "asking" /\ lock = p)
  BY <1>5
<1> QED
  BY <1>0, <1>1, <1>2, <1>6, <1>7, <1>8, <1>9, <1>10, <1>11, <1>12, FileStep

\* What a request may do to a session.
LEMMA EffectIs ==
    ASSUME IndInv, NEW r \in requests, Affordable(r)
    PROVE  LET k == r.credential.session
               e == EffectOf(r) IN
           /\ k \in Sessions /\ e \in [Sessions -> Session]
           /\ session[k].status # "none"
           /\ \A j \in Sessions : j # k => e[j] = session[j]
           /\ \/ e[k].token = session[k].token
              \/ /\ e[k].token = session[k].token + 1
                 /\ r.kind = "refresh" /\ session[k].token = r.credential.token
           /\ e[k].status # session[k].status => e[k].status = "revoked"
           /\ AnswerTo(r) = "granted" =>
                IF r.kind = "refresh" THEN e[k].token = r.credential.token + 1
                ELSE e[k].status = "revoked"
           /\ AnswerTo(r) \in {"granted", "denied"}
           /\ session[k].status = "active" /\ r.kind = "refresh" /\ session[k].token = r.credential.token =>
                AnswerTo(r) = "granted"
<1> DEFINE k == r.credential.session
           e == EffectOf(r)
           s == session[k]
<1>1. /\ k \in Sessions /\ s \in Session /\ s.status # "none" /\ r.credential.token \in Nat
      /\ s.token \in Nat /\ session \in [Sessions -> Session] /\ r.kind \in {"refresh", "logout"}
  BY CommandIs DEF IndInv, TypeOK, RequestInv, Known, Credentials, Requests, Session, Tokens
<1>2. AnswerTo(r) \in {"granted", "denied"}
  BY DEF AnswerTo, RefreshAnswer, LogoutAnswer
<1>3. CASE r.kind = "refresh" /\ Active(r.credential) /\ Rotates(r.credential)
  <2> DEFINE t == [[s EXCEPT !.token = s.token + 1] EXCEPT !.retry = TRUE]
  <2>1. s.token + 1 \in Tokens
    BY <1>1, <1>3 DEF Affordable, Session, Tokens
  <2>2. t \in Session /\ t.status = s.status /\ t.token = s.token + 1
    <3> HIDE DEF s
    <3> QED
      BY <1>1, <2>1 DEF Session
  <2>3. e = [session EXCEPT ![k] = t]
    <3>1. e = [session EXCEPT ![k].token = @ + 1, ![k].retry = TRUE]
      BY <1>3 DEF EffectOf, Refreshed
    <3> QED
      BY <1>1, <3>1
  <2>4. s.token = r.credential.token /\ AnswerTo(r) = "granted"
    BY <1>3 DEF Rotates, AnswerTo, RefreshAnswer
  <2>5. e \in [Sessions -> Session] /\ e[k] = t /\ \A j \in Sessions : j # k => e[j] = session[j]
    <3> HIDE DEF t, e, k
    <3> QED
      BY <1>1, <2>2, <2>3
  <2> HIDE DEF e, t
  <2> QED
    BY <1>1, <1>2, <1>3, <2>2, <2>4, <2>5 DEF e
<1>4. CASE r.kind = "refresh" /\ ~(Active(r.credential) /\ Rotates(r.credential))
  <2>1. e = session
    BY <1>4 DEF EffectOf, Refreshed
  <2>2. AnswerTo(r) = "granted" => s.token = r.credential.token + 1
    BY <1>1, <1>4 DEF AnswerTo, RefreshAnswer, Retries
  <2>3. s.status = "active" => s.token # r.credential.token
    BY <1>4 DEF Active, Rotates
  <2> QED
    BY <1>1, <1>2, <1>4, <2>1, <2>2, <2>3
<1>5. CASE r.kind # "refresh" /\ LogoutAnswer(r.credential) = "granted"
  <2> DEFINE t == [s EXCEPT !.status = "revoked"]
  <2>1. t \in Session /\ t.status = "revoked" /\ t.token = s.token
    <3> HIDE DEF s
    <3> QED
      BY <1>1 DEF Session
  <2>2. e = [session EXCEPT ![k] = t]
    BY <1>5 DEF EffectOf, LoggedOut
  <2>3. e \in [Sessions -> Session] /\ e[k] = t /\ \A j \in Sessions : j # k => e[j] = session[j]
    <3> HIDE DEF t, e, k
    <3> QED
      BY <1>1, <2>1, <2>2
  <2> HIDE DEF e, t
  <2> QED
    BY <1>1, <1>2, <1>5, <2>1, <2>3 DEF e
<1>6. CASE r.kind # "refresh" /\ LogoutAnswer(r.credential) # "granted"
  <2>1. e = session /\ AnswerTo(r) # "granted"
    BY <1>6 DEF EffectOf, LoggedOut, AnswerTo
  <2> QED
    BY <1>1, <1>2, <1>6, <2>1
<1> QED
  BY <1>3, <1>4, <1>5, <1>6

\* The answer reaches the one that waits for it.
LEMMA ReplyIs ==
    ASSUME IndInv, NEW r \in requests, NEW answer \in {"granted", "denied", "failed"},
           NEW given \in Tokens, Reply(r, answer, given)
    PROVE  /\ requests' \subseteq requests /\ command' \in [Commands -> Command]
           /\ \A p \in Commands : p # r.from \/ ~r.awaited => command'[p] = command[p]
           /\ r.awaited =>
                LET c == command[r.from]
                    d == command'[r.from] IN
                /\ r.from \in Commands /\ d.pc = c.pc /\ d.mine = c.mine /\ d.before = c.before
                /\ d.told = c.told /\ d.answer = answer /\ d.given = given
           /\ \A q \in requests' : q.awaited => command'[q.from] = command[q.from]
<1>1. /\ TypeOK /\ r \in Requests /\ RequestInv(r) /\ r.from \in Commands
      /\ requests' = requests \ {r} /\ command \in [Commands -> Command]
  BY DEF IndInv, TypeOK, Requests, Reply
<1>2. ASSUME NEW q \in requests', q.awaited, r.awaited, q.from = r.from PROVE FALSE
  <2>1. q \in Requests /\ RequestInv(q) /\ q # r
    BY <1>1 DEF IndInv, TypeOK
  <2>2. q.credential = r.credential /\ q.kind = r.kind
    BY <1>1, <1>2, <2>1 DEF RequestInv, Requests
  <2> QED
    BY <1>1, <1>2, <2>1, <2>2 DEF Requests
<1>3. CASE ~r.awaited
  BY <1>1, <1>3 DEF Reply
<1>4. CASE r.awaited
  <2> DEFINE w == command[r.from]
             d == [[w EXCEPT !.answer = answer] EXCEPT !.given = given]
  <2>1. /\ d \in Command /\ d.pc = w.pc /\ d.mine = w.mine /\ d.before = w.before
        /\ d.told = w.told /\ d.answer = answer /\ d.given = given
    <3>1. w \in Command
      BY <1>1
    <3> HIDE DEF w
    <3> QED
      BY <3>1 DEF Command
  <2>2. command' = [command EXCEPT ![r.from] = d]
    <3>1. command' = [command EXCEPT ![r.from].answer = answer, ![r.from].given = given]
      BY <1>4 DEF Reply
    <3> QED
      BY <1>1, <3>1
  <2> HIDE DEF d
  <2>3. /\ command' \in [Commands -> Command] /\ command'[r.from] = d
        /\ \A p \in Commands : p # r.from => command'[p] = command[p]
    BY <1>1, <2>1, <2>2
  <2>4. \A q \in requests' : q.awaited => q.from # r.from /\ q.from \in Commands
    BY <1>1, <1>2, <1>4 DEF Requests, TypeOK
  <2> QED
    BY <1>1, <1>4, <2>1, <2>3, <2>4
<1> QED
  BY <1>3, <1>4

\* A step of the server.
LEMMA ServerStep ==
    ASSUME IndInv, session' \in [Sessions -> Session], UNCHANGED <<file, lock, loggedOut>>,
           faults' \in faults .. MaxFaults, requests' \subseteq requests,
           command' \in [Commands -> Command],
           \A p \in Commands : command'[p].pc = command[p].pc,
           \A k \in Sessions : /\ session[k].status = "none" => session'[k] = session[k]
                               /\ session[k].status # "none" => session'[k].status # "none"
                               /\ session[k].status = "revoked" => session'[k].status = "revoked"
                               /\ session[k].token <= session'[k].token,
           \A p \in Commands : command'[p] = command[p] \/ (command[p].pc # "idle" /\ Holds(command[p])'),
           \A q \in requests' : q.awaited => command'[q.from] = command[q.from],
           FileInv'
    PROVE  IndInv'
<1>0. TypeOK /\ faults \in Nat /\ faults' \in Nat /\ faults <= faults'
  BY DEF IndInv, TypeOK
<1>1. TypeOK'
  BY <1>0 DEF TypeOK
<1>2. Calm' => Calm
  BY <1>0 DEF Calm
<1>3. \A k \in Sessions : SessionInv(k)'
  <2> SUFFICES ASSUME NEW k \in Sessions, session'[k].status = "none" PROVE SessionInv(k)'
    BY DEF SessionInv
  <2>1. session[k].status = "none" /\ session'[k] = session[k]
    OBVIOUS
  <2> QED
    BY <2>1 DEF IndInv, SessionInv
<1>4. ASSUME NEW p \in Commands PROVE CommandInv(p)'
  <2>1. CASE command'[p] = command[p] /\ command[p].pc # "idle"
    <3>1. ASSUME NEW d \in Command, d = command[p] PROVE Holds(command[p])'
      <4>1. Holds(d)
        BY <2>1, <3>1 DEF IndInv, CommandInv
      <4>2. Holds(d)'
        BY <1>0, <1>2, <4>1, HoldsOn
      <4> QED
        BY <2>1, <3>1, <4>2 DEF Holds, Known, Old
    <3>2. command[p] \in Command
      BY <1>0 DEF TypeOK
    <3> QED
      BY <2>1, <3>1, <3>2 DEF CommandInv
  <2>2. CASE command'[p] = command[p] /\ command[p].pc = "idle"
    BY <2>2 DEF IndInv, CommandInv
  <2>3. CASE command[p].pc # "idle" /\ Holds(command[p])'
    BY <2>3 DEF CommandInv
  <2> QED
    BY <2>1, <2>2, <2>3
<1>5. ASSUME NEW r \in requests' PROVE RequestInv(r)'
  <2>1. r \in requests /\ RequestInv(r) /\ r.credential.session \in Sessions
    BY <1>0 DEF IndInv, TypeOK, Requests, Credentials
  <2> QED
    BY <1>0, <2>1 DEF RequestInv, Known, Old
<1>6. (Calm => file # None)'
  BY <1>2 DEF IndInv
<1> QED
  BY <1>1, <1>3, <1>4, <1>5, <1>6 DEF IndInv

\* The store answers, or says it has failed.
LEMMA ServeInv ==
    ASSUME IndInv, NEW r \in requests,
           NEW answer \in {"granted", "denied", "failed"}, NEW given \in Tokens,
           Affordable(r), Reply(r, answer, given), UNCHANGED <<file, lock, loggedOut>>,
           session' \in {session, EffectOf(r)}, faults' \in faults .. MaxFaults,
           \/ faults' > 0 /\ answer # "granted"
           \/ /\ session' = EffectOf(r) /\ answer = AnswerTo(r)
              /\ given = EffectOf(r)[r.credential.session].token
    PROVE  IndInv'
<1> DEFINE k == r.credential.session
           p == r.from
<1>0. /\ TypeOK /\ r \in Requests /\ RequestInv(r) /\ p \in Commands /\ k \in Sessions
      /\ r.credential.token \in Nat /\ r.credential \in Credentials
      /\ faults \in Nat /\ faults' \in Nat /\ faults <= faults'
  BY DEF IndInv, TypeOK, Requests, Credentials, Tokens
<1>1. /\ session' \in [Sessions -> Session] /\ session \in [Sessions -> Session]
      /\ \A j \in Sessions : /\ j # k => session'[j] = session[j]
                             /\ session[j].token \in Nat /\ session'[j].token \in Nat
      /\ \/ session'[k].token = session[k].token
         \/ /\ session'[k].token = session[k].token + 1
            /\ r.kind = "refresh" /\ session[k].token = r.credential.token
      /\ session[k].status # "none" /\ session'[k].status # "none"
      /\ session[k].status = "revoked" => session'[k].status = "revoked"
  BY <1>0, EffectIs DEF TypeOK, Session, Tokens
<1>2. \A j \in Sessions : /\ session[j].status = "none" => session'[j] = session[j]
                          /\ session[j].status # "none" => session'[j].status # "none"
                          /\ session[j].status = "revoked" => session'[j].status = "revoked"
                          /\ session[j].token <= session'[j].token
  BY <1>1
<1>3. Calm' => Calm
  BY <1>0, <1>2 DEF Calm
<1>4. ASSUME r.awaited PROVE command[p].pc # "idle" /\ Holds(command[p])'
  <2>1. /\ command[p].pc \in {"asking", "leaving", "leaving_again"} /\ command[p].mine = r.credential
        /\ command[p].answer = "none" /\ Holds(command[p]) /\ command[p] \in Command
        /\ r.kind = "refresh" <=> command[p].pc = "asking"
        /\ command[p].pc = "asking" => lock = p
    BY <1>0, <1>4, CommandIs DEF RequestInv, Requests, Locked
  <2>2. /\ command'[p].pc = command[p].pc /\ command'[p].mine = command[p].mine
        /\ command'[p].before = command[p].before /\ command'[p].told = command[p].told
        /\ command'[p].answer = answer /\ command'[p].given = given
    BY <1>4, ReplyIs
  <2>3. Holds(command[p]) /\ \A d : (Known(d) /\ Old(d) => Known(d)' /\ Old(d)')
    BY <1>2, <2>1 DEF Known, Old, Credentials
  <2>4. /\ Known(command[p].mine)' /\ Known(command[p].before)'
        /\ Old(command[p].mine)' /\ Old(command[p].before)'
    BY <2>2, <2>3 DEF Holds, Known, Old
  <2>5. ASSUME answer = "granted"
        PROVE  IF r.kind = "refresh"
               THEN given = r.credential.token + 1 /\ given <= session'[k].token
               ELSE session'[k].status = "revoked"
    <3>1. session' = EffectOf(r) /\ answer = AnswerTo(r) /\ given = EffectOf(r)[k].token
      BY <2>5
    <3> QED
      BY <1>1, <2>5, <3>1, EffectIs
  <2>6. ASSUME Calm', command[p].pc = "asking", file.session = r.credential.session
        PROVE  file = r.credential /\ answer = "granted"
    <3>1. file = r.credential /\ lock = p /\ faults = 0 /\ faults' = 0
      BY <1>0, <1>3, <2>1, <2>6 DEF Holds, Calm
    <3>2. file # None
      BY <1>0, <3>1 DEF Credentials, None, Sessions
    <3>3. ~\E q \in Commands : Renewing(q)
      BY <2>1, <3>1, CommandIs DEF Renewing, Locked
    <3>4. session[k].token = r.credential.token
      BY <3>1, <3>2, <3>3 DEF IndInv, FileInv
    <3>5. session[k].status = "active"
      BY <1>0, <1>1, <1>3, <2>6 DEF Calm, TypeOK, Session
    <3>6. AnswerTo(r) = "granted" /\ answer = AnswerTo(r)
      BY <2>1, <2>6, <3>1, <3>4, <3>5, EffectIs
    <3> QED
      BY <3>1, <3>6
  <2> HIDE DEF k, p
  <2> QED
    BY <1>3, <2>1, <2>2, <2>4, <2>5, <2>6 DEF Holds, k
<1>5. FileInv'
  <2> SUFFICES ASSUME file # None
               PROVE  /\ Known(file)' /\ file.session \notin loggedOut
                      /\ session'[file.session].token \in {file.token, file.token + 1}
                      /\ session'[file.session].token # file.token =>
                           faults' > 0 \/ \E q \in Commands : Renewing(q)'
    BY DEF FileInv
  <2>1. /\ Known(file) /\ file.session \notin loggedOut /\ file \in Credentials
        /\ file.session \in Sessions /\ file.token \in Nat
        /\ session[file.session].token \in {file.token, file.token + 1}
        /\ session[file.session].token # file.token =>
             faults > 0 \/ \E q \in Commands : Renewing(q)
    BY DEF IndInv, FileInv, Known, Credentials, Tokens
  <2>2. Known(file)'
    BY <1>2, <2>1 DEF Known
  <2>3. ASSUME NEW q \in Commands, Renewing(q) PROVE Renewing(q)'
    <3>1. command'[q] = command[q]
      <4>1. q # p \/ ~r.awaited
        BY <1>0, <2>3 DEF Renewing, RequestInv
      <4> QED
        BY <4>1, ReplyIs
    <3> QED
      BY <2>3, <3>1 DEF Renewing
  <2>4. CASE session'[file.session].token = session[file.session].token
    BY <1>0, <2>1, <2>2, <2>3, <2>4
  <2>5. CASE session'[file.session].token # session[file.session].token
    <3>1. /\ file.session = k /\ session'[k].token = session[k].token + 1
          /\ r.kind = "refresh" /\ session[k].token = r.credential.token
      BY <1>1, <2>1, <2>5
    <3>2. r.credential.token <= file.token
      BY <1>0, <2>1, <3>1 DEF RequestInv, Old, Sessions
    <3>3. session[k].token = file.token /\ r.credential = file
      <4>1. session[k].token = file.token /\ r.credential.token = file.token
        BY <1>0, <2>1, <3>1, <3>2
      <4> QED
        BY <1>0, <2>1, <3>1, <4>1 DEF Credentials
    <3>4. ASSUME ~(faults' > 0) PROVE Renewing(p)'
      <4>1. r.awaited /\ session' = EffectOf(r) /\ answer = AnswerTo(r)
        BY <1>0, <3>4 DEF RequestInv
      <4>2. answer = "granted"
        <5>1. session[k].status = "active"
          <6>1. EffectOf(r) # session
            BY <3>1, <4>1, <1>0, <1>1
          <6> QED
            BY <3>1, <6>1 DEF EffectOf, Refreshed, Active
        <5> QED
          BY <3>1, <4>1, <5>1, EffectIs
      <4>3. command[p].pc = "asking" /\ command[p].mine = file
        BY <1>0, <3>1, <3>3, <4>1 DEF RequestInv
      <4> QED
        BY <4>1, <4>2, <4>3, ReplyIs DEF Renewing
    <3> QED
      BY <1>0, <2>1, <2>2, <3>1, <3>3, <3>4
  <2> QED
    BY <2>4, <2>5
<1>6. \A q \in Commands : command'[q].pc = command[q].pc
  BY <1>0, ReplyIs
<1>7. \A q \in Commands : command'[q] = command[q] \/ (command[q].pc # "idle" /\ Holds(command[q])')
  BY <1>0, <1>4, ReplyIs
<1> HIDE DEF k, p
<1> QED
  BY <1>1, <1>2, <1>5, <1>6, <1>7, ReplyIs, ServerStep

LEMMA ServerInv ==
    ASSUME IndInv,
           \/ \E r \in requests :
                \/ Serve(r)
                \/ \E committed \in BOOLEAN, answer \in {"denied", "failed"} :
                     ServeFails(r, committed, answer)
           \/ \E k \in Sessions : RevokeElsewhere(k) \/ WindowCloses(k)
    PROVE  IndInv'
<1>0. TypeOK /\ faults \in faults .. MaxFaults
  BY DEF IndInv, TypeOK
<1>1. ASSUME NEW r \in requests, Serve(r) PROVE IndInv'
  <2>1. AnswerTo(r) \in {"granted", "denied", "failed"} /\ EffectOf(r)[r.credential.session].token \in Tokens
    BY <1>1, EffectIs DEF Serve, Session
  <2> QED
    BY <1>0, <1>1, <2>1, ServeInv DEF Serve
<1>2. ASSUME NEW r \in requests, NEW committed \in BOOLEAN, NEW answer \in {"denied", "failed"},
             ServeFails(r, committed, answer)
      PROVE  IndInv'
  <2>1. 0 \in Tokens /\ answer # "granted" /\ faults' > 0 /\ faults' \in faults .. MaxFaults
    BY <1>0, <1>2 DEF ServeFails, Fault, Tokens, TypeOK
  <2> QED
    BY <1>2, <2>1, ServeInv DEF ServeFails
<1>3. ASSUME NEW k \in Sessions, RevokeElsewhere(k) \/ WindowCloses(k) PROVE IndInv'
  <2>1. UNCHANGED <<file, lock, command, requests, loggedOut, faults>>
    BY <1>3 DEF RevokeElsewhere, WindowCloses
  <2>2. /\ session' \in [Sessions -> Session]
        /\ \A j \in Sessions : /\ session[j].status = "none" => session'[j] = session[j]
                               /\ session[j].status # "none" => session'[j].status # "none"
                               /\ session[j].status = "revoked" => session'[j].status = "revoked"
                               /\ session[j].token = session'[j].token
    <3>1. session \in [Sessions -> Session] /\ session[k] \in Session
      BY <1>0 DEF TypeOK
    <3>2. session[k].status # "none"
      BY <1>0, <1>3, <3>1 DEF IndInv, SessionInv, RevokeElsewhere, WindowCloses
    <3> DEFINE revoked == [session[k] EXCEPT !.status = "revoked"]
               closed  == [session[k] EXCEPT !.retry = FALSE]
    <3>3. /\ revoked \in Session /\ revoked.status = "revoked" /\ revoked.token = session[k].token
          /\ closed \in Session /\ closed.status = session[k].status
          /\ closed.token = session[k].token
      BY <3>1 DEF Session
    <3>4. session' \in {[session EXCEPT ![k] = revoked], [session EXCEPT ![k] = closed]}
      BY <1>3 DEF RevokeElsewhere, WindowCloses
    <3> HIDE DEF revoked, closed
    <3> QED
      BY <3>1, <3>2, <3>3, <3>4
  <2>3. FileInv'
    BY <2>1, <2>2 DEF IndInv, FileInv, Known, Renewing, Credentials
  <2>4. \A j \in Sessions : session[j].token <= session'[j].token
    BY <1>0, <2>2 DEF TypeOK, Session, Tokens
  <2>5. command' \in [Commands -> Command]
    BY <1>0, <2>1 DEF TypeOK
  <2> QED
    BY <1>0, <2>1, <2>2, <2>3, <2>4, <2>5, ServerStep
<1> QED
  BY <1>1, <1>2, <1>3

LEMMA StepInv ==
    ASSUME IndInv, [Next]_vars PROVE IndInv'
<1>1. ASSUME NEW p \in Commands, Call(p) PROVE IndInv'
  BY <1>1, QuietSteps, RecheckInv, AskInv, SaveInv, ClearInv DEF Call
<1>2. ASSUME NEW p \in Commands, LogOut(p) PROVE IndInv'
  BY <1>2, QuietSteps, AskInv, ClearInv DEF LogOut
<1>3. CASE UNCHANGED vars
  BY <1>3 DEF vars, IndInv, TypeOK, SessionInv, FileInv, CommandInv, RequestInv, Holds, Known,
              Old, Renewing, Calm
<1> QED
  BY <1>1, <1>2, <1>3, QuietSteps, AbandonInv, LoginInv, ServerInv DEF Next

\* The variables keep their types, and the lock its holder.
THEOREM SessionTypes == Spec => []TypeOK
<1>1. IndInv => TypeOK
  BY DEF IndInv
<1> QED
  BY <1>1, InitInv, StepInv, PTL DEF Spec

\* What is stored stays usable, whatever a slow or forgotten request does to the
\* session: that is one rotation ahead of the file at most, so the server takes
\* what is stored for the current token, or for the one before it until the
\* retry window closes.
THEOREM FileIsUsable == Spec => []StoredIsUsable
<1>1. IndInv => StoredIsUsable
  <2> DEFINE s == session[file.session]
  <2> SUFFICES ASSUME IndInv, file # None, s.status = "active"
               PROVE  \/ Renewable(file)
                      \/ \E p \in Commands : Renewing(p)
                      \/ faults > 0 /\ s.token = file.token + 1 /\ ~s.retry
    BY DEF StoredIsUsable, IndInv, FileInv
  <2>1. /\ file \in Credentials /\ file.session \in Sessions /\ file.token \in Nat
        /\ session \in [Sessions -> Session] /\ s \in Session
        /\ Active(file) /\ s.token \in {file.token, file.token + 1}
        /\ s.token # file.token => faults > 0 \/ \E p \in Commands : Renewing(p)
    BY DEF IndInv, FileInv, Known, TypeOK, Credentials, Tokens, Active
  <2>2. CASE s.token = file.token
    <3>1. RefreshAnswer(file) = "granted"
      BY <2>1, <2>2 DEF RefreshAnswer, Rotates
    <3>2. Refreshed(file)[file.session].token = file.token + 1
      <4>1. Refreshed(file) = [session EXCEPT ![file.session].token = @ + 1,
                                              ![file.session].retry = TRUE]
        BY <2>1, <2>2 DEF Refreshed, Rotates
      <4> QED
        BY <2>1, <2>2, <4>1 DEF Session
    <3> QED
      BY <3>1, <3>2 DEF Renewable
  <2>3. CASE s.token = file.token + 1 /\ s.retry
    <3>1. Retries(file) /\ ~Rotates(file)
      BY <2>1, <2>3 DEF Retries, Rotates
    <3>2. Refreshed(file) = session
      BY <3>1 DEF Refreshed
    <3> QED
      BY <2>1, <2>3, <3>1, <3>2 DEF Renewable, RefreshAnswer
  <2>4. CASE s.token = file.token + 1 /\ ~s.retry
    BY <2>1, <2>4
  <2> QED
    BY <2>1, <2>2, <2>3, <2>4
<1> QED
  BY <1>1, InitInv, StepInv, PTL DEF Spec

\* Commands that run at once never cost each other the login.
THEOREM NoLoginLost == Spec => []StaysLoggedIn
<1>1. IndInv => StaysLoggedIn
  BY DEF IndInv, CommandInv, Holds, StaysLoggedIn, Calm
<1> QED
  BY <1>1, InitInv, StepInv, PTL DEF Spec
=============================================================================
