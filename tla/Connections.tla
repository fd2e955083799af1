---------------------------- MODULE Connections ----------------------------
(***************************************************************************)
(* Saved GitHub connections: the list of connections, the sealed token of  *)
(* each (both on disk), the server's sessions (in memory), and the one     *)
(* credential each tab works under.                                        *)
(*                                                                         *)
(* server/github/connection-lifecycle.mjs moves the three server stores in *)
(* separate steps, each of which another request may come between;         *)
(* server/connections.mjs and credentials.mjs put the writes of each store *)
(* in a queue; web/js/github-session-manager.mjs lets a tab establish one  *)
(* session at a time and discards what a disconnect has overtaken.         *)
(***************************************************************************)
EXTENDS Naturals, Sequences, FiniteSets

CONSTANTS
    Settings,    \* who uses the connections and with what, see below
    Profiles,    \* ids of connections that may be generated
    AccountOf,   \* the account each token belongs to
    Sessions,    \* session ids, numbers; one that nobody knows any more is issued again
    MaxSessions, \* how many sessions the server keeps
    None         \* no session, no connection, no token

ASSUME ConnectionsAssumption ==
    /\ \A w \in Settings :
          /\ w.managed \subseteq w.tabs
          /\ IsFiniteSet(w.tabs) /\ IsFiniteSet(w.panels)
          /\ w.kinds \subseteq {"bare", "create", "reconnect", "resume"}
          /\ w.tokens \subseteq DOMAIN AccountOf
    /\ None \notin Profiles \cup Sessions \cup DOMAIN AccountOf
    /\ \A x \in DOMAIN AccountOf : AccountOf[x] # None
    /\ Sessions \subseteq Nat
    /\ MaxSessions \in Nat \ {0}

VARIABLES
    setting,  \* the setting
    profile,  \* connections.json: is the connection saved, its account and mode
    envelope, \* settings/credentials: the sealed token of each connection
    session,  \* the live sessions: the token and connection of each
    job,      \* on the server: each tab's request that establishes a session
    toggle,   \* on the server: each panel's request to turn persistence on or off
    line,     \* the requests that wait to write connections.json, in order
    erasing,  \* removed connections whose envelope is about to be deleted
    tab,      \* the session manager of each tab
    replaced, \* history: the tokens that a reconnect came to replace
    amiss     \* history: what went wrong with each connection

Tabs    == setting.tabs    \* browser tabs
Managed == setting.managed \* those whose session manager hears its answers
Panels  == setting.panels  \* open lists of connections
Kinds   == setting.kinds   \* the ways in which they establish a session
Tokens  == setting.tokens  \* GitHub tokens

server == <<setting, profile, envelope, session, job, toggle, line, erasing, replaced, amiss>>
vars   == <<server, tab>>

Unused   == [saved |-> FALSE, account |-> None, mode |-> "session"]
NoJob    == [pc |-> "none", kind |-> "bare", profile |-> None, token |-> None,
             persist |-> FALSE, session |-> None]
Refusal  == [NoJob EXCEPT !.pc = "refused"]
Answer(s) == [NoJob EXCEPT !.pc = "answered", !.session = s]
NoToggle == [pc |-> "none", profile |-> None, on |-> FALSE]

\* The manager: what it waits for, whether the generation moved on since, the
\* account it shows and whether that can revoke itself, the id in sessionStorage,
\* the account to displace, the one to adopt, the session being disconnected,
\* the one a restore asked about and whether the generation moved on since; and,
\* as history, whether a restore asked while a connect was pending.
Fresh == [pc |-> "idle", stale |-> FALSE, shown |-> None, revocable |-> FALSE,
          stored |-> None, old |-> None, next |-> None, leaving |-> None,
          asks |-> None, askStale |-> FALSE, mixed |-> FALSE]

Modes == {"session", "persistent"}
Mode(persist) == IF persist THEN "persistent" ELSE "session"

-----------------------------------------------------------------------------
(* The server's sessions. *)

Live(ss)  == {s \in Sessions : ss[s] # None}
Of(ss, p) == {s \in Live(ss) : ss[s].profile = p}

\* destroyProfile
Destroyed(ss, p) == [s \in Sessions |-> IF s \in Of(ss, p) THEN None ELSE ss[s]]

Known(s) ==
    \/ \E b \in Tabs : s \in {tab[b].shown, tab[b].stored, tab[b].old, tab[b].next,
                              tab[b].leaving, tab[b].asks, job[b].session}
    \/ s \in Live(session)

\* Fault: counts the sessions before the new one.
FullAfterwards(ss) == Cardinality(Live(ss)) > MaxSessions
Full(ss) == Cardinality(Live(ss)) >= MaxSessions

\* sessions.create for b's request, whose sessions are ss by now: refused when
\* the limit is reached, otherwise a new id, and the request goes on at pc.
Opens(b, ss, p, pc) ==
    \/ /\ Full(ss)
       /\ session' = ss
       /\ job' = [job EXCEPT ![b] = Refusal]
    \/ /\ ~Full(ss)
       /\ \E s \in Sessions :
             /\ ~Known(s)
             /\ \A other \in Sessions : other < s => Known(other)
             /\ session' = [ss EXCEPT ![s] = [token |-> job[b].token, profile |-> p]]
             /\ job' = [job EXCEPT ![b] =
                    IF pc = "answered" THEN Answer(s)
                    ELSE [@ EXCEPT !.pc = pc, !.profile = p, !.session = s]]

-----------------------------------------------------------------------------
(* The requests that establish a session. *)

Working(b) == job[b].pc \notin {"none", "answered", "refused"}
Others(p)  == \E c \in Tabs : Working(c) /\ job[c].profile = p

Marked(p, what) == [amiss EXCEPT ![p] = @ \cup {what}]

\* GitHub does not answer, or not for this token; or a name or limit refuses.
Refuse(b) ==
    /\ job[b].pc \in {"identify", "admitted"}
    /\ job' = [job EXCEPT ![b] = Refusal]
    /\ UNCHANGED <<setting, profile, envelope, session, toggle, line, erasing, tab,
                   replaced, amiss>>

\* connect: a token without a connection.
Connect(b) ==
    /\ job[b].pc = "identify"
    /\ job[b].kind = "bare"
    /\ Opens(b, session, None, "answered")
    /\ UNCHANGED <<setting, profile, envelope, toggle, line, erasing, tab, replaced, amiss>>

\* createConnection looks for a connection of the account ...
FindAccount(b) ==
    LET taken == \E p \in Profiles :
                    profile[p].saved /\ profile[p].account = AccountOf[job[b].token] IN
    /\ job[b].pc = "identify"
    /\ job[b].kind = "create"
    /\ job' = [job EXCEPT ![b] = IF taken THEN Refusal ELSE [@ EXCEPT !.pc = "admitted"]]
    /\ UNCHANGED <<setting, profile, envelope, session, toggle, line, erasing, tab,
                   replaced, amiss>>

\* ... and creates one afterwards, in a step of its own.
CreateProfile(b, p) ==
    /\ job[b].pc = "admitted"
    /\ profile[p] = Unused
    /\ profile' = [profile EXCEPT ![p] =
                      [saved |-> TRUE, account |-> AccountOf[job[b].token],
                       mode |-> Mode(job[b].persist)]]
    /\ IF job[b].persist
       THEN /\ job' = [job EXCEPT ![b].pc = "store", ![b].profile = p]
            /\ session' = session
       ELSE Opens(b, session, p, "answered")
    /\ UNCHANGED <<setting, envelope, toggle, line, erasing, tab, replaced, amiss>>

\* The request that creates p has put its store into the vault's queue: whatever
\* else is done with p's envelope comes after it.
Queued(p) == \E c \in Tabs : job[c].pc = "store" /\ job[c].kind = "create" /\ job[c].profile = p

\* vault.remove, whose failure nobody looks at.
Erases(p) ==
    \/ /\ envelope' = [envelope EXCEPT ![p] = None]
       /\ amiss' = amiss
    \/ /\ envelope[p] # None
       /\ envelope' = envelope
       /\ amiss' = Marked(p, "kept")

\* Fault: takes the token of any account.
MatchesAny(b) == TRUE

\* reconnectConnection takes a token of the account only.
Matches(b) == AccountOf[job[b].token] = profile[job[b].profile].account

\* reconnectConnection with a token of the account: the sessions of the credential
\* it replaces go first
Replacing(b) ==
    LET p == job[b].profile IN
    /\ job[b].pc = "identify"
    /\ job[b].kind = "reconnect"
    /\ Matches(b)
    /\ ~Queued(p)
    /\ session' = Destroyed(session, p)
    /\ replaced' = [replaced EXCEPT ![p] =
           (@ \cup {envelope[p]} \cup {session[s].token : s \in Of(session, p)})
              \ {None, job[b].token}]
    /\ job' = [job EXCEPT ![b].pc = IF job[b].persist THEN "store" ELSE "update"]
    /\ line' = IF job[b].persist THEN line ELSE Append(line, <<"job", b>>)
    /\ UNCHANGED <<setting, profile, toggle, erasing, tab>>

\* Fault: keeps the envelope if a new one is going to be stored.
ReplaceInPlace(b) ==
    /\ Replacing(b)
    /\ IF job[b].persist THEN UNCHANGED <<envelope, amiss>> ELSE Erases(job[b].profile)

\* and its envelope goes with them.
Replace(b) == Replacing(b) /\ Erases(job[b].profile)

\* persist: the token is sealed.
Store(b) ==
    LET p == job[b].profile IN
    /\ job[b].pc = "store"
    /\ envelope' = [envelope EXCEPT ![p] = job[b].token]
    /\ IF job[b].kind = "create"
       THEN /\ Opens(b, session, p, "answered")
            /\ line' = line
       ELSE /\ job' = [job EXCEPT ![b].pc = "update"]
            /\ line' = Append(line, <<"job", b>>)
            /\ session' = session
    /\ UNCHANGED <<setting, profile, toggle, erasing, tab, replaced, amiss>>

\* Fault: believes that the token was stored.
UnstoredUnnoticed(b) == [job[b] EXCEPT !.pc = "update"]

\* It cannot be: the connection is one for this session only.
Unstored(b) == [job[b] EXCEPT !.pc = "update", !.persist = FALSE]

StoreFails(b) ==
    LET p == job[b].profile IN
    /\ job[b].pc = "store"
    /\ job' = [job EXCEPT ![b] = Unstored(b)]
    /\ line' = Append(line, <<"job", b>>)
    /\ amiss' = IF "crossed" \in amiss[p] THEN Marked(p, "unstored") ELSE amiss
    /\ UNCHANGED <<setting, profile, envelope, session, toggle, erasing, tab, replaced>>

\* resumeConnection: a session from the envelope that was read at the start.
Resume(b) ==
    LET p == job[b].profile IN
    /\ job[b].pc = "identify"
    /\ job[b].kind = "resume"
    /\ Opens(b, Destroyed(session, p), p, "update")
    /\ line' = IF job'[b].pc = "update" THEN Append(line, <<"job", b>>) ELSE line
    /\ UNCHANGED <<setting, profile, envelope, toggle, erasing, tab, replaced, amiss>>

\* profiles.update, in its turn.  It throws for a connection that was removed;
\* create and reconnect have no session before it, resume has.
Update(b) ==
    LET p == job[b].profile IN
    /\ job[b].pc = "update"
    /\ line # <<>>
    /\ Head(line) = <<"job", b>>
    /\ line' = Tail(line)
    /\ \/ /\ ~profile[p].saved
          /\ job' = [job EXCEPT ![b] = Refusal]
          /\ UNCHANGED <<profile, session>>
       \/ /\ profile[p].saved
          /\ job[b].kind = "resume"
          /\ job' = [job EXCEPT ![b] = Answer(job[b].session)]
          /\ UNCHANGED <<profile, session>>
       \/ /\ profile[p].saved
          /\ job[b].kind # "resume"
          /\ profile' = [profile EXCEPT ![p].mode = Mode(job[b].persist)]
          /\ Opens(b, session, p, "answered")
    /\ UNCHANGED <<setting, envelope, toggle, erasing, tab, replaced, amiss>>

-----------------------------------------------------------------------------
(* The requests of the connections panel. *)

\* setConnectionPersistence: the connection is read,
StartToggle(d, p, on) ==
    /\ toggle[d].pc = "none"
    /\ profile[p].saved
    /\ toggle' = [toggle EXCEPT ![d] = [pc |-> "begun", profile |-> p, on |-> on]]
    /\ UNCHANGED <<setting, profile, envelope, session, job, line, erasing, tab, replaced, amiss>>

Toggled(d) ==
    /\ toggle' = [toggle EXCEPT ![d].pc = "update"]
    /\ line' = Append(line, <<"toggle", d>>)

\* the token of a live session is sealed, if there is one and it can be,
PersistOn(d) ==
    LET p == toggle[d].profile IN
    /\ toggle[d].pc = "begun"
    /\ toggle[d].on
    /\ ~Queued(p)
    /\ \/ /\ \E s \in Of(session, p) :
                envelope' = [envelope EXCEPT ![p] = session[s].token]
          /\ Toggled(d)
       \/ /\ toggle' = [toggle EXCEPT ![d] = NoToggle]
          /\ UNCHANGED <<envelope, line>>
    /\ UNCHANGED <<setting, profile, session, job, erasing, tab, replaced, amiss>>

\* or the envelope is deleted,
PersistOff(d) ==
    /\ toggle[d].pc = "begun"
    /\ ~toggle[d].on
    /\ ~Queued(toggle[d].profile)
    /\ Erases(toggle[d].profile)
    /\ Toggled(d)
    /\ UNCHANGED <<setting, profile, session, job, erasing, tab, replaced>>

\* and the connection is updated in its turn, unless it was removed.
PersistUpdate(d) ==
    LET p == toggle[d].profile IN
    /\ toggle[d].pc = "update"
    /\ line # <<>>
    /\ Head(line) = <<"toggle", d>>
    /\ line' = Tail(line)
    /\ toggle' = [toggle EXCEPT ![d] = NoToggle]
    /\ profile' = IF profile[p].saved THEN [profile EXCEPT ![p].mode = Mode(toggle[d].on)]
                  ELSE profile
    /\ UNCHANGED <<setting, envelope, session, job, erasing, tab, replaced, amiss>>

\* disconnectConnection: the sessions end, the connection stays.
DisconnectConnection(p) ==
    /\ profile[p].saved
    /\ Of(session, p) # {}
    /\ session' = Destroyed(session, p)
    /\ UNCHANGED <<setting, profile, envelope, job, toggle, line, erasing, tab, replaced, amiss>>

\* Fault: forgets the connection and its envelope, but not its sessions.
RemoveConnectionOnly(p) ==
    /\ profile[p].saved
    /\ profile' = [profile EXCEPT ![p].saved = FALSE]
    /\ erasing' = erasing \cup {p}
    /\ amiss' = IF Others(p) THEN Marked(p, "late") ELSE amiss
    /\ UNCHANGED <<setting, envelope, session, job, toggle, line, tab, replaced>>

\* removeConnection: the entry and the sessions go,
RemoveConnection(p) ==
    /\ profile[p].saved
    /\ profile' = [profile EXCEPT ![p].saved = FALSE]
    /\ session' = Destroyed(session, p)
    /\ erasing' = erasing \cup {p}
    /\ amiss' = IF Others(p) THEN Marked(p, "late") ELSE amiss
    /\ UNCHANGED <<setting, envelope, job, toggle, line, tab, replaced>>

\* and afterwards the envelope.
EraseEnvelope(p) ==
    /\ p \in erasing
    /\ ~Queued(p)
    /\ erasing' = erasing \ {p}
    /\ Erases(p)
    /\ UNCHANGED <<setting, profile, session, job, toggle, line, tab, replaced>>

-----------------------------------------------------------------------------
(* The session manager of a tab. *)

Busy(b) == tab[b].pc # "idle" \/ tab[b].asks # None

\* connect or establish: the lock is taken, the generation advances, the account
\* to displace is remembered and the request reaches the server.
Establish(b, kind, p, x, persist) ==
    /\ ~Busy(b)
    /\ kind \in Kinds
    /\ job[b].pc = "none"
    /\ tab' = [tab EXCEPT ![b].pc = "asked", ![b].stale = FALSE,
                          ![b].old = IF tab[b].revocable THEN tab[b].shown ELSE None]
    /\ job' = [job EXCEPT ![b] = [NoJob EXCEPT !.pc = "identify", !.kind = kind, !.profile = p,
                                               !.token = x, !.persist = persist]]
    /\ amiss' = IF p # None /\ Others(p) THEN Marked(p, "crossed") ELSE amiss
    /\ UNCHANGED <<setting, profile, envelope, session, toggle, line, erasing, replaced>>

ConnectToken(b)  == \E x \in Tokens : Establish(b, "bare", None, x, FALSE)
ConnectProfile(b) ==
    \E x \in Tokens, persist \in BOOLEAN : Establish(b, "create", None, x, persist)
ReconnectProfile(b) ==
    \E p \in Profiles, x \in Tokens, persist \in BOOLEAN :
        profile[p].saved /\ Establish(b, "reconnect", p, x, persist)
ResumeProfile(b) ==
    \E p \in Profiles :
        /\ profile[p].saved
        /\ envelope[p] # None
        /\ Establish(b, "resume", p, envelope[p], TRUE)

Adopted(b, s) == [tab[b] EXCEPT !.pc = "idle", !.stored = s, !.shown = s, !.revocable = TRUE,
                                !.old = None, !.next = None]

\* A credential that revokes itself first forgets its id, if it is the stored one.
Revoking(t, s) == IF t.stored = s THEN [t EXCEPT !.stored = None] ELSE t

\* Fault: stores the new id before the displaced session is revoked.
DisplacingAdopted(t, s) == [t EXCEPT !.pc = "displace", !.next = s, !.stored = s]

Displacing(t, s) == [Revoking(t, t.old) EXCEPT !.pc = "displace", !.next = s]

\* The answer: a session that was overtaken is withdrawn; otherwise the account
\* it displaces is revoked before it is adopted.
Heard(b) ==
    LET s == job[b].session
        t == tab[b] IN
    /\ t.pc = "asked"
    /\ job[b].pc = "answered"
    /\ tab' = [tab EXCEPT ![b] =
          IF t.stale THEN [Revoking(t, s) EXCEPT !.pc = "withdraw", !.next = s]
          ELSE IF t.old # None THEN Displacing(t, s) ELSE Adopted(b, s)]
    /\ job' = [job EXCEPT ![b] = NoJob]
    /\ UNCHANGED <<setting, profile, envelope, session, toggle, line, erasing, replaced, amiss>>

\* A refusal, or the answer is lost; or nobody waits for it any more.
Unheard(b) ==
    /\ job[b].pc \in {"answered", "refused"}
    /\ tab' = IF tab[b].pc = "asked" THEN [tab EXCEPT ![b].pc = "idle", ![b].old = None] ELSE tab
    /\ job' = [job EXCEPT ![b] = NoJob]
    /\ UNCHANGED <<setting, profile, envelope, session, toggle, line, erasing, replaced, amiss>>

\* The DELETE of a session; its failure is ignored.
Revoked(s) == session' \in {session, [session EXCEPT ![s] = None]}

Displaced(b) ==
    /\ tab[b].pc = "displace"
    /\ Revoked(tab[b].old)
    /\ tab' = [tab EXCEPT ![b] = Adopted(b, tab[b].next)]
    /\ UNCHANGED <<setting, profile, envelope, job, toggle, line, erasing, replaced, amiss>>

Withdrawn(b) ==
    /\ tab[b].pc = "withdraw"
    /\ Revoked(tab[b].next)
    /\ tab' = [tab EXCEPT ![b].pc = "idle", ![b].old = None, ![b].next = None]
    /\ UNCHANGED <<setting, profile, envelope, job, toggle, line, erasing, replaced, amiss>>

\* disconnect: the generation advances and the stored session is deleted.
Disconnect(b) ==
    LET t == tab[b] IN
    /\ t.leaving = None
    /\ t.shown # None \/ t.stored # None \/ Busy(b)
    /\ tab' = [tab EXCEPT ![b] =
          [t EXCEPT !.stale = (t.pc # "idle"), !.askStale = (t.asks # None),
                    !.leaving = t.stored,
                    !.shown = IF t.stored = None THEN None ELSE t.shown,
                    !.revocable = IF t.stored = None THEN FALSE ELSE t.revocable]]
    /\ UNCHANGED server

\* Erased, or gone already; or the request fails and the tab stays connected.
Disconnected(b) ==
    LET t == tab[b] IN
    /\ t.leaving # None
    /\ \/ /\ session' = [session EXCEPT ![t.leaving] = None]
          /\ tab' = [tab EXCEPT ![b] = [t EXCEPT !.leaving = None, !.stored = None,
                                                 !.shown = None, !.revocable = FALSE]]
       \/ /\ session' = session
          /\ tab' = [tab EXCEPT ![b].leaving = None]
    /\ UNCHANGED <<setting, profile, envelope, job, toggle, line, erasing, replaced, amiss>>

\* restore: an account without a stored id is forgotten; without an account the
\* server is asked about the stored id.  It looks for another restore, but not
\* for a connect that is pending, and opening a workspace calls it at any time
\* (workspace-activation.mjs:388, workspace-context.mjs:283).
Restore(b) ==
    LET t == tab[b] IN
    /\ t.asks = None
    /\ t.shown = None \/ t.stored = None
    /\ t.shown # None \/ t.stored # None
    /\ tab' = [tab EXCEPT ![b] = [t EXCEPT !.shown = None, !.revocable = FALSE,
                                           !.asks = t.stored, !.askStale = FALSE,
                                           !.mixed = (t.mixed \/ t.pc # "idle")]]
    /\ UNCHANGED server

\* The answer.  An account that is restored cannot revoke itself.  An id the
\* server does not know is forgotten; a failure changes nothing.
Restored(b) ==
    LET t == tab[b]
        done == [t EXCEPT !.asks = None, !.askStale = FALSE] IN
    /\ t.asks # None
    /\ tab' \in
          {[tab EXCEPT ![b] = done],
           [tab EXCEPT ![b] = CASE session[t.asks] = None -> [done EXCEPT !.stored = None]
                                [] session[t.asks] # None /\ ~t.askStale ->
                                      [done EXCEPT !.shown = t.asks, !.revocable = FALSE]
                                [] OTHER -> done]}
    /\ UNCHANGED server

\* A tab is reloaded, which keeps sessionStorage, or closed.
TabGone(b) ==
    /\ tab[b] # Fresh
    /\ \E s \in {None, tab[b].stored} : tab' = [tab EXCEPT ![b] = [Fresh EXCEPT !.stored = s]]
    /\ UNCHANGED server

-----------------------------------------------------------------------------
(* Time and the process. *)

\* prune: idle for half an hour, or eight hours old.
Expire(s) ==
    /\ session[s] # None
    /\ session' = [session EXCEPT ![s] = None]
    /\ UNCHANGED <<setting, profile, envelope, job, toggle, line, erasing, tab, replaced, amiss>>

\* Requests of p that have changed something and have not finished.
Halfway(p) ==
    \/ p \in erasing
    \/ \E b \in Tabs : job[b].profile = p /\ job[b].pc \in {"store", "update"}
    \/ \E d \in Panels : toggle[d].profile = p /\ toggle[d].pc = "update"

\* The server dies and is started again: only the files remain.
Restart ==
    /\ session' = [s \in Sessions |-> None]
    /\ job' = [b \in Tabs |-> IF job[b].pc = "none" THEN NoJob ELSE Refusal]
    /\ toggle' = [d \in Panels |-> NoToggle]
    /\ line' = <<>>
    /\ erasing' = {}
    /\ amiss' = [p \in Profiles |-> IF Halfway(p) THEN amiss[p] \cup {"cut"} ELSE amiss[p]]
    /\ UNCHANGED <<setting, profile, envelope, tab, replaced>>

\* A server that was started again and has at most one saved connection.
Init ==
    /\ setting \in Settings
    /\ profile \in [Profiles -> {Unused} \cup
                       [saved : {TRUE}, account : {AccountOf[x] : x \in Tokens}, mode : Modes]]
    /\ Cardinality({p \in Profiles : profile[p].saved}) <= 1
    /\ envelope \in [Profiles -> Tokens \cup {None}]
    /\ \A p \in Profiles :
          IF profile[p].mode = "persistent"
          THEN envelope[p] # None /\ AccountOf[envelope[p]] = profile[p].account
          ELSE envelope[p] = None
    /\ session = [s \in Sessions |-> None]
    /\ job = [b \in Tabs |-> NoJob]
    /\ toggle = [d \in Panels |-> NoToggle]
    /\ line = <<>>
    /\ erasing = {}
    /\ tab = [b \in Tabs |-> Fresh]
    /\ replaced = [p \in Profiles |-> {}]
    /\ amiss = [p \in Profiles |-> {}]

Establishing(b) ==
    \/ Refuse(b)
    \/ Connect(b)
    \/ FindAccount(b)
    \/ \E p \in Profiles : CreateProfile(b, p)
    \/ Replace(b)
    \/ Store(b)
    \/ StoreFails(b)
    \/ Resume(b)
    \/ Update(b)

Panel(d) ==
    \/ \E p \in Profiles, on \in BOOLEAN : StartToggle(d, p, on)
    \/ PersistOn(d)
    \/ PersistOff(d)
    \/ PersistUpdate(d)

Asking(b) ==
    \/ ConnectToken(b)
    \/ ConnectProfile(b)
    \/ ReconnectProfile(b)
    \/ ResumeProfile(b)
    \/ Unheard(b)

Manager(b) ==
    \/ Heard(b)
    \/ Displaced(b)
    \/ Withdrawn(b)
    \/ Disconnect(b)
    \/ Disconnected(b)
    \/ Restore(b)
    \/ Restored(b)
    \/ TabGone(b)

Next ==
    \/ \E b \in Tabs : Establishing(b) \/ Asking(b)
    \/ \E d \in Panels : Panel(d)
    \/ \E b \in Managed : Manager(b)
    \/ \E p \in Profiles : DisconnectConnection(p) \/ RemoveConnection(p) \/ EraseEnvelope(p)
    \/ \E s \in Sessions : Expire(s)
    \/ Restart

Spec == Init /\ [][Next]_vars

-----------------------------------------------------------------------------
(* What the connections promise. *)

\* Types of the stores, the requests and the managers; the sessions within their
\* limit, which every way of opening one has to respect.
TypeOK ==
    /\ \A p \in Profiles :
          /\ DOMAIN profile[p] = DOMAIN Unused
          /\ profile[p].mode \in Modes
          /\ envelope[p] \in Tokens \cup {None}
          /\ replaced[p] \subseteq Tokens
    /\ Cardinality(Live(session)) <= MaxSessions
    /\ \A b \in Tabs :
          /\ DOMAIN job[b] = DOMAIN NoJob
          /\ DOMAIN tab[b] = DOMAIN Fresh
    /\ \A d \in Panels : DOMAIN toggle[d] = DOMAIN NoToggle
    /\ Len(line) <= Cardinality(Tabs) + Cardinality(Panels)

\* A connection works under one account for ever: whatever requests overlap, a
\* session or an envelope of it holds a token of the account it was created for,
\* also after it was removed (connections.mjs:28-35).
AccountBound ==
    /\ \A p \in Profiles : envelope[p] # None => AccountOf[envelope[p]] = profile[p].account
    /\ \A s \in Live(session), p \in Profiles :
          session[s].profile = p => AccountOf[session[s].token] = profile[p].account

\* Once nothing is under way for a connection, "persistent" has an envelope and
\* "session" has none, though toggles, reconnects and failing stores overlapped
\* (connection-lifecycle.mjs:255-260, 385-392); a file that could not be deleted
\* and a server that died halfway are the exceptions.
SessionOnlyKeepsNothing ==
    \A p \in Profiles :
        profile[p].saved /\ ~Halfway(p) /\ amiss[p] \cap {"kept", "cut", "unstored"} = {} =>
            (profile[p].mode = "persistent" <=> envelope[p] # None)

\* Nothing of a removed connection stays, neither sealed nor in memory, unless
\* its file could not be deleted or a request was establishing a session for it.
RemovedIsForgotten ==
    \A p \in Profiles :
        profile[p] # Unused /\ ~profile[p].saved /\ "late" \notin amiss[p] =>
            /\ Of(session, p) = {}
            /\ p \notin erasing /\ amiss[p] \cap {"kept", "cut"} = {} => envelope[p] = None

\* A token that a reconnect came to replace is never sealed or used again for the
\* connection, though storing the new one may fail, the server die at any step or
\* the persistence be toggled (connection-lifecycle.mjs:255-260); the exceptions
\* are a file that could not be deleted and two requests that both establish.
ReplacedStaysOut ==
    \A p \in Profiles :
        amiss[p] \cap {"kept", "crossed"} = {} =>
            /\ envelope[p] \notin replaced[p]
            /\ \A s \in Of(session, p) : session[s].token \notin replaced[p]

\* The account a tab shows is the one its requests run under
\* (github-session-manager.mjs:4-18).
ShownAsUsed(t) == t.shown # None /\ t.stored # None => t.shown = t.stored
ShownIsUsed == \A b \in Tabs : ShownAsUsed(tab[b])

\* It is so for a tab in which no restore has asked while a connect was pending,
\* however answers, account switches, disconnects, restores and reloads
\* interleave.
ShownIsUsedUnmixed == \A b \in Tabs : ~tab[b].mixed => ShownAsUsed(tab[b])
=============================================================================
