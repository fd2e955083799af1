------------------------- MODULE ConnectionsProofs -------------------------
(***************************************************************************)
(* Proofs about Connections, for any number of tabs, panels, connections,  *)
(* tokens and sessions, whatever requests overlap and whatever fails.      *)
(***************************************************************************)
EXTENDS Connections, FiniteSetTheorems, TLAPS

Credentials == DOMAIN AccountOf

JobType == [pc : {"none", "identify", "admitted", "store", "update", "answered", "refused"},
            kind : {"bare", "create", "reconnect", "resume"}, profile : Profiles \cup {None},
            token : Credentials \cup {None}, persist : BOOLEAN, session : Sessions \cup {None}]

ToggleType == {NoToggle} \cup [pc : {"begun", "update"}, profile : Profiles, on : BOOLEAN]

TabType == [pc : {"idle", "asked", "displace", "withdraw"}, stale : BOOLEAN,
            shown : Sessions \cup {None}, revocable : BOOLEAN,
            stored : Sessions \cup {None}, old : Sessions \cup {None},
            next : Sessions \cup {None}, leaving : Sessions \cup {None},
            asks : Sessions \cup {None}, askStale : BOOLEAN, mixed : BOOLEAN]

ProfileType == [saved : BOOLEAN, account : {AccountOf[x] : x \in Credentials} \cup {None},
                mode : Modes]

SessionType == [token : Credentials \cup {None}, profile : Profiles \cup {None}] \cup {None}

Marks == {"kept", "cut", "late", "crossed", "unstored"}

StoreTypes ==
    /\ profile \in [Profiles -> ProfileType]
    /\ envelope \in [Profiles -> Credentials \cup {None}]
    /\ session \in [Sessions -> SessionType]
    /\ erasing \subseteq Profiles
    /\ amiss \in [Profiles -> SUBSET Marks]

RequestTypes ==
    /\ setting \in Settings
    /\ job \in [Tabs -> JobType]
    /\ toggle \in [Panels -> ToggleType]

TabTypes == tab \in [Tabs -> TabType]

\* A request names a connection as long as it is at work, and from the check of
\* its token on that token is one of the connection's account.
Fits(j) ==
    /\ j.pc \in {"none", "answered", "refused"} => j.profile = None
    /\ j.pc \notin {"none", "answered", "refused"} => j.token \in Credentials
    /\ j.pc \in {"store", "update"} \/ (j.pc = "identify" /\ j.kind \in {"reconnect", "resume"}) =>
          j.profile # None
    /\ j.profile # None /\ (j.pc \in {"store", "update"} \/ j.kind = "resume") =>
          AccountOf[j.token] = profile[j.profile].account

JobsOK == \A b \in Tabs : Fits(job[b])

\* An id that was not generated yet is nowhere; one that was keeps its account.
UnusedOK ==
    \A p \in Profiles :
        profile[p].account = None =>
            /\ profile[p] = Unused
            /\ envelope[p] = None
            /\ Of(session, p) = {}
            /\ \A b \in Tabs : job[b].profile # p

\* A connection whose removal overtook no request has no request, no session and,
\* once it was erased, no envelope.
RemovedOK ==
    \A p \in Profiles :
        profile[p] # Unused /\ ~profile[p].saved /\ "late" \notin amiss[p] =>
            /\ Of(session, p) = {}
            /\ \A b \in Tabs : job[b].profile # p
            /\ p \notin erasing /\ amiss[p] \cap {"kept", "cut"} = {} => envelope[p] = None

\* While restore asks about a session nothing is shown or adopted, unless it
\* began to ask while a connect was pending.
Steady(t) ==
    ~t.mixed =>
        /\ t.asks # None => t.pc = "idle" /\ t.shown = None /\ t.stored \in {None, t.asks}
        /\ t.shown # None /\ t.stored # None => t.shown = t.stored

ManagersOK == \A b \in Tabs : Steady(tab[b])

IInv == StoreTypes /\ RequestTypes /\ JobsOK /\ UnusedOK /\ AccountBound /\ RemovedOK

-----------------------------------------------------------------------------
LEMMA Constants ==
    /\ None \notin Profiles /\ None \notin Sessions /\ None \notin Credentials
    /\ \A x \in Credentials : AccountOf[x] # None
    /\ \A w \in Settings : w.managed \subseteq w.tabs /\ w.tokens \subseteq Credentials
BY ConnectionsAssumption DEF ConnectionsAssumption, Credentials

LEMMA InitHolds == Init => IInv
<1>. SUFFICES ASSUME Init PROVE IInv
  OBVIOUS
<1>0. setting \in Settings /\ Tokens \subseteq Credentials
  BY Constants DEF Init, Tokens
<1>1. StoreTypes
  <2>1. Unused \in ProfileType
    BY DEF Unused, ProfileType, Modes
  <2>2. [saved : {TRUE}, account : {AccountOf[x] : x \in Tokens}, mode : Modes] \subseteq ProfileType
    BY <1>0 DEF ProfileType, Modes
  <2>3. profile \in [Profiles -> ProfileType]
    BY <2>1, <2>2 DEF Init
  <2>4. session \in [Sessions -> SessionType]
    BY DEF Init, SessionType
  <2>5. envelope \in [Profiles -> Credentials \cup {None}]
    BY <1>0 DEF Init
  <2>6. erasing \subseteq Profiles /\ amiss \in [Profiles -> SUBSET Marks]
    BY DEF Init
  <2>. QED  BY <2>3, <2>4, <2>5, <2>6 DEF StoreTypes
<1>2. RequestTypes
  <2>1. NoJob \in JobType /\ NoToggle \in ToggleType
    BY DEF JobType, ToggleType, NoJob, NoToggle
  <2>. QED  BY <1>0, <2>1 DEF Init, RequestTypes
<1>3. JobsOK
  BY DEF Init, JobsOK, Fits, NoJob
<1>4. UnusedOK
  <2>. SUFFICES ASSUME NEW p \in Profiles, profile[p].account = None
                PROVE  /\ profile[p] = Unused /\ envelope[p] = None /\ Of(session, p) = {}
                       /\ \A b \in Tabs : job[b].profile # p
    BY DEF UnusedOK
  <2>1. profile[p] = Unused
    <3>1. profile[p] \in {Unused} \cup
                [saved : {TRUE}, account : {AccountOf[x] : x \in Tokens}, mode : Modes]
      BY DEF Init
    <3>. QED  BY <1>0, <3>1, Constants
  <2>2. envelope[p] = None
    BY <2>1 DEF Init, Unused
  <2>3. Of(session, p) = {} /\ \A b \in Tabs : job[b].profile # p
    BY Constants DEF Init, Of, Live, NoJob
  <2>. QED  BY <2>1, <2>2, <2>3
<1>5. AccountBound
  <2>1. \A p \in Profiles : envelope[p] # None => AccountOf[envelope[p]] = profile[p].account
    BY DEF Init
  <2>. QED  BY <2>1 DEF Init, AccountBound, Live
<1>6. RemovedOK
  <2>. SUFFICES ASSUME NEW p \in Profiles PROVE profile[p] = Unused \/ profile[p].saved
    BY DEF RemovedOK
  <2>. QED  BY DEF Init
<1>. QED  BY <1>1, <1>2, <1>3, <1>4, <1>5, <1>6 DEF IInv

-----------------------------------------------------------------------------
(* What the steps have in common.                                          *)

LEMMA TabsStay == setting' = setting => Tabs' = Tabs /\ Panels' = Panels /\ Tokens' = Tokens
BY DEF Tabs, Panels, Tokens

\* What nearly every step does: a token is sealed, or a session opened, for a
\* connection only out of one of its sessions or by a request whose token was
\* checked; connections are neither made nor removed.
Gentle ==
    /\ \A p \in Profiles :
          /\ profile'[p].account = profile[p].account
          /\ profile'[p].saved = profile[p].saved
          /\ profile[p] = Unused => profile'[p] = Unused
          /\ amiss[p] \subseteq amiss'[p]
          /\ \/ envelope'[p] \in {envelope[p], None}
             \/ \E s \in Of(session, p) : envelope'[p] = session[s].token
             \/ \E b \in Tabs : /\ job[b].profile = p
                               /\ envelope'[p] = job[b].token
                               /\ AccountOf[job[b].token] = profile[p].account
    /\ \A s \in Sessions :
          \/ session'[s] \in {session[s], None}
          \/ session'[s].profile = None
          \/ \E b \in Tabs :
                /\ job[b].profile = session'[s].profile
                /\ session'[s].token = job[b].token
                /\ job[b].profile # None => AccountOf[job[b].token] = profile[job[b].profile].account
    /\ \A b \in Tabs :
          \/ job'[b] = job[b]
          \/ /\ Fits(job'[b])
             /\ \/ job'[b].profile \in {None, job[b].profile}
                \/ profile[job'[b].profile].saved

LEMMA GentleHolds ==
    ASSUME IInv, UNCHANGED <<setting, erasing>>, StoreTypes', RequestTypes', Gentle
    PROVE  IInv'
<1>. USE TabsStay DEF IInv
<1>1. JobsOK'
  <2>. SUFFICES ASSUME NEW b \in Tabs PROVE Fits(job[b])'
    BY DEF JobsOK
  <2>1. Fits(job'[b])
    BY DEF JobsOK, Gentle
  <2>2. job'[b].profile # None => profile'[job'[b].profile].account = profile[job'[b].profile].account
    BY DEF Gentle, RequestTypes, JobType
  <2>. QED  BY <2>1, <2>2 DEF Fits
<1>2. UnusedOK'
  <2>. SUFFICES ASSUME NEW p \in Profiles, profile'[p].account = None
                PROVE  /\ profile'[p] = Unused /\ envelope'[p] = None /\ Of(session', p) = {}
                       /\ \A b \in Tabs : job'[b].profile # p
    BY DEF UnusedOK, Of, Live
  <2>1. profile[p] = Unused /\ envelope[p] = None /\ Of(session, p) = {}
        /\ \A b \in Tabs : job[b].profile # p
    BY DEF UnusedOK, Gentle
  <2>2. profile'[p] = Unused /\ envelope'[p] = None
    BY <2>1 DEF Gentle
  <2>3. Of(session', p) = {}
    BY <2>1, Constants DEF Gentle, Of, Live
  <2>4. ~profile[p].saved
    BY <2>1 DEF Unused
  <2>. QED  BY <2>1, <2>2, <2>3, <2>4, Constants DEF Gentle
<1>3. AccountBound'
  <2>1. ASSUME NEW p \in Profiles, envelope'[p] # None
        PROVE  AccountOf[envelope'[p]] = profile'[p].account
    BY <2>1 DEF Gentle, AccountBound, Of
  <2>2. ASSUME NEW s \in Live(session'), NEW p \in Profiles, session'[s].profile = p
        PROVE  AccountOf[session'[s].token] = profile'[p].account
    BY <2>2, Constants DEF Gentle, AccountBound, Live
  <2>. QED  BY <2>1, <2>2 DEF AccountBound, Live
<1>4. RemovedOK'
  <2>. SUFFICES ASSUME NEW p \in Profiles, profile'[p] # Unused, ~profile'[p].saved,
                       "late" \notin amiss'[p]
                PROVE  /\ Of(session', p) = {}
                       /\ \A b \in Tabs : job'[b].profile # p
                       /\ p \notin erasing /\ amiss'[p] \cap {"kept", "cut"} = {} =>
                             envelope'[p] = None
    BY DEF RemovedOK, Of, Live
  <2>1. profile[p] # Unused /\ ~profile[p].saved /\ "late" \notin amiss[p]
    BY DEF Gentle
  <2>2. Of(session, p) = {} /\ \A b \in Tabs : job[b].profile # p
    BY <2>1 DEF RemovedOK
  <2>3. Of(session', p) = {}
    BY <2>2, Constants DEF Gentle, Of, Live
  <2>4. \A b \in Tabs : job'[b].profile # p
    BY <2>1, <2>2, Constants DEF Gentle
  <2>5. ASSUME p \notin erasing, amiss'[p] \cap {"kept", "cut"} = {} PROVE envelope'[p] = None
    <3>1. envelope[p] = None
      BY <2>1, <2>5 DEF Gentle, RemovedOK
    <3>. QED  BY <3>1, <2>2 DEF Gentle
  <2>. QED  BY <2>3, <2>4, <2>5
<1>. QED  BY <1>1, <1>2, <1>3, <1>4

-----------------------------------------------------------------------------
(* The requests that establish a session.                                  *)

LEMMA JobValues ==
    /\ NoJob \in JobType /\ Refusal \in JobType /\ Fits(NoJob) /\ Fits(Refusal)
    /\ \A s \in Sessions \cup {None} : Answer(s) \in JobType /\ Fits(Answer(s))
    /\ NoJob.profile = None /\ Refusal.profile = None
    /\ \A s \in Sessions \cup {None} : Answer(s).profile = None /\ Answer(s).pc = "answered"
    /\ Refusal.pc = "refused"
BY DEF JobType, Fits, NoJob, Refusal, Answer

\* Sessions that end.
LEMMA DestroyedIsLess ==
    ASSUME StoreTypes, NEW p \in Profiles \cup {None}
    PROVE  /\ Destroyed(session, p) \in [Sessions -> SessionType]
           /\ \A s \in Sessions : Destroyed(session, p)[s] \in {session[s], None}
BY DEF StoreTypes, SessionType, Destroyed

\* Only b's request changes, and nothing else of what GentleHolds is about.
LEMMA JobHolds ==
    ASSUME IInv, NEW b \in Tabs, NEW j \in JobType, job' = [job EXCEPT ![b] = j],
           UNCHANGED <<setting, profile, envelope, session, toggle, erasing>>,
           amiss' \in [Profiles -> SUBSET Marks],
           \A p \in Profiles : amiss[p] \subseteq amiss'[p],
           Fits(j),
           j.profile \in {None, job[b].profile} \/ profile[j.profile].saved
    PROVE  IInv'
<1>. USE TabsStay DEF IInv
<1>1. StoreTypes' /\ RequestTypes'
  BY DEF StoreTypes, RequestTypes
<1>2. \A c \in Tabs : job'[c] = IF c = b THEN j ELSE job[c]
  BY DEF RequestTypes
<1>3. Gentle
  BY <1>2 DEF Gentle
<1>. QED  BY <1>1, <1>3, GentleHolds

\* Sessions end, and nothing else of what GentleHolds is about changes.
LEMMA EndingHolds ==
    ASSUME IInv, UNCHANGED <<setting, profile, envelope, job, toggle, erasing, amiss>>,
           session' \in [Sessions -> SessionType],
           \A s \in Sessions : session'[s] \in {session[s], None}
    PROVE  IInv'
<1>. USE TabsStay DEF IInv
<1>1. StoreTypes' /\ RequestTypes'
  BY DEF StoreTypes, RequestTypes
<1>2. Gentle
  BY DEF Gentle
<1>. QED  BY <1>1, <1>2, GentleHolds

LEMMA RefuseHolds == ASSUME IInv, NEW b \in Tabs, Refuse(b) PROVE IInv'
BY JobHolds, JobValues DEF Refuse, IInv, StoreTypes

LEMMA FindAccountHolds == ASSUME IInv, NEW b \in Tabs, FindAccount(b) PROVE IInv'
<1>. DEFINE j == [job[b] EXCEPT !.pc = "admitted"]
<1>1. j \in JobType /\ Fits(j) /\ j.profile = job[b].profile
  BY DEF FindAccount, IInv, JobsOK, RequestTypes, JobType, Fits
<1>2. job' = [job EXCEPT ![b] = Refusal] \/ job' = [job EXCEPT ![b] = j]
  BY DEF FindAccount
<1>. QED  BY <1>1, <1>2, JobHolds, JobValues DEF FindAccount, IInv, StoreTypes

\* A new session holds the token of the request and belongs to its connection.
LEMMA OpensFacts ==
    ASSUME IInv, NEW b \in Tabs, NEW ss \in [Sessions -> SessionType],
           NEW p \in Profiles \cup {None}, NEW pc \in {"answered", "update"},
           job[b].pc \notin {"none", "answered", "refused"}, Opens(b, ss, p, pc)
    PROVE  /\ session' \in [Sessions -> SessionType]
           /\ job' \in [Tabs -> JobType]
           /\ \A s \in Sessions :
                 session'[s] \in {ss[s], [token |-> job[b].token, profile |-> p]}
           /\ \A c \in Tabs : c # b => job'[c] = job[c]
           /\ \/ /\ job'[b].profile = None /\ Fits(job'[b])
                 /\ job'[b].pc \in {"answered", "refused"}
              \/ /\ pc = "update" /\ job'[b].profile = p /\ job'[b].token = job[b].token
                 /\ job'[b].pc = "update" /\ job'[b].kind = job[b].kind
<1>. USE DEF IInv, RequestTypes
<1>1. [token |-> job[b].token, profile |-> p] \in SessionType
  BY DEF SessionType, JobType
<1>2. CASE Full(ss) /\ session' = ss /\ job' = [job EXCEPT ![b] = Refusal]
  BY <1>2, JobValues
<1>3. CASE \E s \in Sessions :
              /\ session' = [ss EXCEPT ![s] = [token |-> job[b].token, profile |-> p]]
              /\ job' = [job EXCEPT ![b] =
                     IF pc = "answered" THEN Answer(s)
                     ELSE [@ EXCEPT !.pc = pc, !.profile = p, !.session = s]]
  <2>. PICK s \in Sessions :
              /\ session' = [ss EXCEPT ![s] = [token |-> job[b].token, profile |-> p]]
              /\ job' = [job EXCEPT ![b] =
                     IF pc = "answered" THEN Answer(s)
                     ELSE [@ EXCEPT !.pc = pc, !.profile = p, !.session = s]]
    BY <1>3
  <2>1. session' \in [Sessions -> SessionType] /\ \A r \in Sessions :
          session'[r] \in {ss[r], [token |-> job[b].token, profile |-> p]}
    BY <1>1
  <2>2. CASE pc = "answered"
    BY <2>1, <2>2, JobValues
  <2>3. CASE pc = "update"
    <3>1. [job[b] EXCEPT !.pc = pc, !.profile = p, !.session = s] \in JobType
      BY <2>3 DEF JobType
    <3>2. job' = [job EXCEPT ![b] = [job[b] EXCEPT !.pc = pc, !.profile = p, !.session = s]]
      BY <2>3
    <3>3. job' \in [Tabs -> JobType] /\ \A c \in Tabs : c # b => job'[c] = job[c]
      BY <3>1, <3>2
    <3>4. /\ job'[b].profile = p /\ job'[b].token = job[b].token /\ job'[b].pc = "update"
          /\ job'[b].kind = job[b].kind
      BY <2>3, <3>2 DEF JobType
    <3>. QED  BY <2>1, <2>3, <3>3, <3>4
  <2>. QED  BY <2>2, <2>3
<1>. QED  BY <1>2, <1>3 DEF Opens

\* A request that stays, or goes on with its connection or ends.
Proceeds(b) ==
    \/ job'[b] = job[b]
    \/ Fits(job'[b]) /\ job'[b].profile \in {None, job[b].profile}

LEMMA OneJob ==
    ASSUME NEW b \in Tabs, \A c \in Tabs : c # b => job'[c] = job[c], Proceeds(b)
    PROVE  \A c \in Tabs : Proceeds(c)
<1>1. ASSUME NEW c \in Tabs, c # b PROVE Proceeds(c)
  BY <1>1 DEF Proceeds
<1>2. ASSUME NEW c \in Tabs, c = b PROVE Proceeds(c)
  BY <1>2
<1>. QED  BY <1>1, <1>2

LEMMA ConnectHolds == ASSUME IInv, NEW b \in Tabs, Connect(b) PROVE IInv'
<1>. USE TabsStay DEF IInv
<1>1. session \in [Sessions -> SessionType]
  BY DEF StoreTypes
<1>2. /\ session' \in [Sessions -> SessionType] /\ job' \in [Tabs -> JobType]
      /\ \A s \in Sessions : session'[s] \in {session[s], [token |-> job[b].token, profile |-> None]}
      /\ \A c \in Tabs : c # b => job'[c] = job[c]
      /\ job'[b].profile = None /\ Fits(job'[b])
  BY <1>1, OpensFacts DEF Connect
<1>3. StoreTypes' /\ RequestTypes'
  BY <1>2 DEF StoreTypes, RequestTypes, Connect
<1>4. Gentle
  BY <1>2 DEF Gentle, Connect
<1>. QED  BY <1>3, <1>4, GentleHolds DEF Connect

\* What a request that names a connection may rely on.
LEMMA Named ==
    ASSUME IInv, NEW b \in Tabs, job[b].profile # None
    PROVE  /\ job[b].profile \in Profiles
           /\ job[b].token \in Credentials
           /\ job[b].pc \notin {"none", "answered", "refused"}
           /\ profile[job[b].profile] # Unused
BY Constants DEF IInv, RequestTypes, JobType, JobsOK, Fits, UnusedOK, Unused

\* A connection is made of an id that is nowhere.
Made(b) == [saved |-> TRUE, account |-> AccountOf[job[b].token], mode |-> Mode(job[b].persist)]
Stored(b, p) == [job[b] EXCEPT !.pc = "store", !.profile = p]

LEMMA CreateFacts ==
    ASSUME IInv, NEW b \in Tabs, NEW p \in Profiles, CreateProfile(b, p), NEW x, x = job[b].token
    PROVE  /\ x \in Credentials /\ AccountOf[x] # None
           /\ profile[p] = Unused /\ profile[p].account = None
           /\ envelope[p] = None /\ Of(session, p) = {} /\ \A c \in Tabs : job[c].profile # p
           /\ profile' \in [Profiles -> ProfileType]
           /\ \A q \in Profiles : profile'[q] = IF q = p THEN Made(b) ELSE profile[q]
           /\ session' \in [Sessions -> SessionType] /\ job' \in [Tabs -> JobType]
           /\ \A s \in Sessions : session'[s] \in {session[s], [token |-> x, profile |-> p]}
           /\ \A c \in Tabs : c # b => job'[c] = job[c]
           /\ Stored(b, p).pc = "store" /\ Stored(b, p).profile = p /\ Stored(b, p).token = x
           /\ Stored(b, p).kind = job[b].kind /\ Stored(b, p).persist = job[b].persist
           /\ \/ /\ ~job[b].persist
                 /\ job'[b].profile = None /\ Fits(job'[b])
                 /\ job'[b].pc \in {"answered", "refused"}
              \/ job[b].persist /\ job'[b] = Stored(b, p)
<1>. USE DEF IInv
<1>1. x \in Credentials /\ AccountOf[x] # None /\ profile[p] = Unused /\ profile[p].account = None
  BY Constants DEF CreateProfile, JobsOK, Fits, Unused
<1>2. envelope[p] = None /\ Of(session, p) = {} /\ \A c \in Tabs : job[c].profile # p
  BY <1>1 DEF UnusedOK
<1>3. profile' = [profile EXCEPT ![p] = Made(b)] /\ Made(b) \in ProfileType
  BY <1>1 DEF Made, CreateProfile, ProfileType, Mode, Modes, RequestTypes, JobType
<1>4. /\ profile' \in [Profiles -> ProfileType]
      /\ \A q \in Profiles : profile'[q] = IF q = p THEN Made(b) ELSE profile[q]
  BY <1>3 DEF StoreTypes
<1>5. /\ session' \in [Sessions -> SessionType] /\ job' \in [Tabs -> JobType]
      /\ \A s \in Sessions : session'[s] \in {session[s], [token |-> x, profile |-> p]}
      /\ \A c \in Tabs : c # b => job'[c] = job[c]
      /\ \/ /\ ~job[b].persist
            /\ job'[b].profile = None /\ Fits(job'[b])
            /\ job'[b].pc \in {"answered", "refused"}
         \/ job[b].persist /\ job'[b] = Stored(b, p)
  <2>1. session \in [Sessions -> SessionType]
    BY DEF StoreTypes
  <2>2. CASE job[b].persist
    <3>1. Stored(b, p) \in JobType
      BY DEF Stored, RequestTypes, JobType
    <3>2. job' = [job EXCEPT ![b] = Stored(b, p)] /\ session' = session
      BY <2>2 DEF CreateProfile, Stored
    <3>. QED  BY <2>1, <2>2, <3>1, <3>2 DEF RequestTypes
  <2>3. CASE ~job[b].persist
    BY <2>1, <2>3, OpensFacts DEF CreateProfile
  <2>. QED  BY <2>2, <2>3
<1>6. /\ Stored(b, p).pc = "store" /\ Stored(b, p).profile = p /\ Stored(b, p).token = x
      /\ Stored(b, p).kind = job[b].kind /\ Stored(b, p).persist = job[b].persist
  BY DEF Stored, RequestTypes, JobType
<1>. QED  BY <1>1, <1>2, <1>4, <1>5, <1>6

LEMMA CreateProfileHolds ==
    ASSUME IInv, NEW b \in Tabs, NEW p \in Profiles, CreateProfile(b, p) PROVE IInv'
<1>. DEFINE x == job[b].token
            made == Made(b)
            stored == Stored(b, p)
<1>. USE TabsStay DEF IInv
<1>0. Tabs' = Tabs
  BY DEF CreateProfile
<1>1. x \in Credentials /\ AccountOf[x] # None /\ profile[p] = Unused /\ profile[p].account = None
  BY CreateFacts
<1>2. envelope[p] = None /\ Of(session, p) = {} /\ \A c \in Tabs : job[c].profile # p
  BY CreateFacts
<1>4. /\ profile' \in [Profiles -> ProfileType]
      /\ \A q \in Profiles : profile'[q] = IF q = p THEN made ELSE profile[q]
  BY CreateFacts
<1>5. /\ session' \in [Sessions -> SessionType] /\ job' \in [Tabs -> JobType]
      /\ \A s \in Sessions : session'[s] \in {session[s], [token |-> x, profile |-> p]}
      /\ \A c \in Tabs : c # b => job'[c] = job[c]
      /\ \/ job'[b].profile = None /\ Fits(job'[b])
         \/ job'[b] = stored
  BY CreateFacts
<1>6. StoreTypes' /\ RequestTypes'
  BY <1>4, <1>5 DEF StoreTypes, RequestTypes, CreateProfile
<1>7. JobsOK'
  <2>. SUFFICES ASSUME NEW c \in Tabs PROVE Fits(job[c])'
    BY <1>0 DEF JobsOK
  <2>1. CASE job'[c] = job[c]
    <3>1. Fits(job[c]) /\ job[c].profile # p /\ job[c].profile \in Profiles \cup {None}
      BY <1>2 DEF JobsOK, RequestTypes, JobType
    <3>2. job[c].profile # None => profile'[job[c].profile] = profile[job[c].profile]
      BY <3>1, <1>4
    <3>. QED  BY <2>1, <3>1, <3>2 DEF Fits
  <2>2. CASE job'[c].profile = None /\ Fits(job'[c])
    BY <2>2 DEF Fits
  <2>3. CASE job'[c] = stored
    <3>1. stored.pc = "store" /\ stored.profile = p /\ stored.token = x
      BY CreateFacts
    <3>2. profile'[p].account = AccountOf[x]
      BY <1>4 DEF Made
    <3>. QED  BY <2>3, <3>1, <3>2, <1>1, Constants DEF Fits
  <2>. QED  BY <1>5, <2>1, <2>2, <2>3
<1>8. UnusedOK'
  <2>. SUFFICES ASSUME NEW q \in Profiles, profile'[q].account = None
                PROVE  /\ profile'[q] = Unused /\ envelope'[q] = None /\ Of(session', q) = {}
                       /\ \A c \in Tabs : job'[c].profile # q
    BY <1>0 DEF UnusedOK, Of, Live
  <2>1. q # p
    BY <1>1, <1>4 DEF Made
  <2>2. profile'[q] = Unused /\ envelope'[q] = None /\ Of(session, q) = {}
        /\ \A c \in Tabs : job[c].profile # q
    BY <2>1, <1>4 DEF UnusedOK, CreateProfile
  <2>3. Of(session', q) = {}
    BY <2>1, <2>2, <1>5 DEF Of, Live
  <2>4. stored.profile = p
    BY CreateFacts
  <2>. QED  BY <2>1, <2>2, <2>3, <2>4, <1>5, Constants
<1>9. AccountBound'
  <2>1. \A q \in Profiles : envelope'[q] # None => AccountOf[envelope'[q]] = profile'[q].account
    BY <1>2, <1>4 DEF AccountBound, CreateProfile
  <2>2. ASSUME NEW s \in Live(session'), NEW q \in Profiles, session'[s].profile = q
        PROVE  AccountOf[session'[s].token] = profile'[q].account
    BY <2>2, <1>2, <1>4, <1>5 DEF AccountBound, Live, Of, Made
  <2>. QED  BY <2>1, <2>2 DEF AccountBound, Live
<1>10. RemovedOK'
  <2>. SUFFICES ASSUME NEW q \in Profiles, profile'[q] # Unused, ~profile'[q].saved,
                       "late" \notin amiss[q]
                PROVE  /\ Of(session', q) = {}
                       /\ \A c \in Tabs : job'[c].profile # q
                       /\ q \notin erasing /\ amiss[q] \cap {"kept", "cut"} = {} =>
                             envelope[q] = None
    BY <1>0 DEF RemovedOK, Of, Live, CreateProfile
  <2>1. q # p
    BY <1>4 DEF Made
  <2>2. Of(session, q) = {} /\ \A c \in Tabs : job[c].profile # q
    BY <2>1, <1>4 DEF RemovedOK
  <2>3. Of(session', q) = {}
    BY <2>1, <2>2, <1>5 DEF Of, Live
  <2>4. stored.profile = p
    BY CreateFacts
  <2>5. q \notin erasing /\ amiss[q] \cap {"kept", "cut"} = {} => envelope[q] = None
    BY <2>1, <1>4 DEF RemovedOK
  <2>. QED  BY <2>1, <2>2, <2>3, <2>4, <2>5, <1>5, Constants
<1>. QED  BY <1>6, <1>7, <1>8, <1>9, <1>10

\* vault.remove: an envelope goes or stays.
LEMMA ErasesFacts ==
    ASSUME StoreTypes, NEW p \in Profiles, Erases(p)
    PROVE  /\ envelope' \in [Profiles -> Credentials \cup {None}]
           /\ amiss' \in [Profiles -> SUBSET Marks]
           /\ \A q \in Profiles : /\ envelope'[q] \in {envelope[q], None}
                                  /\ amiss[q] \subseteq amiss'[q]
           /\ \A q \in Profiles : q # p => envelope'[q] = envelope[q] /\ amiss'[q] = amiss[q]
           /\ envelope'[p] = None \/ "kept" \in amiss'[p]
<1>1. CASE envelope' = [envelope EXCEPT ![p] = None] /\ amiss' = amiss
  BY <1>1 DEF StoreTypes
<1>2. CASE envelope' = envelope /\ amiss' = Marked(p, "kept")
  <2>1. amiss' = [amiss EXCEPT ![p] = amiss[p] \cup {"kept"}]
    BY <1>2 DEF Marked
  <2>2. amiss' \in [Profiles -> SUBSET Marks] /\ "kept" \in amiss'[p]
    BY <2>1 DEF StoreTypes, Marks
  <2>. QED  BY <1>2, <2>1, <2>2 DEF StoreTypes
<1>. QED  BY <1>1, <1>2 DEF Erases

LEMMA ReplaceHolds == ASSUME IInv, NEW b \in Tabs, Replace(b) PROVE IInv'
<1>. USE TabsStay DEF IInv
<1>. DEFINE p == job[b].profile
            pc == IF job[b].persist THEN "store" ELSE "update"
            j == [job[b] EXCEPT !.pc = pc]
<1>1. p \in Profiles /\ job[b].token \in Credentials /\ AccountOf[job[b].token] = profile[p].account
  BY Named DEF Replace, Replacing, Matches, JobsOK, Fits
<1>2. j \in JobType /\ j.profile = p /\ j.token = job[b].token /\ j.pc = pc
  BY DEF RequestTypes, JobType
<1>3. Fits(j)
  BY <1>1, <1>2, Constants DEF Fits
<1>4. job' \in [Tabs -> JobType] /\ \A c \in Tabs : job'[c] = IF c = b THEN j ELSE job[c]
  <2>1. job' = [job EXCEPT ![b] = j]
    BY DEF Replace, Replacing
  <2>. QED  BY <2>1, <1>2 DEF RequestTypes
<1>5. /\ envelope' \in [Profiles -> Credentials \cup {None}]
      /\ amiss' \in [Profiles -> SUBSET Marks]
      /\ \A q \in Profiles : envelope'[q] \in {envelope[q], None} /\ amiss[q] \subseteq amiss'[q]
  BY <1>1, ErasesFacts DEF Replace
<1>6. /\ session' \in [Sessions -> SessionType]
      /\ \A s \in Sessions : session'[s] \in {session[s], None}
  BY <1>1, DestroyedIsLess DEF Replace, Replacing
<1>7. StoreTypes' /\ RequestTypes'
  BY <1>4, <1>5, <1>6 DEF StoreTypes, RequestTypes, Replace, Replacing
<1>8. Gentle
  BY <1>2, <1>3, <1>4, <1>5, <1>6 DEF Gentle, Replace, Replacing
<1>. QED  BY <1>7, <1>8, GentleHolds DEF Replace, Replacing

LEMMA StoreHolds == ASSUME IInv, NEW b \in Tabs, Store(b) PROVE IInv'
<1>. USE TabsStay DEF IInv
<1>. DEFINE p == job[b].profile
            j == [job[b] EXCEPT !.pc = "update"]
<1>1. p \in Profiles /\ job[b].token \in Credentials /\ AccountOf[job[b].token] = profile[p].account
  BY Named DEF Store, JobsOK, Fits
<1>2. j \in JobType /\ j.profile = p /\ Fits(j)
  BY <1>1, Constants DEF RequestTypes, JobType, JobsOK, Fits
<1>3. /\ envelope' \in [Profiles -> Credentials \cup {None}]
      /\ \A q \in Profiles : envelope'[q] = IF q = p THEN job[b].token ELSE envelope[q]
  BY <1>1 DEF Store, StoreTypes
<1>4. /\ session' \in [Sessions -> SessionType] /\ job' \in [Tabs -> JobType]
      /\ \A s \in Sessions : session'[s] \in {session[s], [token |-> job[b].token, profile |-> p]}
      /\ \A c \in Tabs : Proceeds(c)
  <2>1. session \in [Sessions -> SessionType]
    BY DEF StoreTypes
  <2>2. CASE job[b].kind = "create"
    <3>1. Opens(b, session, p, "answered") /\ job[b].pc = "store"
      BY <2>2 DEF Store
    <3>2. /\ session' \in [Sessions -> SessionType] /\ job' \in [Tabs -> JobType]
          /\ \A s \in Sessions : session'[s] \in {session[s], [token |-> job[b].token, profile |-> p]}
          /\ \A c \in Tabs : c # b => job'[c] = job[c]
          /\ job'[b].profile = None /\ Fits(job'[b])
      BY <1>1, <2>1, <3>1, OpensFacts
    <3>3. Proceeds(b)
      BY <3>2 DEF Proceeds
    <3>. QED  BY <3>2, <3>3, OneJob
  <2>3. CASE job[b].kind # "create"
    <3>1. job' = [job EXCEPT ![b] = j] /\ session' = session
      BY <2>3 DEF Store
    <3>2. job' \in [Tabs -> JobType] /\ job'[b] = j /\ \A c \in Tabs : c # b => job'[c] = job[c]
      BY <3>1, <1>2 DEF RequestTypes
    <3>3. Proceeds(b)
      BY <1>2, <3>2 DEF Proceeds
    <3>4. \A s \in Sessions : session'[s] \in {session[s], [token |-> job[b].token, profile |-> p]}
      BY <3>1
    <3>. QED  BY <2>1, <3>1, <3>2, <3>3, <3>4, OneJob
  <2>. QED  BY <2>2, <2>3
<1>5. StoreTypes' /\ RequestTypes'
  BY <1>3, <1>4 DEF StoreTypes, RequestTypes, Store
<1>6. Gentle
  BY <1>1, <1>3, <1>4 DEF Gentle, Proceeds, Store
<1>. QED  BY <1>5, <1>6, GentleHolds DEF Store

LEMMA StoreFailsHolds == ASSUME IInv, NEW b \in Tabs, StoreFails(b) PROVE IInv'
<1>. USE DEF IInv
<1>1. job[b].profile \in Profiles
  BY Named DEF StoreFails, JobsOK, Fits
<1>2. Unstored(b) \in JobType /\ Fits(Unstored(b)) /\ Unstored(b).profile = job[b].profile
  BY <1>1 DEF StoreFails, Unstored, RequestTypes, JobType, JobsOK, Fits
<1>3. amiss' \in [Profiles -> SUBSET Marks] /\ \A p \in Profiles : amiss[p] \subseteq amiss'[p]
  BY <1>1 DEF StoreFails, Marked, Marks, StoreTypes
<1>. QED  BY <1>2, <1>3, JobHolds DEF StoreFails

LEMMA ResumeHolds == ASSUME IInv, NEW b \in Tabs, Resume(b) PROVE IInv'
<1>. USE TabsStay DEF IInv
<1>. DEFINE p == job[b].profile
            ss == Destroyed(session, p)
<1>1. p \in Profiles /\ job[b].token \in Credentials /\ AccountOf[job[b].token] = profile[p].account
  BY Named DEF Resume, JobsOK, Fits
<1>2. ss \in [Sessions -> SessionType] /\ \A s \in Sessions : ss[s] \in {session[s], None}
  BY <1>1, DestroyedIsLess
<1>3. /\ session' \in [Sessions -> SessionType] /\ job' \in [Tabs -> JobType]
      /\ \A s \in Sessions : session'[s] \in {ss[s], [token |-> job[b].token, profile |-> p]}
      /\ \A c \in Tabs : c # b => job'[c] = job[c]
      /\ \/ job'[b].profile = None /\ Fits(job'[b])
         \/ /\ job'[b].profile = p /\ job'[b].token = job[b].token /\ job'[b].pc = "update"
  BY <1>1, <1>2, OpensFacts DEF Resume
<1>4. \A c \in Tabs : Proceeds(c)
  <2>1. CASE job'[b].profile = None /\ Fits(job'[b])
    <3>1. Proceeds(b)
      BY <2>1 DEF Proceeds
    <3>. QED  BY <1>3, <3>1, OneJob
  <2>2. CASE job'[b].profile = p /\ job'[b].token = job[b].token /\ job'[b].pc = "update"
    <3>1. Fits(job'[b])
      BY <1>1, <2>2, Constants DEF Fits
    <3>2. Proceeds(b)
      BY <2>2, <3>1 DEF Proceeds
    <3>. QED  BY <1>3, <3>2, OneJob
  <2>. QED  BY <1>3, <2>1, <2>2
<1>5. StoreTypes' /\ RequestTypes'
  BY <1>3 DEF StoreTypes, RequestTypes, Resume
<1>6. Gentle
  BY <1>1, <1>2, <1>3, <1>4 DEF Gentle, Proceeds, Resume
<1>. QED  BY <1>5, <1>6, GentleHolds DEF Resume

LEMMA ModeFacts ==
    ASSUME StoreTypes, NEW p \in Profiles, profile[p].saved, NEW persist \in BOOLEAN,
           profile' = [profile EXCEPT ![p].mode = Mode(persist)]
    PROVE  /\ profile' \in [Profiles -> ProfileType]
           /\ \A q \in Profiles : /\ profile'[q].account = profile[q].account
                                  /\ profile'[q].saved = profile[q].saved
                                  /\ profile[q] = Unused => profile'[q] = Unused
<1>1. profile[p] # Unused
  BY DEF Unused
<1>2. [profile[p] EXCEPT !.mode = Mode(persist)] \in ProfileType
  BY DEF StoreTypes, ProfileType, Mode, Modes
<1>. QED  BY <1>1, <1>2 DEF StoreTypes, ProfileType

LEMMA UpdateHolds == ASSUME IInv, NEW b \in Tabs, Update(b) PROVE IInv'
<1>. USE TabsStay DEF IInv
<1>. DEFINE p == job[b].profile
<1>1. p \in Profiles /\ job[b].token \in Credentials /\ AccountOf[job[b].token] = profile[p].account
  BY Named DEF Update, JobsOK, Fits
<1>2. CASE job' = [job EXCEPT ![b] = Refusal] /\ UNCHANGED <<profile, session>>
  BY <1>2, JobHolds, JobValues DEF Update, StoreTypes
<1>3. CASE job' = [job EXCEPT ![b] = Answer(job[b].session)] /\ UNCHANGED <<profile, session>>
  <2>1. job[b].session \in Sessions \cup {None}
    BY DEF RequestTypes, JobType
  <2>. QED  BY <1>3, <2>1, JobHolds, JobValues DEF Update, StoreTypes
<1>4. CASE /\ profile[p].saved
           /\ profile' = [profile EXCEPT ![p].mode = Mode(job[b].persist)]
           /\ Opens(b, session, p, "answered")
  <2>1. job[b].persist \in BOOLEAN /\ session \in [Sessions -> SessionType]
    BY DEF RequestTypes, JobType, StoreTypes
  <2>2. /\ profile' \in [Profiles -> ProfileType]
        /\ \A q \in Profiles : /\ profile'[q].account = profile[q].account
                               /\ profile'[q].saved = profile[q].saved
                               /\ profile[q] = Unused => profile'[q] = Unused
    BY <1>1, <1>4, <2>1, ModeFacts
  <2>3. job[b].pc = "update"
    BY DEF Update
  <2>4. /\ session' \in [Sessions -> SessionType] /\ job' \in [Tabs -> JobType]
        /\ \A s \in Sessions : session'[s] \in {session[s], [token |-> job[b].token, profile |-> p]}
        /\ \A c \in Tabs : c # b => job'[c] = job[c]
        /\ job'[b].profile = None /\ Fits(job'[b])
    BY <1>1, <1>4, <2>1, <2>3, OpensFacts
  <2>5. StoreTypes' /\ RequestTypes'
    BY <2>2, <2>4 DEF StoreTypes, RequestTypes, Update
  <2>6. \A c \in Tabs : Proceeds(c)
    <3>1. Proceeds(b)
      BY <2>4 DEF Proceeds
    <3>. QED  BY <2>4, <3>1, OneJob
  <2>7. Gentle
    <3>1. UNCHANGED <<envelope, amiss>>
      BY DEF Update
    <3>2. \A s \in Sessions : session'[s] \in {session[s], [token |-> job[b].token, profile |-> p]}
      BY <2>4
    <3>. QED  BY <1>1, <2>2, <2>6, <3>1, <3>2 DEF Gentle, Proceeds
  <2>. QED  BY <2>5, <2>7, GentleHolds DEF Update
<1>. QED  BY <1>2, <1>3, <1>4 DEF Update

LEMMA EstablishingHolds == ASSUME IInv, NEW b \in Tabs, Establishing(b) PROVE IInv'
BY RefuseHolds, ConnectHolds, FindAccountHolds, CreateProfileHolds, ReplaceHolds, StoreHolds,
   StoreFailsHolds, ResumeHolds, UpdateHolds DEF Establishing

-----------------------------------------------------------------------------
(* The panel's requests and the sessions' ends.                            *)

\* Only toggles, envelopes and marks change.
LEMMA StartToggleHolds ==
    ASSUME IInv, NEW d \in Panels, NEW p \in Profiles, NEW on \in BOOLEAN, StartToggle(d, p, on)
    PROVE  IInv'
<1>. USE TabsStay DEF IInv
<1>1. [pc |-> "begun", profile |-> p, on |-> on] \in ToggleType
  BY DEF ToggleType
<1>2. StoreTypes' /\ RequestTypes'
  BY <1>1 DEF StoreTypes, RequestTypes, StartToggle
<1>3. Gentle
  BY DEF Gentle, StartToggle
<1>. QED  BY <1>2, <1>3, GentleHolds DEF StartToggle

\* A toggle that is under way names a connection and may go on to its update.
LEMMA ToggleFacts ==
    ASSUME RequestTypes, NEW d \in Panels, toggle[d].pc # "none"
    PROVE  /\ toggle[d].profile \in Profiles /\ toggle[d].on \in BOOLEAN
           /\ [toggle EXCEPT ![d].pc = "update"] \in [Panels -> ToggleType]
           /\ [toggle EXCEPT ![d] = NoToggle] \in [Panels -> ToggleType]
<1>1. toggle[d] \in [pc : {"begun", "update"}, profile : Profiles, on : BOOLEAN]
  BY DEF RequestTypes, ToggleType, NoToggle
<1>2. [toggle[d] EXCEPT !.pc = "update"] \in ToggleType /\ NoToggle \in ToggleType
  BY <1>1 DEF ToggleType
<1>. QED  BY <1>1, <1>2 DEF RequestTypes

LEMMA PersistOnHolds == ASSUME IInv, NEW d \in Panels, PersistOn(d) PROVE IInv'
<1>. USE TabsStay DEF IInv
<1>. DEFINE p == toggle[d].profile
<1>1. p \in Profiles /\ toggle' \in [Panels -> ToggleType]
  BY ToggleFacts DEF PersistOn, Toggled
<1>2. \/ envelope' = envelope
      \/ \E s \in Of(session, p) : envelope' = [envelope EXCEPT ![p] = session[s].token]
  BY DEF PersistOn
<1>3. \A s \in Of(session, p) : session[s].token \in Credentials \cup {None}
  BY DEF StoreTypes, SessionType, Of, Live
<1>4. /\ envelope' \in [Profiles -> Credentials \cup {None}]
      /\ \A q \in Profiles : \/ envelope'[q] = envelope[q]
                             \/ \E s \in Of(session, q) : envelope'[q] = session[s].token
  BY <1>1, <1>2, <1>3 DEF StoreTypes
<1>5. StoreTypes' /\ RequestTypes'
  BY <1>1, <1>4 DEF StoreTypes, RequestTypes, PersistOn
<1>6. Gentle
  BY <1>4 DEF Gentle, PersistOn
<1>. QED  BY <1>5, <1>6, GentleHolds DEF PersistOn

LEMMA PersistOffHolds == ASSUME IInv, NEW d \in Panels, PersistOff(d) PROVE IInv'
<1>. USE TabsStay DEF IInv
<1>1. toggle[d].profile \in Profiles /\ toggle' \in [Panels -> ToggleType]
  BY ToggleFacts DEF PersistOff, Toggled
<1>2. /\ envelope' \in [Profiles -> Credentials \cup {None}]
      /\ amiss' \in [Profiles -> SUBSET Marks]
      /\ \A q \in Profiles : envelope'[q] \in {envelope[q], None} /\ amiss[q] \subseteq amiss'[q]
  BY <1>1, ErasesFacts DEF PersistOff
<1>3. StoreTypes' /\ RequestTypes'
  BY <1>1, <1>2 DEF StoreTypes, RequestTypes, PersistOff
<1>4. Gentle
  BY <1>2 DEF Gentle, PersistOff
<1>. QED  BY <1>3, <1>4, GentleHolds DEF PersistOff

LEMMA PersistUpdateHolds == ASSUME IInv, NEW d \in Panels, PersistUpdate(d) PROVE IInv'
<1>. USE TabsStay DEF IInv
<1>. DEFINE p == toggle[d].profile
<1>1. p \in Profiles /\ toggle[d].on \in BOOLEAN /\ toggle' \in [Panels -> ToggleType]
  BY ToggleFacts DEF PersistUpdate
<1>2. /\ profile' \in [Profiles -> ProfileType]
      /\ \A q \in Profiles : /\ profile'[q].account = profile[q].account
                             /\ profile'[q].saved = profile[q].saved
                             /\ profile[q] = Unused => profile'[q] = Unused
  <2>1. CASE profile[p].saved
    <3>1. profile' = [profile EXCEPT ![p].mode = Mode(toggle[d].on)]
      BY <2>1 DEF PersistUpdate
    <3>. QED  BY <1>1, <2>1, <3>1, ModeFacts
  <2>2. CASE ~profile[p].saved
    BY <2>2 DEF PersistUpdate, StoreTypes
  <2>. QED  BY <2>1, <2>2
<1>3. StoreTypes' /\ RequestTypes'
  BY <1>1, <1>2 DEF StoreTypes, RequestTypes, PersistUpdate
<1>4. Gentle
  BY <1>2 DEF Gentle, PersistUpdate
<1>. QED  BY <1>3, <1>4, GentleHolds DEF PersistUpdate

LEMMA PanelHolds == ASSUME IInv, NEW d \in Panels, Panel(d) PROVE IInv'
BY StartToggleHolds, PersistOnHolds, PersistOffHolds, PersistUpdateHolds DEF Panel

\* A session that is revoked, as every end of one.
LEMMA RevokedIsLess ==
    ASSUME StoreTypes, NEW r
    PROVE  /\ [session EXCEPT ![r] = None] \in [Sessions -> SessionType]
           /\ \A s \in Sessions : [session EXCEPT ![r] = None][s] \in {session[s], None}
BY DEF StoreTypes, SessionType

LEMMA ExpireHolds == ASSUME IInv, NEW s \in Sessions, Expire(s) PROVE IInv'
BY RevokedIsLess, EndingHolds DEF Expire, IInv

LEMMA DisplacedHolds == ASSUME IInv, NEW b \in Tabs, Displaced(b) PROVE IInv'
BY RevokedIsLess, EndingHolds DEF Displaced, Revoked, IInv, StoreTypes

LEMMA WithdrawnHolds == ASSUME IInv, NEW b \in Tabs, Withdrawn(b) PROVE IInv'
BY RevokedIsLess, EndingHolds DEF Withdrawn, Revoked, IInv, StoreTypes

LEMMA DisconnectedHolds == ASSUME IInv, NEW b \in Tabs, Disconnected(b) PROVE IInv'
<1>1. \/ session' = session
      \/ session' = [session EXCEPT ![tab[b].leaving] = None]
  BY DEF Disconnected
<1>. QED  BY <1>1, RevokedIsLess, EndingHolds DEF Disconnected, IInv, StoreTypes

LEMMA DisconnectConnectionHolds ==
    ASSUME IInv, NEW p \in Profiles, DisconnectConnection(p) PROVE IInv'
BY DestroyedIsLess, EndingHolds DEF DisconnectConnection, IInv

\* Only managers move.
LEMMA ServerStays == ASSUME IInv, UNCHANGED server PROVE IInv'
<1>. USE TabsStay DEF IInv, server
<1>1. StoreTypes' /\ RequestTypes'
  BY DEF StoreTypes, RequestTypes
<1>2. Gentle
  BY DEF Gentle
<1>. QED  BY <1>1, <1>2, GentleHolds

-----------------------------------------------------------------------------
(* The tabs' requests.                                                     *)

LEMMA EstablishHolds ==
    ASSUME IInv, NEW b \in Tabs, NEW kind \in {"bare", "create", "reconnect", "resume"},
           NEW p \in Profiles \cup {None}, NEW x \in Credentials, NEW persist \in BOOLEAN,
           Establish(b, kind, p, x, persist),
           kind \in {"reconnect", "resume"} => p # None,
           p # None => profile[p].saved,
           kind = "resume" => AccountOf[x] = profile[p].account
    PROVE  IInv'
<1>. DEFINE j == [NoJob EXCEPT !.pc = "identify", !.kind = kind, !.profile = p,
                               !.token = x, !.persist = persist]
<1>1. j \in JobType /\ j.pc = "identify" /\ j.kind = kind /\ j.profile = p /\ j.token = x
  BY DEF NoJob, JobType
<1>2. Fits(j)
  BY <1>1 DEF Fits
<1>3. amiss' \in [Profiles -> SUBSET Marks] /\ \A q \in Profiles : amiss[q] \subseteq amiss'[q]
  BY DEF Establish, Marked, Marks, IInv, StoreTypes
<1>4. job' = [job EXCEPT ![b] = j]
  BY DEF Establish
<1>. QED  BY <1>1, <1>2, <1>3, <1>4, JobHolds DEF Establish

LEMMA AskingHolds == ASSUME IInv, NEW b \in Tabs, Asking(b) PROVE IInv'
<1>1. Tokens \subseteq Credentials
  BY Constants DEF IInv, RequestTypes, Tokens
<1>2. CASE ConnectToken(b)
  BY <1>1, <1>2, EstablishHolds DEF ConnectToken
<1>3. CASE ConnectProfile(b)
  <2>. PICK x \in Tokens, persist \in BOOLEAN : Establish(b, "create", None, x, persist)
    BY <1>3 DEF ConnectProfile
  <2>. QED  BY <1>1, EstablishHolds
<1>4. CASE ReconnectProfile(b)
  <2>. PICK p \in Profiles, x \in Tokens, persist \in BOOLEAN :
           profile[p].saved /\ Establish(b, "reconnect", p, x, persist)
    BY <1>4 DEF ReconnectProfile
  <2>. QED  BY <1>1, Constants, EstablishHolds
<1>5. CASE ResumeProfile(b)
  <2>. PICK p \in Profiles : /\ profile[p].saved
                             /\ envelope[p] # None
                             /\ Establish(b, "resume", p, envelope[p], TRUE)
    BY <1>5 DEF ResumeProfile
  <2>1. envelope[p] \in Credentials /\ AccountOf[envelope[p]] = profile[p].account
    BY DEF IInv, StoreTypes, AccountBound
  <2>. QED  BY <2>1, Constants, EstablishHolds
<1>6. CASE Unheard(b)
  BY <1>6, JobHolds, JobValues DEF Unheard, IInv, StoreTypes
<1>. QED  BY <1>2, <1>3, <1>4, <1>5, <1>6 DEF Asking

LEMMA ManagerHolds == ASSUME IInv, NEW b \in Tabs, Manager(b) PROVE IInv'
<1>1. CASE Heard(b)
  BY <1>1, JobHolds, JobValues DEF Heard, IInv, StoreTypes
<1>2. CASE Disconnect(b) \/ Restore(b) \/ Restored(b) \/ TabGone(b)
  BY <1>2, ServerStays DEF Disconnect, Restore, Restored, TabGone
<1>. QED  BY <1>1, <1>2, DisplacedHolds, WithdrawnHolds, DisconnectedHolds DEF Manager

-----------------------------------------------------------------------------
(* Connections that go, and the server's restart.                          *)

LEMMA RemoveConnectionHolds ==
    ASSUME IInv, NEW p \in Profiles, RemoveConnection(p) PROVE IInv'
<1>. USE TabsStay DEF IInv
<1>0. Tabs' = Tabs /\ UNCHANGED <<job, envelope>>
  BY DEF RemoveConnection
<1>1. /\ profile' \in [Profiles -> ProfileType]
      /\ ~profile'[p].saved
      /\ \A q \in Profiles : profile'[q].account = profile[q].account
      /\ \A q \in Profiles : q # p => profile'[q] = profile[q]
  BY DEF RemoveConnection, StoreTypes, ProfileType
<1>2. /\ session' \in [Sessions -> SessionType]
      /\ \A s \in Sessions : session'[s] \in {session[s], None}
      /\ Of(session', p) = {}
  <2>1. session' = Destroyed(session, p)
    BY DEF RemoveConnection
  <2>2. Of(session', p) = {}
    BY <2>1 DEF Destroyed, Of, Live
  <2>. QED  BY <2>1, <2>2, DestroyedIsLess
<1>3. /\ amiss' \in [Profiles -> SUBSET Marks]
      /\ \A q \in Profiles : q # p => amiss'[q] = amiss[q]
      /\ Others(p) => "late" \in amiss'[p]
  <2>1. amiss' = amiss \/ amiss' = Marked(p, "late")
    BY DEF RemoveConnection
  <2>2. Others(p) => amiss' = Marked(p, "late")
    BY DEF RemoveConnection
  <2>. QED  BY <2>1, <2>2 DEF StoreTypes, Marked, Marks
<1>4. StoreTypes' /\ RequestTypes'
  BY <1>1, <1>2, <1>3 DEF StoreTypes, RequestTypes, RemoveConnection
<1>5. JobsOK'
  <2>. SUFFICES ASSUME NEW b \in Tabs PROVE Fits(job[b])'
    BY <1>0 DEF JobsOK
  <2>1. Fits(job[b]) /\ job[b].profile \in Profiles \cup {None}
    BY DEF JobsOK, RequestTypes, JobType
  <2>. QED  BY <1>0, <1>1, <2>1 DEF Fits
<1>6. UnusedOK'
  <2>. SUFFICES ASSUME NEW q \in Profiles, profile'[q].account = None
                PROVE  /\ profile'[q] = Unused /\ envelope'[q] = None /\ Of(session', q) = {}
                       /\ \A b \in Tabs : job'[b].profile # q
    BY <1>0 DEF UnusedOK, Of, Live
  <2>1. profile[q] = Unused /\ envelope[q] = None /\ Of(session, q) = {}
        /\ \A b \in Tabs : job[b].profile # q
    BY <1>1 DEF UnusedOK
  <2>2. q # p
    BY <2>1 DEF RemoveConnection, Unused
  <2>3. Of(session', q) = {}
    BY <2>1, <1>2 DEF Of, Live
  <2>. QED  BY <2>1, <2>2, <2>3, <1>0, <1>1
<1>7. AccountBound'
  BY <1>0, <1>1, <1>2 DEF AccountBound, Live
<1>8. RemovedOK'
  <2>. SUFFICES ASSUME NEW q \in Profiles, profile'[q] # Unused, ~profile'[q].saved,
                       "late" \notin amiss'[q]
                PROVE  /\ Of(session', q) = {}
                       /\ \A b \in Tabs : job'[b].profile # q
                       /\ q \notin erasing' /\ amiss'[q] \cap {"kept", "cut"} = {} =>
                             envelope'[q] = None
    BY <1>0 DEF RemovedOK, Of, Live
  <2>1. CASE q = p
    <3>1. \A b \in Tabs : ~Working(b) \/ job[b].profile # p
      BY <2>1, <1>3 DEF Others
    <3>2. \A b \in Tabs : ~Working(b) => job[b].profile # p
      BY Constants DEF Working, JobsOK, Fits
    <3>3. p \in erasing'
      BY DEF RemoveConnection
    <3>. QED  BY <2>1, <3>1, <3>2, <3>3, <1>0, <1>2
  <2>2. CASE q # p
    <3>1. profile[q] # Unused /\ ~profile[q].saved /\ amiss'[q] = amiss[q]
      BY <2>2, <1>1, <1>3
    <3>2. /\ Of(session, q) = {}
          /\ \A b \in Tabs : job[b].profile # q
          /\ q \notin erasing /\ amiss[q] \cap {"kept", "cut"} = {} => envelope[q] = None
      BY <3>1 DEF RemovedOK
    <3>3. Of(session', q) = {}
      BY <3>2, <1>2 DEF Of, Live
    <3>4. q \in erasing' <=> q \in erasing
      BY <2>2 DEF RemoveConnection
    <3>. QED  BY <3>1, <3>2, <3>3, <3>4, <1>0
  <2>. QED  BY <2>1, <2>2
<1>. QED  BY <1>4, <1>5, <1>6, <1>7, <1>8

LEMMA EraseEnvelopeHolds ==
    ASSUME IInv, NEW p \in Profiles, EraseEnvelope(p) PROVE IInv'
<1>. USE TabsStay DEF IInv
<1>0. Tabs' = Tabs /\ UNCHANGED <<job, profile, session>>
  BY DEF EraseEnvelope
<1>1. /\ envelope' \in [Profiles -> Credentials \cup {None}]
      /\ amiss' \in [Profiles -> SUBSET Marks]
      /\ \A q \in Profiles : envelope'[q] \in {envelope[q], None}
      /\ \A q \in Profiles : amiss[q] \subseteq amiss'[q]
      /\ envelope'[p] = None \/ "kept" \in amiss'[p]
  BY ErasesFacts DEF EraseEnvelope
<1>2. StoreTypes' /\ RequestTypes'
  BY <1>1 DEF StoreTypes, RequestTypes, EraseEnvelope
<1>3. JobsOK'
  BY <1>0 DEF JobsOK, Fits
<1>4. UnusedOK' /\ AccountBound'
  BY <1>0, <1>1 DEF UnusedOK, AccountBound, Of, Live
<1>5. RemovedOK'
  <2>. SUFFICES ASSUME NEW q \in Profiles, profile[q] # Unused, ~profile[q].saved,
                       "late" \notin amiss'[q]
                PROVE  /\ Of(session, q) = {}
                       /\ \A b \in Tabs : job[b].profile # q
                       /\ q \notin erasing' /\ amiss'[q] \cap {"kept", "cut"} = {} =>
                             envelope'[q] = None
    BY <1>0 DEF RemovedOK, Of, Live
  <2>1. /\ Of(session, q) = {}
        /\ \A b \in Tabs : job[b].profile # q
        /\ q \notin erasing /\ amiss[q] \cap {"kept", "cut"} = {} => envelope[q] = None
    BY <1>1 DEF RemovedOK
  <2>2. ASSUME q \notin erasing', amiss'[q] \cap {"kept", "cut"} = {} PROVE envelope'[q] = None
    <3>1. CASE q = p
      BY <2>2, <3>1, <1>1
    <3>2. CASE q # p
      <4>1. q \notin erasing
        BY <2>2, <3>2 DEF EraseEnvelope
      <4>2. amiss[q] \cap {"kept", "cut"} = {}
        BY <2>2, <1>1
      <4>. QED  BY <4>1, <4>2, <2>1, <1>1
    <3>. QED  BY <3>1, <3>2
  <2>. QED  BY <2>1, <2>2
<1>. QED  BY <1>2, <1>3, <1>4, <1>5

\* The stores stay as they are; what was halfway is marked.
LEMMA RestartHolds == ASSUME IInv, Restart PROVE IInv'
<1>. USE TabsStay DEF IInv
<1>0. Tabs' = Tabs /\ Panels' = Panels /\ UNCHANGED <<profile, envelope>>
  BY DEF Restart
<1>1. session' \in [Sessions -> SessionType] /\ \A q \in Profiles : Of(session', q) = {}
  BY DEF Restart, SessionType, Of, Live
<1>2. job' \in [Tabs -> JobType] /\ \A b \in Tabs : job'[b] \in {NoJob, Refusal}
  BY JobValues DEF Restart
<1>3. \A b \in Tabs : job'[b].profile = None
  BY <1>2, JobValues
<1>4. toggle' \in [Panels -> ToggleType]
  BY DEF Restart, ToggleType
<1>5. /\ amiss' \in [Profiles -> SUBSET Marks]
      /\ \A q \in Profiles : amiss[q] \subseteq amiss'[q]
      /\ \A q \in Profiles : q \in erasing => "cut" \in amiss'[q]
  BY DEF Restart, Halfway, StoreTypes, Marks
<1>6. StoreTypes' /\ RequestTypes'
  BY <1>0, <1>1, <1>2, <1>4, <1>5 DEF StoreTypes, RequestTypes, Restart
<1>7. JobsOK'
  BY <1>0, <1>2 DEF JobsOK, Fits, NoJob, Refusal
<1>8. UnusedOK'
  BY <1>0, <1>1, <1>3, Constants DEF UnusedOK
<1>9. AccountBound'
  BY <1>0 DEF AccountBound, Live, Restart
<1>10. RemovedOK'
  <2>. SUFFICES ASSUME NEW q \in Profiles, profile[q] # Unused, ~profile[q].saved,
                       "late" \notin amiss'[q], amiss'[q] \cap {"kept", "cut"} = {}
                PROVE  envelope[q] = None
    BY <1>0, <1>1, <1>3, Constants DEF RemovedOK
  <2>1. q \notin erasing
    BY <1>5
  <2>2. "late" \notin amiss[q] /\ amiss[q] \cap {"kept", "cut"} = {}
    BY <1>5
  <2>. QED  BY <2>1, <2>2 DEF RemovedOK
<1>. QED  BY <1>6, <1>7, <1>8, <1>9, <1>10

-----------------------------------------------------------------------------
(* The theorems.                                                           *)

LEMMA StepHolds == ASSUME IInv, [Next]_vars PROVE IInv'
<1>1. CASE UNCHANGED vars
  BY <1>1, ServerStays DEF vars
<1>2. CASE \E b \in Tabs : Establishing(b) \/ Asking(b)
  BY <1>2, EstablishingHolds, AskingHolds
<1>3. CASE \E d \in Panels : Panel(d)
  BY <1>3, PanelHolds
<1>4. CASE \E b \in Managed : Manager(b)
  <2>1. Managed \subseteq Tabs
    BY Constants DEF IInv, RequestTypes, Managed, Tabs
  <2>. QED  BY <1>4, <2>1, ManagerHolds
<1>5. CASE \E p \in Profiles : DisconnectConnection(p) \/ RemoveConnection(p) \/ EraseEnvelope(p)
  BY <1>5, DisconnectConnectionHolds, RemoveConnectionHolds, EraseEnvelopeHolds
<1>6. CASE \E s \in Sessions : Expire(s)
  BY <1>6, ExpireHolds
<1>7. CASE Restart
  BY <1>7, RestartHolds
<1>. QED  BY <1>1, <1>2, <1>3, <1>4, <1>5, <1>6, <1>7 DEF Next

LEMMA Invariance == Spec => []IInv
<1>. QED  BY InitHolds, StepHolds, PTL DEF Spec

\* No overlap of requests, failure of a write or restart leaves a connection with
\* a session or an envelope of an account that is not its own: every token that
\* server/connections.mjs or credentials.mjs comes to hold for it was checked.
THEOREM ConnectionsKeepTheirAccount == Spec => []AccountBound
<1>1. IInv => AccountBound
  BY DEF IInv
<1>. QED  BY <1>1, Invariance, PTL

\* A removal that overtook no request leaves nothing behind, whatever begins
\* after it and in whatever order the queues write: no session of the connection
\* is ever opened again and no envelope of it sealed.
THEOREM RemovalForgets == Spec => []RemovedIsForgotten
<1>1. IInv => RemovedIsForgotten
  BY DEF IInv, RemovedOK, RemovedIsForgotten
<1>. QED  BY <1>1, Invariance, PTL

-----------------------------------------------------------------------------
(* The session managers of the tabs.                                       *)

LEMMA TabHolds ==
    ASSUME TabTypes, ManagersOK, setting' = setting, NEW b \in Tabs,
           NEW t \in TabType, Steady(t), tab' = [tab EXCEPT ![b] = t]
    PROVE  TabTypes' /\ ManagersOK'
<1>1. tab' \in [Tabs -> TabType]
  BY DEF TabTypes
<1>2. \A c \in Tabs : tab'[c] = IF c = b THEN t ELSE tab[c]
  BY DEF TabTypes
<1>3. \A c \in Tabs : Steady(tab'[c])
  BY <1>2 DEF ManagersOK, Steady
<1>. QED  BY <1>1, <1>3, TabsStay DEF TabTypes, ManagersOK, Steady

LEMMA TabStays ==
    ASSUME TabTypes, ManagersOK, UNCHANGED <<setting, tab>> PROVE TabTypes' /\ ManagersOK'
BY TabsStay DEF TabTypes, ManagersOK, Steady

LEMMA AskingKeepsManagers ==
    ASSUME TabTypes, ManagersOK, NEW b \in Tabs, Asking(b) PROVE TabTypes' /\ ManagersOK'
<1>. DEFINE asked == [tab[b] EXCEPT !.pc = "asked", !.stale = FALSE,
                                    !.old = IF tab[b].revocable THEN tab[b].shown ELSE None]
            idle == [tab[b] EXCEPT !.pc = "idle", !.old = None]
<1>1. ASSUME NEW kind, NEW p, NEW x, NEW persist, Establish(b, kind, p, x, persist)
      PROVE  TabTypes' /\ ManagersOK'
  <2>1. asked \in TabType
    BY DEF TabTypes, TabType
  <2>2. Steady(tab[b]) /\ tab[b].asks = None
    BY <1>1 DEF ManagersOK, Establish, Busy
  <2>3. Steady(asked)
    BY <2>2 DEF Steady, TabTypes, TabType
  <2>4. tab' = [tab EXCEPT ![b] = asked] /\ setting' = setting
    BY <1>1 DEF Establish
  <2>. QED  BY <2>1, <2>3, <2>4, TabHolds
<1>2. CASE Unheard(b)
  <2>1. idle \in TabType
    BY DEF TabTypes, TabType
  <2>2. Steady(tab[b])
    BY DEF ManagersOK
  <2>3. Steady(idle)
    BY <2>2 DEF Steady, TabTypes, TabType
  <2>4. tab' = [tab EXCEPT ![b] = idle] \/ tab' = tab
    BY <1>2 DEF Unheard
  <2>. QED  BY <1>2, <2>1, <2>3, <2>4, TabHolds, TabStays DEF Unheard
<1>. QED  BY <1>1, <1>2 DEF Asking, ConnectToken, ConnectProfile, ReconnectProfile, ResumeProfile

LEMMA RevokingFacts ==
    ASSUME NEW t \in TabType, Steady(t), NEW s
    PROVE  /\ Revoking(t, s) \in TabType
           /\ Steady(Revoking(t, s))
           /\ Revoking(t, s).asks = t.asks
           /\ Revoking(t, s).mixed = t.mixed
BY DEF Revoking, Steady, TabType

LEMMA GoingFacts ==
    ASSUME NEW t \in TabType, ~t.mixed => t.asks = None, Steady(t), NEW s \in Sessions \cup {None},
           NEW pc \in {"displace", "withdraw"}
    PROVE  [t EXCEPT !.pc = pc, !.next = s] \in TabType /\ Steady([t EXCEPT !.pc = pc, !.next = s])
BY DEF Steady, TabType

LEMMA LeavingFacts ==
    ASSUME NEW t \in TabType, Steady(t), NEW stale \in BOOLEAN, NEW askStale \in BOOLEAN,
           NEW shown \in Sessions \cup {None}, NEW revocable \in BOOLEAN,
           shown \in {None, t.shown},
           NEW u, u = [t EXCEPT !.stale = stale, !.askStale = askStale, !.leaving = t.stored,
                                !.shown = shown, !.revocable = revocable]
    PROVE  u \in TabType /\ Steady(u)
<1>1. u \in TabType
  BY DEF TabType
<1>2. /\ u.pc = t.pc /\ u.asks = t.asks /\ u.stored = t.stored /\ u.shown = shown
      /\ u.mixed = t.mixed
  BY DEF TabType
<1>. QED  BY <1>1, <1>2 DEF Steady

LEMMA RestoringFacts ==
    ASSUME NEW t \in TabType, Steady(t), NEW mixed \in BOOLEAN,
           ~mixed => ~t.mixed /\ t.pc = "idle",
           NEW u, u = [t EXCEPT !.shown = None, !.revocable = FALSE,
                                !.asks = t.stored, !.askStale = FALSE, !.mixed = mixed]
    PROVE  u \in TabType /\ Steady(u)
<1>1. u \in TabType
  BY DEF TabType
<1>2. /\ u.pc = t.pc /\ u.asks = t.stored /\ u.stored = t.stored /\ u.shown = None
      /\ u.mixed = mixed
  BY DEF TabType
<1>. QED  BY <1>1, <1>2 DEF Steady

LEMMA ManagerKeepsManagers ==
    ASSUME RequestTypes, TabTypes, ManagersOK, NEW b \in Tabs, Manager(b)
    PROVE  TabTypes' /\ ManagersOK'
<1>. DEFINE t == tab[b]
<1>0. t \in TabType /\ Steady(t)
  BY DEF TabTypes, ManagersOK
<1>1. CASE Heard(b)
  <2>1. job[b].session \in Sessions \cup {None} /\ t.pc = "asked" /\ (~t.mixed => t.asks = None)
    BY <1>0, <1>1 DEF Heard, RequestTypes, JobType, Steady, TabType
  <2>. DEFINE s == job[b].session
              withdrawn == [Revoking(t, s) EXCEPT !.pc = "withdraw", !.next = s]
  <2>2. withdrawn \in TabType /\ Steady(withdrawn)
    <3>1. Revoking(t, s) \in TabType /\ Steady(Revoking(t, s))
          /\ (~t.mixed => Revoking(t, s).asks = None) /\ Revoking(t, s).mixed = t.mixed
      BY <1>0, <2>1, RevokingFacts
    <3>. QED  BY <2>1, <3>1, GoingFacts
  <2>3. Displacing(t, s) \in TabType /\ Steady(Displacing(t, s))
    <3>. DEFINE r == Revoking(t, t.old)
    <3>1. r \in TabType /\ Steady(r) /\ (~t.mixed => r.asks = None) /\ r.mixed = t.mixed
      BY <1>0, <2>1, RevokingFacts
    <3>. HIDE DEF r
    <3>2. [r EXCEPT !.pc = "displace", !.next = s] \in TabType
          /\ Steady([r EXCEPT !.pc = "displace", !.next = s])
      BY <2>1, <3>1, GoingFacts
    <3>3. Displacing(t, s) = [r EXCEPT !.pc = "displace", !.next = s]
      BY DEF Displacing, r
    <3>. QED  BY <3>2, <3>3
  <2>4. Adopted(b, s) \in TabType /\ Steady(Adopted(b, s))
    BY <1>0, <2>1 DEF Adopted, Steady, TabType
  <2>5. \/ tab' = [tab EXCEPT ![b] = withdrawn]
        \/ tab' = [tab EXCEPT ![b] = Displacing(t, s)]
        \/ tab' = [tab EXCEPT ![b] = Adopted(b, s)]
    BY <1>1 DEF Heard
  <2>. QED  BY <1>1, <2>2, <2>3, <2>4, <2>5, TabHolds DEF Heard
<1>2. CASE Displaced(b)
  <2>1. t.next \in Sessions \cup {None} /\ (~t.mixed => t.asks = None)
    BY <1>0, <1>2 DEF Displaced, Steady, TabType
  <2>2. Adopted(b, t.next) \in TabType /\ Steady(Adopted(b, t.next))
    BY <1>0, <2>1 DEF Adopted, Steady, TabType
  <2>. QED  BY <1>2, <2>2, TabHolds DEF Displaced
<1>3. CASE Withdrawn(b)
  <2>. DEFINE u == [t EXCEPT !.pc = "idle", !.old = None, !.next = None]
  <2>1. u \in TabType /\ Steady(u)
    BY <1>0 DEF Steady, TabType
  <2>2. tab' = [tab EXCEPT ![b] = u]
    BY <1>3 DEF Withdrawn
  <2>. QED  BY <1>3, <2>1, <2>2, TabHolds DEF Withdrawn
<1>4. CASE Disconnect(b)
  <2>. DEFINE stale == (t.pc # "idle")
              askStale == (t.asks # None)
              shown == IF t.stored = None THEN None ELSE t.shown
              revocable == IF t.stored = None THEN FALSE ELSE t.revocable
              u == [t EXCEPT !.stale = stale, !.askStale = askStale, !.leaving = t.stored,
                             !.shown = shown, !.revocable = revocable]
  <2>1. tab' = [tab EXCEPT ![b] = u]
    BY <1>4 DEF Disconnect
  <2>2. stale \in BOOLEAN /\ askStale \in BOOLEAN
    OBVIOUS
  <2>3. shown \in Sessions \cup {None} /\ shown \in {None, t.shown} /\ revocable \in BOOLEAN
    BY <1>0 DEF TabType
  <2>. HIDE DEF stale, askStale, shown, revocable
  <2>4. u \in TabType /\ Steady(u)
    BY <1>0, <2>2, <2>3, LeavingFacts
  <2>. HIDE DEF u
  <2>. QED  BY <1>4, <2>1, <2>4, TabHolds DEF Disconnect, server
<1>5. CASE Disconnected(b)
  <2>. DEFINE gone == [t EXCEPT !.leaving = None, !.stored = None,
                                !.shown = None, !.revocable = FALSE]
              kept == [t EXCEPT !.leaving = None]
  <2>1. gone \in TabType /\ Steady(gone) /\ kept \in TabType /\ Steady(kept)
    BY <1>0 DEF Steady, TabType
  <2>2. tab' = [tab EXCEPT ![b] = gone] \/ tab' = [tab EXCEPT ![b] = kept]
    BY <1>5 DEF Disconnected
  <2>. QED  BY <1>5, <2>1, <2>2, TabHolds DEF Disconnected
<1>6. CASE Restore(b)
  <2>. DEFINE mixed == (t.mixed \/ t.pc # "idle")
              u == [t EXCEPT !.shown = None, !.revocable = FALSE,
                             !.asks = t.stored, !.askStale = FALSE, !.mixed = mixed]
  <2>1. /\ mixed \in BOOLEAN
        /\ ~mixed => ~t.mixed /\ t.pc = "idle"
    OBVIOUS
  <2>2. u \in TabType /\ Steady(u)
    <3>. HIDE DEF mixed
    <3>. QED  BY <1>0, <2>1, RestoringFacts
  <2>3. tab' = [tab EXCEPT ![b] = u]
    BY <1>6 DEF Restore
  <2>. HIDE DEF u
  <2>. QED  BY <1>6, <2>2, <2>3, TabHolds DEF Restore, server
<1>7. CASE Restored(b)
  <2>. DEFINE done == [t EXCEPT !.asks = None, !.askStale = FALSE]
              forgot == [done EXCEPT !.stored = None]
              found == [done EXCEPT !.shown = t.asks, !.revocable = FALSE]
  <2>1. t.asks # None
    BY <1>7 DEF Restored
  <2>2. done \in TabType /\ Steady(done) /\ forgot \in TabType /\ Steady(forgot)
    BY <1>0 DEF Steady, TabType
  <2>3. found \in TabType /\ Steady(found)
    BY <1>0, <2>1 DEF Steady, TabType
  <2>4. \/ tab' = [tab EXCEPT ![b] = done]
        \/ tab' = [tab EXCEPT ![b] = forgot]
        \/ tab' = [tab EXCEPT ![b] = found]
    BY <1>7 DEF Restored
  <2>. QED  BY <1>7, <2>2, <2>3, <2>4, TabHolds DEF Restored, server
<1>8. CASE TabGone(b)
  <2>1. \A s \in Sessions \cup {None} :
           [Fresh EXCEPT !.stored = s] \in TabType /\ Steady([Fresh EXCEPT !.stored = s])
    BY DEF Fresh, Steady, TabType
  <2>2. \E s \in Sessions \cup {None} : tab' = [tab EXCEPT ![b] = [Fresh EXCEPT !.stored = s]]
    BY <1>0, <1>8 DEF TabGone, TabType
  <2>. QED  BY <1>8, <2>1, <2>2, TabHolds DEF TabGone, server
<1>. QED  BY <1>1, <1>2, <1>3, <1>4, <1>5, <1>6, <1>7, <1>8 DEF Manager

LEMMA ManagersHold ==
    ASSUME IInv, TabTypes, ManagersOK, [Next]_vars PROVE TabTypes' /\ ManagersOK'
<1>1. CASE UNCHANGED vars
  BY <1>1, TabStays DEF vars, server
<1>2. ASSUME NEW b \in Tabs, Establishing(b) PROVE TabTypes' /\ ManagersOK'
  <2>1. UNCHANGED <<setting, tab>>
    BY <1>2 DEF Establishing, Refuse, Connect, FindAccount, CreateProfile, Replace, Replacing,
                Store, StoreFails, Resume, Update
  <2>. QED  BY <2>1, TabStays
<1>3. ASSUME NEW b \in Tabs, Asking(b) PROVE TabTypes' /\ ManagersOK'
  BY <1>3, AskingKeepsManagers
<1>4. ASSUME NEW d \in Panels, Panel(d) PROVE TabTypes' /\ ManagersOK'
  BY <1>4, TabStays DEF Panel, StartToggle, PersistOn, PersistOff, PersistUpdate
<1>5. CASE \E b \in Managed : Manager(b)
  <2>1. Managed \subseteq Tabs /\ RequestTypes
    BY Constants DEF IInv, RequestTypes, Managed, Tabs
  <2>. QED  BY <1>5, <2>1, ManagerKeepsManagers
<1>6. CASE \E p \in Profiles : DisconnectConnection(p) \/ RemoveConnection(p) \/ EraseEnvelope(p)
  BY <1>6, TabStays DEF DisconnectConnection, RemoveConnection, EraseEnvelope
<1>7. CASE \E s \in Sessions : Expire(s)
  BY <1>7, TabStays DEF Expire
<1>8. CASE Restart
  BY <1>8, TabStays DEF Restart
<1>. QED  BY <1>1, <1>2, <1>3, <1>4, <1>5, <1>6, <1>7, <1>8 DEF Next

LEMMA ManagersAlways == Spec => [](TabTypes /\ ManagersOK)
<1>1. Init => TabTypes /\ ManagersOK
  <2>1. Fresh \in TabType /\ Steady(Fresh)
    BY DEF Fresh, TabType, Steady
  <2>. QED  BY <2>1 DEF Init, TabTypes, ManagersOK, Steady
<1>2. IInv /\ TabTypes /\ ManagersOK /\ [Next]_vars => TabTypes' /\ ManagersOK'
  BY ManagersHold
<1>. QED  BY <1>1, <1>2, Invariance, PTL DEF Spec

\* In a tab where no restore asked while a connect was pending (nothing in the
\* code prevents it, and then the property fails), no order of answers, account
\* switches, reloads and disconnects makes the tab show one account while its
\* requests run under another.
THEOREM TabsShowWhatTheyUse == Spec => []ShownIsUsedUnmixed
<1>1. ManagersOK => ShownIsUsedUnmixed
  BY DEF ManagersOK, Steady, ShownIsUsedUnmixed, ShownAsUsed
<1>. QED  BY <1>1, ManagersAlways, PTL

-----------------------------------------------------------------------------
(* Which tokens are held for a connection, and what its mode says of them. *)

\* A request that may seal or use its token from here on.
Bearing(j) == j.pc \in {"store", "update"} \/ (j.pc = "identify" /\ j.kind = "resume")

\* Only the tokens of the setting are at work.
TokensOK ==
    /\ replaced \in [Profiles -> SUBSET Tokens]
    /\ \A p \in Profiles : envelope[p] \in Tokens \cup {None}
    /\ \A s \in Live(session) : session[s].token \in Tokens
    /\ \A b \in Tabs : Working(b) => job[b].token \in Tokens

\* If no two requests for p met, there is one at most.
Sole(p) ==
    "crossed" \notin amiss[p] =>
        \A b, c \in Tabs : job[b].profile = p /\ job[c].profile = p => b = c

\* What was replaced is nowhere, and no request brings it back.
OutOK(p) ==
    /\ profile[p].account = None => replaced[p] = {}
    /\ amiss[p] \cap {"kept", "crossed"} = {} =>
          /\ envelope[p] \notin replaced[p]
          /\ \A s \in Of(session, p) : session[s].token \notin replaced[p]
          /\ \A b \in Tabs : job[b].profile = p /\ Bearing(job[b]) => job[b].token \notin replaced[p]

\* Who waits in the line, once each.
Waits(e) ==
    \/ \E b \in Tabs : e = <<"job", b>> /\ job[b].pc = "update"
    \/ \E d \in Panels : e = <<"toggle", d>> /\ toggle[d].pc = "update"

LineOK ==
    /\ line \in Seq({"job", "toggle"} \X (Tabs \cup Panels))
    /\ \A i \in DOMAIN line : Waits(line[i])
    /\ \A i, k \in DOMAIN line : line[i] = line[k] => i = k

\* An entry of the line that will set the mode of p, and the mode it asks for.
About(e, p) ==
    \/ e[1] = "job" /\ job[e[2]].profile = p /\ job[e[2]].kind # "resume"
    \/ e[1] = "toggle" /\ toggle[e[2]].profile = p
Wish(e) == IF e[1] = "job" THEN job[e[2]].persist ELSE toggle[e[2]].on

Storing(j, p) == j.pc = "store" /\ j.profile = p

\* While a token is about to be sealed, nothing is sealed and no session opened
\* by anybody else.
StoreOK(p) ==
    \A b \in Tabs : Storing(job[b], p) =>
        /\ job[b].persist /\ job[b].kind # "resume"
        /\ amiss[p] \cap {"kept", "crossed"} = {} => envelope[p] = None /\ Of(session, p) = {}
        /\ job[b].kind = "create" =>
              /\ profile[p].mode = "persistent"
              /\ \A c \in Tabs : Storing(job[c], p) => c = b
              /\ \A i \in DOMAIN line : ~About(line[i], p)

\* When nothing is about to be sealed, the last request in line for p, or else its
\* mode, says whether p has an envelope.
Agrees(p) ==
    /\ \A i \in DOMAIN line :
          About(line[i], p) /\ (\A k \in DOMAIN line : k > i => ~About(line[k], p)) =>
              (Wish(line[i]) <=> envelope[p] # None)
    /\ (\A i \in DOMAIN line : ~About(line[i], p)) =>
          (profile[p].mode = "persistent" <=> envelope[p] # None)

ModeOK(p) ==
    /\ profile[p].saved
    /\ amiss[p] \cap {"kept", "cut", "unstored"} = {}
    /\ \A b \in Tabs : ~Storing(job[b], p)
    => Agrees(p)

TogglesOK == \A d \in Panels, p \in Profiles : toggle[d].profile = p => profile[p].account # None

ErasingOK == \A p \in erasing : ~profile[p].saved /\ profile[p].account # None

AdmittedOK == \A b \in Tabs : job[b].pc = "admitted" => job[b].kind = "create"

HeldOK == TokensOK /\ \A p \in Profiles : Sole(p) /\ OutOK(p)
KeptOK ==
    /\ LineOK /\ TogglesOK /\ ErasingOK /\ AdmittedOK
    /\ \A p \in Profiles : StoreOK(p) /\ ModeOK(p)

CInv == HeldOK /\ KeptOK

LEMMA InitKeeps == Init => CInv
<1>. SUFFICES ASSUME Init PROVE CInv
  OBVIOUS
<1>0. setting \in Settings /\ Tokens \subseteq Credentials
  BY Constants DEF Init, Tokens
<1>1. TokensOK
  BY DEF Init, TokensOK, Live, Working, NoJob
<1>2. \A p \in Profiles : Sole(p) /\ StoreOK(p)
  BY Constants DEF Init, Sole, StoreOK, Storing, NoJob
<1>3. \A p \in Profiles : OutOK(p)
  BY DEF Init, OutOK, Of, Live
<1>4. LineOK /\ TogglesOK /\ ErasingOK /\ AdmittedOK
  BY Constants DEF Init, LineOK, TogglesOK, ErasingOK, AdmittedOK, NoToggle, NoJob
<1>5. \A p \in Profiles : ModeOK(p)
  <2>. SUFFICES ASSUME NEW p \in Profiles PROVE profile[p].mode = "persistent" <=> envelope[p] # None
    BY DEF Init, ModeOK, Agrees
  <2>. QED  BY DEF Init
<1>. QED  BY <1>1, <1>2, <1>3, <1>4, <1>5 DEF CInv, HeldOK, KeptOK

-----------------------------------------------------------------------------
(* What is held.                                                           *)

\* What every step but Replace does: a token comes to be held for a connection
\* only out of what is held for it already, or for one that is new.
New(q) == q = None \/ profile[q].account = None

Tidy ==
    /\ UNCHANGED <<setting, replaced>>
    /\ \A p \in Profiles :
          /\ profile'[p].account = None => profile[p].account = None
          /\ amiss[p] \subseteq amiss'[p]
          /\ \/ envelope'[p] \in {envelope[p], None}
             \/ \E s \in Of(session, p) : envelope'[p] = session[s].token
             \/ \E b \in Tabs : /\ job[b].profile = p
                               /\ Bearing(job[b])
                               /\ envelope'[p] = job[b].token
    /\ \A s \in Sessions :
          \/ session'[s] \in {session[s], None}
          \/ \E b \in Tabs :
                /\ Working(b)
                /\ session'[s].token = job[b].token
                /\ \/ New(session'[s].profile)
                   \/ job[b].profile = session'[s].profile /\ Bearing(job[b])
    /\ \A b \in Tabs :
          \/ job'[b] = job[b]
          \/ job'[b].pc \in {"none", "answered", "refused"} /\ job'[b].profile = None
          \/ /\ Working(b)
             /\ job'[b].token = job[b].token
             /\ job'[b].profile = job[b].profile
             /\ Bearing(job'[b]) => Bearing(job[b]) \/ New(job[b].profile)
          \/ /\ (Working(b) /\ job'[b].token = job[b].token) \/ job'[b].token \in Tokens
             /\ \/ New(job'[b].profile)
                \/ Bearing(job'[b]) => job'[b].token = envelope[job'[b].profile]
             /\ \/ job'[b].profile = None
                \/ "crossed" \in amiss'[job'[b].profile]
                \/ \A c \in Tabs : c # b => job'[c].profile # job'[b].profile

LEMMA TidyHolds ==
    ASSUME IInv, HeldOK, Tidy PROVE HeldOK'
<1>. USE TabsStay, Constants
<1>0. Tabs' = Tabs /\ Tokens' = Tokens /\ replaced' = replaced /\ Tokens \subseteq Credentials
  BY DEF Tidy, IInv, RequestTypes, Tokens
<1>1. TokensOK'
  <2>1. ASSUME NEW b \in Tabs PROVE job[b].profile \in Profiles /\ Bearing(job[b]) => Working(b)
    BY DEF Bearing, Working
  <2>2. ASSUME NEW p \in Profiles PROVE envelope'[p] \in Tokens \cup {None}
    BY <1>0, <2>1 DEF Tidy, HeldOK, TokensOK, Of
  <2>3. ASSUME NEW s \in Live(session') PROVE session'[s].token \in Tokens
    BY <2>3 DEF Tidy, HeldOK, TokensOK, Live
  <2>4. ASSUME NEW b \in Tabs, job'[b].pc \notin {"none", "answered", "refused"}
        PROVE  job'[b].token \in Tokens
    BY <2>4 DEF Tidy, HeldOK, TokensOK, Working
  <2>5. replaced' \in [Profiles -> SUBSET Tokens]
    BY <1>0 DEF HeldOK, TokensOK
  <2>. QED  BY <1>0, <2>2, <2>3, <2>4, <2>5 DEF TokensOK, Live, Working
<1>2. ASSUME NEW p \in Profiles PROVE Sole(p)'
  <2>. SUFFICES ASSUME "crossed" \notin amiss'[p], NEW b \in Tabs, NEW c \in Tabs,
                       job'[b].profile = p, job'[c].profile = p, b # c
                PROVE  FALSE
    BY <1>0 DEF Sole
  <2>1. Sole(p) /\ "crossed" \notin amiss[p]
    BY DEF HeldOK, Tidy
  <2>2. job[b].profile = p
    BY DEF Tidy
  <2>3. job[c].profile = p
    BY DEF Tidy
  <2>. QED  BY <2>1, <2>2, <2>3 DEF Sole
<1>3. ASSUME NEW p \in Profiles PROVE OutOK(p)'
  <2>0. OutOK(p) /\ (profile'[p].account = None => profile[p].account = None)
    BY DEF HeldOK, Tidy
  <2>. SUFFICES ASSUME profile[p].account # None, amiss'[p] \cap {"kept", "crossed"} = {}
                PROVE  /\ envelope'[p] \notin replaced[p]
                       /\ \A s \in Of(session', p) : session'[s].token \notin replaced[p]
                       /\ \A b \in Tabs : job'[b].profile = p /\ Bearing(job'[b]) =>
                             job'[b].token \notin replaced[p]
    <3>1. CASE profile[p].account = None
      BY <3>1, <2>0, <1>0 DEF OutOK
    <3>2. CASE profile[p].account # None
      BY <3>2, <2>0, <1>0 DEF OutOK, Of, Live
    <3>. QED  BY <3>1, <3>2
  <2>1. amiss[p] \cap {"kept", "crossed"} = {}
    BY DEF Tidy
  <2>2. /\ envelope[p] \notin replaced[p]
        /\ \A s \in Of(session, p) : session[s].token \notin replaced[p]
        /\ \A b \in Tabs : job[b].profile = p /\ Bearing(job[b]) => job[b].token \notin replaced[p]
    BY <2>0, <2>1 DEF OutOK
  <2>3. None \notin replaced[p] /\ ~New(p)
    BY <1>0 DEF HeldOK, TokensOK, New
  <2>4. envelope'[p] \notin replaced[p]
    BY <2>2, <2>3 DEF Tidy
  <2>5. ASSUME NEW s \in Of(session', p) PROVE session'[s].token \notin replaced[p]
    BY <2>2, <2>3, <2>5 DEF Tidy, Of, Live
  <2>6. ASSUME NEW b \in Tabs, job'[b].profile = p, Bearing(job'[b])
        PROVE  job'[b].token \notin replaced[p]
    BY <2>2, <2>3, <2>6 DEF Tidy
  <2>. QED  BY <2>4, <2>5, <2>6
<1>. QED  BY <1>1, <1>2, <1>3 DEF HeldOK

-----------------------------------------------------------------------------
(* Who acts, and what that does to the line.                               *)

\* Only e acts: it waits before and after or neither, or takes its place at the
\* end of the line, or leaves from the front.
Nobody == <<"nobody", 0>>

Acts(e) ==
    /\ setting' = setting
    /\ \A b \in Tabs : e # <<"job", b>> => job'[b] = job[b]
    /\ \A d \in Panels : e # <<"toggle", d>> => toggle'[d] = toggle[d]
    /\ \/ line' = line /\ ~Waits(e)
       \/ line' = Append(line, e) /\ ~Waits(e) /\ Waits(e)'
       \/ line # <<>> /\ e = Head(line) /\ line' = Tail(line)

LEMMA EntryFacts ==
    ASSUME LineOK, NEW i \in DOMAIN line
    PROVE  /\ line[i] \in {"job", "toggle"} \X (Tabs \cup Panels)
           /\ line[i][1] = "job" => /\ line[i][2] \in Tabs
                                    /\ line[i] = <<"job", line[i][2]>>
                                    /\ job[line[i][2]].pc = "update"
           /\ line[i][1] # "job" => /\ line[i][1] = "toggle"
                                    /\ line[i][2] \in Panels
                                    /\ line[i] = <<"toggle", line[i][2]>>
                                    /\ toggle[line[i][2]].pc = "update"
<1>. DEFINE E == {"job", "toggle"} \X (Tabs \cup Panels)
<1>1. line[i] \in E
  BY DEF LineOK
<1>2. Waits(line[i])
  BY DEF LineOK
<1>. QED  BY <1>1, <1>2 DEF Waits

\* What an entry of somebody else says stays.
LEMMA EntryStays ==
    ASSUME LineOK, NEW e, Acts(e), NEW i \in DOMAIN line, line[i] # e
    PROVE  /\ Waits(line[i]) /\ (\A x : x = line[i] => Waits(x)')
           /\ \A p, x : x = line[i] => (About(x, p)' <=> About(x, p))
           /\ \A x : x = line[i] => (Wish(x)' = Wish(x))
<1>1. Waits(line[i])
  BY DEF LineOK
<1>2. CASE line[i][1] = "job"
  <2>1. line[i][2] \in Tabs /\ line[i] = <<"job", line[i][2]>> /\ job'[line[i][2]] = job[line[i][2]]
    BY <1>2, EntryFacts DEF Acts
  <2>. QED  BY <1>1, <1>2, <2>1, EntryFacts, TabsStay DEF Waits, About, Wish, Acts
<1>3. CASE line[i][1] # "job"
  <2>1. /\ line[i][2] \in Panels /\ line[i] = <<"toggle", line[i][2]>>
        /\ toggle'[line[i][2]] = toggle[line[i][2]]
    BY <1>3, EntryFacts DEF Acts
  <2>. QED  BY <1>1, <1>3, <2>1, EntryFacts, TabsStay DEF Waits, About, Wish, Acts
<1>. QED  BY <1>2, <1>3

LEMMA LineHolds == ASSUME LineOK, NEW e, Acts(e) PROVE LineOK'
<1>. DEFINE E == {"job", "toggle"} \X (Tabs \cup Panels)
<1>0. Tabs' = Tabs /\ Panels' = Panels /\ line \in Seq(E)
  BY TabsStay DEF Acts, LineOK
<1>1. CASE line' = line /\ ~Waits(e)
  <2>1. \A i \in DOMAIN line : line[i] # e
    BY <1>1 DEF LineOK
  <2>2. \A i \in DOMAIN line' : Waits(line[i])'
    BY <1>1, <2>1, EntryStays
  <2>. QED  BY <1>0, <1>1, <2>2 DEF LineOK
<1>2. CASE line' = Append(line, e) /\ ~Waits(e) /\ Waits(e)'
  <2>1. \A i \in DOMAIN line : line[i] # e
    BY <1>2 DEF LineOK
  <2>2. e \in E
    BY <1>0, <1>2 DEF Waits
  <2>3. /\ line' \in Seq(E)
        /\ DOMAIN line' = DOMAIN line \cup {Len(line) + 1}
        /\ \A i \in DOMAIN line : line'[i] = line[i]
        /\ line'[Len(line) + 1] = e
    BY <1>0, <1>2, <2>2
  <2>4. ASSUME NEW i \in DOMAIN line', NEW x, x = line'[i] PROVE Waits(x)'
    <3>1. CASE i \in DOMAIN line
      BY <2>4, <3>1, <2>1, <2>3, EntryStays
    <3>2. CASE i = Len(line) + 1
      BY <2>4, <3>2, <1>2, <2>3
    <3>. QED  BY <2>3, <2>4, <3>1, <3>2
  <2>5. \A i, k \in DOMAIN line' : line'[i] = line'[k] => i = k
    BY <2>1, <2>3 DEF LineOK
  <2>. QED  BY <1>0, <2>3, <2>4, <2>5 DEF LineOK, Waits
<1>3. CASE line # <<>> /\ e = Head(line) /\ line' = Tail(line)
  <2>1. /\ line' \in Seq(E)
        /\ \A i \in DOMAIN line' : i + 1 \in DOMAIN line /\ line'[i] = line[i + 1]
        /\ 1 \in DOMAIN line /\ line[1] = e
        /\ \A i \in DOMAIN line' : i \in Nat /\ i # 0
    BY <1>0, <1>3
  <2>2. \A i \in DOMAIN line' : line[i + 1] # e
    BY <2>1 DEF LineOK
  <2>3. ASSUME NEW i \in DOMAIN line', NEW x, x = line'[i] PROVE Waits(x)'
    BY <2>1, <2>2, <2>3, EntryStays
  <2>4. \A i, k \in DOMAIN line' : line'[i] = line'[k] => i = k
    BY <2>1 DEF LineOK
  <2>. QED  BY <1>0, <2>1, <2>3, <2>4 DEF LineOK, Waits
<1>. QED  BY <1>1, <1>2, <1>3 DEF Acts

\* The line after a step, in terms of the line before it.
LEMMA LineMoves ==
    ASSUME LineOK, NEW e, Acts(e)
    PROVE  \/ /\ line' = line
              /\ \A i \in DOMAIN line : line[i] # e
           \/ /\ DOMAIN line' = DOMAIN line \cup {Len(line) + 1}
              /\ \A i \in DOMAIN line : i < Len(line) + 1 /\ line[i] # e /\ line'[i] = line[i]
              /\ line'[Len(line) + 1] = e
              /\ Waits(e)'
           \/ /\ 1 \in DOMAIN line /\ line[1] = e /\ Waits(e)
              /\ \A i \in DOMAIN line' : /\ i \in Nat /\ i + 1 \in DOMAIN line
                                         /\ line[i + 1] # e /\ line'[i] = line[i + 1]
              /\ \A k \in DOMAIN line : k = 1 \/ \E i \in DOMAIN line' : k = i + 1
<1>. DEFINE E == {"job", "toggle"} \X (Tabs \cup Panels)
<1>0. line \in Seq(E)
  BY DEF LineOK
<1>1. CASE line' = line /\ ~Waits(e)
  BY <1>1 DEF LineOK
<1>2. CASE line' = Append(line, e) /\ ~Waits(e) /\ Waits(e)'
  BY <1>0, <1>2 DEF LineOK
<1>3. CASE line # <<>> /\ e = Head(line) /\ line' = Tail(line)
  <2>1. /\ \A i \in DOMAIN line' : /\ i \in Nat /\ i + 1 \in DOMAIN line
                                   /\ i + 1 # 1 /\ line'[i] = line[i + 1]
        /\ 1 \in DOMAIN line /\ line[1] = e
    BY <1>0, <1>3
  <2>2. \A k \in DOMAIN line : k = 1 \/ (k - 1 \in DOMAIN line' /\ k = (k - 1) + 1)
    BY <1>0, <1>3
  <2>3. \A k \in DOMAIN line : k = 1 \/ \E i \in DOMAIN line' : k = i + 1
    BY <2>2
  <2>4. \A i \in DOMAIN line' : line[i + 1] # e
    BY <2>1 DEF LineOK
  <2>. QED  BY <2>1, <2>3, <2>4 DEF LineOK
<1>. QED  BY <1>1, <1>2, <1>3 DEF Acts

LEMMA EntryFrom ==
    ASSUME LineOK, NEW e, Acts(e), NEW i \in DOMAIN line', NEW p
    PROVE  \/ line'[i] = e /\ Waits(e)'
           \/ \E k \in DOMAIN line : /\ line'[i] = line[k]
                                     /\ About(line[i], p)' <=> About(line[k], p)
                                     /\ Wish(line[i])' = Wish(line[k])
<1>1. \/ line'[i] = e /\ Waits(e)'
      \/ \E k \in DOMAIN line : line'[i] = line[k] /\ line[k] # e
  BY LineMoves
<1>2. ASSUME NEW k \in DOMAIN line, line'[i] = line[k], line[k] # e
      PROVE  (About(line[i], p)' <=> About(line[k], p)) /\ Wish(line[i])' = Wish(line[k])
  BY <1>2, EntryStays DEF About, Wish
<1>. QED  BY <1>1, <1>2

\* A step that does not concern p.
LEMMA AgreesStays ==
    ASSUME LineOK, NEW e, Acts(e), NEW p \in Profiles, Agrees(p),
           Waits(e) => ~About(e, p), Waits(e)' => ~About(e, p)',
           profile'[p].mode = profile[p].mode,
           envelope'[p] # None <=> envelope[p] # None
    PROVE  Agrees(p)'
<1>1. CASE /\ line' = line
           /\ \A i \in DOMAIN line : line[i] # e
  <2>1. \A i \in DOMAIN line :
          /\ About(line[i], p)' <=> About(line[i], p)
          /\ Wish(line[i])' = Wish(line[i])
    BY <1>1, EntryStays DEF About, Wish
  <2>. QED  BY <1>1, <2>1 DEF Agrees
<1>2. CASE /\ DOMAIN line' = DOMAIN line \cup {Len(line) + 1}
           /\ \A i \in DOMAIN line : i < Len(line) + 1 /\ line[i] # e /\ line'[i] = line[i]
           /\ line'[Len(line) + 1] = e
           /\ Waits(e)'
  <2>1. \A i \in DOMAIN line :
          /\ About(line[i], p)' <=> About(line[i], p)
          /\ Wish(line[i])' = Wish(line[i])
    BY <1>2, EntryStays DEF About, Wish
  <2>2. ASSUME NEW i, i = Len(line) + 1 PROVE ~About(line[i], p)'
    BY <1>2, <2>2 DEF About
  <2>. QED  BY <1>2, <2>1, <2>2 DEF Agrees
<1>3. CASE /\ 1 \in DOMAIN line /\ line[1] = e /\ Waits(e)
           /\ \A i \in DOMAIN line' : /\ i \in Nat /\ i + 1 \in DOMAIN line
                                      /\ line[i + 1] # e /\ line'[i] = line[i + 1]
           /\ \A k \in DOMAIN line : k = 1 \/ \E i \in DOMAIN line' : k = i + 1
  <2>1. \A i \in DOMAIN line' :
          /\ About(line[i], p)' <=> About(line[i + 1], p)
          /\ Wish(line[i])' = Wish(line[i + 1])
    <3>. TAKE i \in DOMAIN line'
    <3>1. PICK k \in DOMAIN line : k = i + 1
      BY <1>3
    <3>2. line[k] # e /\ line'[i] = line[k]
      BY <1>3, <3>1
    <3>3. (About(line[i], p)' <=> About(line[k], p)) /\ Wish(line[i])' = Wish(line[k])
      BY <3>2, EntryStays DEF About, Wish
    <3>. QED  BY <3>1, <3>3
  <2>2. ~About(line[1], p)
    BY <1>3
  <2>3. ASSUME NEW i \in DOMAIN line', About(line[i], p)',
               \A k \in DOMAIN line' : k > i => ~About(line[k], p)'
        PROVE  Wish(line[i])' <=> envelope'[p] # None
    <3>1. About(line[i + 1], p) /\ i + 1 \in DOMAIN line /\ Wish(line[i])' = Wish(line[i + 1])
      BY <1>3, <2>1, <2>3
    <3>2. ASSUME NEW k \in DOMAIN line, k > i + 1 PROVE ~About(line[k], p)
      <4>1. PICK h \in DOMAIN line' : k = h + 1
        BY <1>3, <3>2
      <4>2. h \in Nat /\ i \in Nat
        BY <1>3
      <4>3. h > i
        BY <3>2, <4>1, <4>2
      <4>. QED  BY <2>1, <2>3, <4>1, <4>3
    <3>. QED  BY <3>1, <3>2 DEF Agrees
  <2>4. (\A i \in DOMAIN line' : ~About(line[i], p)') => \A k \in DOMAIN line : ~About(line[k], p)
    BY <1>3, <2>1, <2>2
  <2>5. (\A i \in DOMAIN line' : ~About(line[i], p)') =>
            (profile'[p].mode = "persistent" <=> envelope'[p] # None)
    BY <2>4 DEF Agrees
  <2>. QED  BY <2>3, <2>5 DEF Agrees
<1>. QED  BY <1>1, <1>2, <1>3, LineMoves

\* Who takes a place in the line says what becomes of the envelope.
LEMMA AgreesAppended ==
    ASSUME LineOK, NEW e, Acts(e), line' = Append(line, e), NEW p \in Profiles,
           About(e, p)', Wish(e)' <=> envelope'[p] # None
    PROVE  Agrees(p)'
<1>. DEFINE E == {"job", "toggle"} \X (Tabs \cup Panels)
<1>1. line \in Seq(E)
  BY DEF LineOK
<1>. PICK n \in Nat : n = Len(line) + 1
  BY <1>1
<1>2. /\ n \in DOMAIN line' /\ line'[n] = e
      /\ \A i \in DOMAIN line' : i = n \/ i < n
  BY <1>1
<1>3. About(line[n], p)' /\ (Wish(line[n])' <=> envelope'[p] # None)
  <2>1. \A k : line'[k] = e => About(line[k], p)'
    BY DEF About
  <2>2. \A k : line'[k] = e => Wish(line[k])' = Wish(e)'
    BY DEF Wish
  <2>. QED  BY <1>2, <2>1, <2>2
<1>4. ASSUME NEW i \in DOMAIN line', \A k \in DOMAIN line' : k > i => ~About(line[k], p)'
      PROVE  i = n
  <2>1. n > i => ~About(line[n], p)'
    BY <1>2, <1>4
  <2>2. i = n \/ n > i
    BY <1>1, <1>2
  <2>. QED  BY <2>1, <2>2, <1>3
<1>5. \A i \in DOMAIN line' :
         About(line[i], p)' /\ (\A k \in DOMAIN line' : k > i => ~About(line[k], p)') =>
            (Wish(line[i])' <=> envelope'[p] # None)
  BY <1>3, <1>4
<1>6. ~(\A i \in DOMAIN line' : ~About(line[i], p)')
  BY <1>2, <1>3
<1>. QED  BY <1>5, <1>6 DEF Agrees

\* Who leaves the line sets the mode it wished for.
LEMMA AgreesPopped ==
    ASSUME LineOK, NEW e, Acts(e), line # <<>>, e = Head(line), line' = Tail(line),
           NEW p \in Profiles, Agrees(p), About(e, p),
           profile'[p].mode = "persistent" <=> Wish(e),
           envelope'[p] # None <=> envelope[p] # None
    PROVE  Agrees(p)'
<1>. DEFINE E == {"job", "toggle"} \X (Tabs \cup Panels)
<1>0. line \in Seq(E)
  BY DEF LineOK
<1>1. /\ 1 \in DOMAIN line /\ line[1] = e
      /\ \A i \in DOMAIN line' : /\ i \in Nat /\ i + 1 \in DOMAIN line
                                 /\ i + 1 # 1 /\ line'[i] = line[i + 1]
      /\ \A k \in DOMAIN line : k = 1 \/ (k - 1 \in DOMAIN line' /\ k = (k - 1) + 1)
  BY <1>0
<1>2. \A k \in DOMAIN line : k = 1 \/ \E i \in DOMAIN line' : k = i + 1
  BY <1>1
<1>3. \A i \in DOMAIN line' : line[i + 1] # e
  BY <1>1 DEF LineOK
<1>4. \A i \in DOMAIN line' :
        /\ About(line[i], p)' <=> About(line[i + 1], p)
        /\ Wish(line[i])' = Wish(line[i + 1])
  <2>. TAKE i \in DOMAIN line'
  <2>1. PICK k \in DOMAIN line : k = i + 1
    BY <1>1
  <2>2. line[k] # e /\ line'[i] = line[k]
    BY <1>1, <1>3, <2>1
  <2>3. (About(line[i], p)' <=> About(line[k], p)) /\ Wish(line[i])' = Wish(line[k])
    BY <2>2, EntryStays DEF About, Wish
  <2>. QED  BY <2>1, <2>3
<1>5. ASSUME NEW i \in DOMAIN line', About(line[i], p)',
             \A k \in DOMAIN line' : k > i => ~About(line[k], p)'
      PROVE  Wish(line[i])' <=> envelope'[p] # None
  <2>1. About(line[i + 1], p) /\ i + 1 \in DOMAIN line /\ Wish(line[i])' = Wish(line[i + 1])
    BY <1>1, <1>4, <1>5
  <2>2. ASSUME NEW k \in DOMAIN line, k > i + 1 PROVE ~About(line[k], p)
    <3>1. i \in Nat
      BY <1>1
    <3>2. k # 1
      BY <3>1, <2>2
    <3>3. PICK h \in DOMAIN line' : k = h + 1
      BY <1>2, <3>2
    <3>4. h \in Nat
      BY <1>1
    <3>5. h > i
      BY <3>1, <3>3, <3>4, <2>2
    <3>. QED  BY <1>4, <1>5, <3>3, <3>5
  <2>. QED  BY <2>1, <2>2 DEF Agrees
<1>6. ASSUME \A i \in DOMAIN line' : ~About(line[i], p)'
      PROVE  profile'[p].mode = "persistent" <=> envelope'[p] # None
  <2>1. \A k \in DOMAIN line : k = 1 \/ ~About(line[k], p)
    BY <1>2, <1>4, <1>6
  <2>2. \A k \in DOMAIN line : k > 1 => ~About(line[k], p)
    BY <2>1
  <2>3. About(line[1], p)
    BY <1>1
  <2>4. Wish(e) <=> envelope[p] # None
    BY <1>1, <2>2, <2>3 DEF Agrees
  <2>. QED  BY <2>4
<1>. QED  BY <1>5, <1>6 DEF Agrees

\* A step that does not disturb who is about to seal a token of p.
Spares(e, p) ==
    /\ amiss[p] \subseteq amiss'[p]
    /\ \A b \in Tabs : job'[b] = job[b] \/ ~Storing(job'[b], p)
    /\ \/ \E b \in Tabs : job[b].profile = p /\ ~Storing(job'[b], p)
       \/ /\ envelope'[p] # None => envelope[p] # None \/ Of(session, p) # {}
          /\ Of(session', p) \subseteq Of(session, p)
    /\ \/ ~Queued(p)
       \/ \E b \in Tabs : Storing(job[b], p) /\ ~Storing(job'[b], p)
       \/ /\ profile'[p].mode = profile[p].mode \/ \E i \in DOMAIN line : About(line[i], p)
          /\ Waits(e)' => ~About(e, p)'

LEMMA NoAboutStays ==
    ASSUME LineOK, NEW e, Acts(e), NEW p, \A i \in DOMAIN line : ~About(line[i], p),
           Waits(e)' => ~About(e, p)'
    PROVE  \A i \in DOMAIN line' : ~About(line[i], p)'
<1>. TAKE i \in DOMAIN line'
<1>1. CASE line'[i] = e /\ Waits(e)'
  <2>1. ~About(e, p)'
    BY <1>1
  <2>. QED  BY <1>1, <2>1 DEF About
<1>2. CASE \E k \in DOMAIN line : About(line[i], p)' <=> About(line[k], p)
  BY <1>2
<1>. QED  BY <1>1, <1>2, EntryFrom

LEMMA SparesHolds ==
    ASSUME LineOK, NEW e, Acts(e), NEW p \in Profiles, Spares(e, p), Sole(p), StoreOK(p)
    PROVE  StoreOK(p)'
<1>0. Tabs' = Tabs
  BY TabsStay DEF Acts
<1>. SUFFICES ASSUME NEW b \in Tabs, Storing(job'[b], p)
              PROVE  /\ job'[b].persist /\ job'[b].kind # "resume"
                     /\ amiss'[p] \cap {"kept", "crossed"} = {} =>
                           envelope'[p] = None /\ Of(session', p) = {}
                     /\ job'[b].kind = "create" =>
                           /\ profile'[p].mode = "persistent"
                           /\ \A c \in Tabs : Storing(job'[c], p) => c = b
                           /\ \A i \in DOMAIN line' : ~About(line[i], p)'
  BY <1>0 DEF StoreOK, Of, Live, Storing
<1>1. /\ job'[b] = job[b] /\ Storing(job[b], p)
      /\ job[b].persist /\ job[b].kind # "resume"
      /\ amiss[p] \cap {"kept", "crossed"} = {} => envelope[p] = None /\ Of(session, p) = {}
      /\ job[b].kind = "create" =>
            /\ profile[p].mode = "persistent"
            /\ \A c \in Tabs : Storing(job[c], p) => c = b
            /\ \A i \in DOMAIN line : ~About(line[i], p)
  BY DEF Spares, StoreOK
<1>2. ASSUME amiss'[p] \cap {"kept", "crossed"} = {}
      PROVE  envelope'[p] = None /\ Of(session', p) = {}
  <2>1. amiss[p] \cap {"kept", "crossed"} = {} /\ "crossed" \notin amiss[p]
    BY <1>2 DEF Spares
  <2>2. ~ \E c \in Tabs : job[c].profile = p /\ ~Storing(job'[c], p)
    BY <1>1, <2>1 DEF Sole, Storing
  <2>. QED  BY <1>1, <2>1, <2>2 DEF Spares
<1>3. ASSUME job'[b].kind = "create"
      PROVE  /\ profile'[p].mode = "persistent"
             /\ \A c \in Tabs : Storing(job'[c], p) => c = b
             /\ \A i \in DOMAIN line' : ~About(line[i], p)'
  <2>1. Queued(p)
    BY <1>1, <1>3 DEF Queued, Storing
  <2>2. ~ \E c \in Tabs : Storing(job[c], p) /\ ~Storing(job'[c], p)
    BY <1>1, <1>3
  <2>3. profile'[p].mode = profile[p].mode /\ (Waits(e)' => ~About(e, p)')
    BY <1>1, <1>3, <2>1, <2>2 DEF Spares
  <2>4. \A c \in Tabs : Storing(job'[c], p) => c = b
    BY <1>1, <1>3 DEF Spares
  <2>5. \A i \in DOMAIN line : ~About(line[i], p)
    BY <1>1, <1>3
  <2>6. \A i \in DOMAIN line' : ~About(line[i], p)'
    BY <2>3, <2>5, NoAboutStays
  <2>. QED  BY <1>1, <1>3, <2>3, <2>4, <2>6
<1>. QED  BY <1>1, <1>2, <1>3

\* What a step that does not concern p leaves alone.
Aside(e, p) ==
    /\ profile'[p].mode = profile[p].mode
    /\ profile'[p].saved => profile[p].saved
    /\ amiss[p] \subseteq amiss'[p]
    /\ envelope'[p] # None <=> envelope[p] # None
    /\ \/ Of(session', p) \subseteq Of(session, p)
       \/ \E b \in Tabs : job[b].profile = p /\ ~Storing(job'[b], p)
    /\ Waits(e) => ~About(e, p)
    /\ Waits(e)' => ~About(e, p)'
    /\ \A b \in Tabs : job'[b] = job[b] \/ (~Storing(job[b], p) /\ ~Storing(job'[b], p))

LEMMA AsideHolds ==
    ASSUME LineOK, NEW e, Acts(e), NEW p \in Profiles, Aside(e, p), Sole(p), StoreOK(p), ModeOK(p)
    PROVE  StoreOK(p)' /\ ModeOK(p)'
<1>0. Tabs' = Tabs
  BY TabsStay DEF Acts
<1>1. StoreOK(p)'
  <2>1. Spares(e, p)
    BY DEF Spares, Aside
  <2>. QED  BY <2>1, SparesHolds
<1>2. ModeOK(p)'
  <2>. SUFFICES ASSUME profile'[p].saved, amiss'[p] \cap {"kept", "cut", "unstored"} = {},
                       \A b \in Tabs : ~Storing(job'[b], p)
                PROVE  Agrees(p)'
    BY <1>0 DEF ModeOK, Storing
  <2>1. profile[p].saved /\ amiss[p] \cap {"kept", "cut", "unstored"} = {}
    BY DEF Aside
  <2>2. \A b \in Tabs : ~Storing(job[b], p)
    BY DEF Aside
  <2>3. Agrees(p)
    BY <2>1, <2>2 DEF ModeOK
  <2>. QED  BY <2>3, AgreesStays DEF Aside
<1>. QED  BY <1>1, <1>2

LEMMA KeptHolds ==
    ASSUME HeldOK, KeptOK, NEW e, Acts(e), TogglesOK', ErasingOK',
           \A b \in Tabs : \/ job'[b] = job[b]
                           \/ job'[b].pc # "admitted"
                           \/ job'[b].kind = "create",
           \A p \in Profiles : Aside(e, p) \/ (StoreOK(p)' /\ ModeOK(p)')
    PROVE  KeptOK'
<1>1. LineOK'
  BY LineHolds DEF KeptOK
<1>2. ASSUME NEW p \in Profiles PROVE StoreOK(p)' /\ ModeOK(p)'
  <2>1. LineOK /\ Sole(p) /\ StoreOK(p) /\ ModeOK(p)
    BY DEF KeptOK, HeldOK
  <2>. QED  BY <2>1, AsideHolds
<1>3. AdmittedOK'
  BY TabsStay DEF AdmittedOK, KeptOK, Acts
<1>. QED  BY <1>1, <1>2, <1>3 DEF KeptOK

LEMMA ActorFacts ==
    /\ ~Waits(Nobody)
    /\ \A b \in Tabs : Waits(<<"job", b>>) <=> job[b].pc = "update"
    /\ \A d \in Panels : Waits(<<"toggle", d>>) <=> toggle[d].pc = "update"
    /\ \A b, p : About(<<"job", b>>, p) <=> (job[b].profile = p /\ job[b].kind # "resume")
    /\ \A d, p : About(<<"toggle", d>>, p) <=> toggle[d].profile = p
    /\ \A b : <<"job", b>> # Nobody
    /\ \A d : <<"toggle", d>> # Nobody
    /\ \A b, d : <<"job", b>> # <<"toggle", d>>
    /\ \A b, c : <<"job", b>> = <<"job", c>> => b = c
    /\ \A c, d : <<"toggle", c>> = <<"toggle", d>> => c = d
    /\ \A b : Wish(<<"job", b>>) = job[b].persist
    /\ \A d : Wish(<<"toggle", d>>) = toggle[d].on
BY DEF Waits, Nobody, About, Wish

\* TogglesOK and ErasingOK, when no toggle starts and no connection is made.
LEMMA NamesStay ==
    ASSUME IInv, KeptOK, setting' = setting, erasing' \subseteq erasing,
           \A d \in Panels : toggle'[d].profile \in {None, toggle[d].profile},
           \A p \in Profiles : /\ profile'[p].account = None => profile[p].account = None
                               /\ profile'[p].saved =>
                                     profile[p].saved \/ profile[p].account = None
    PROVE  TogglesOK' /\ ErasingOK'
<1>1. Panels' = Panels
  BY TabsStay
<1>2. TogglesOK'
  <2>1. ASSUME NEW d \in Panels, NEW p \in Profiles, toggle'[d].profile = p
        PROVE  profile'[p].account # None
    BY <2>1, Constants DEF KeptOK, TogglesOK
  <2>. QED  BY <1>1, <2>1 DEF TogglesOK
<1>3. ErasingOK'
  <2>1. ASSUME NEW p \in erasing' PROVE ~profile'[p].saved /\ profile'[p].account # None
    BY <2>1 DEF KeptOK, ErasingOK, IInv, StoreTypes
  <2>. QED  BY <2>1 DEF ErasingOK
<1>. QED  BY <1>2, <1>3

\* Sessions end, and nothing else happens.
LEMMA EndingKeeps ==
    ASSUME IInv, CInv,
           UNCHANGED <<setting, profile, envelope, job, toggle, line, erasing, replaced, amiss>>,
           \A s \in Sessions : session'[s] \in {session[s], None}
    PROVE  CInv'
<1>1. HeldOK'
  <2>1. Tidy
    BY DEF Tidy
  <2>. QED  BY <2>1, TidyHolds DEF CInv
<1>2. Acts(Nobody) /\ ~Waits(Nobody) /\ ~Waits(Nobody)'
  BY TabsStay, ActorFacts DEF Acts, Waits, Nobody
<1>3. TogglesOK' /\ ErasingOK'
  BY NamesStay DEF CInv
<1>4. ASSUME NEW p \in Profiles PROVE Aside(Nobody, p)
  <2>1. Of(session', p) \subseteq Of(session, p)
    BY DEF Of, Live
  <2>. QED  BY <1>2, <2>1 DEF Aside
<1>. QED  BY <1>1, <1>2, <1>3, <1>4, KeptHolds DEF CInv

\* A request before it changes anything, or after it was answered.
LEMMA QuietKeeps ==
    ASSUME IInv, CInv, Tidy, NEW b \in Tabs, \A c \in Tabs : c # b => job'[c] = job[c],
           UNCHANGED <<setting, profile, envelope, toggle, line, erasing>>,
           job[b].pc \notin {"store", "update"}, job'[b].pc \notin {"store", "update"},
           job'[b].pc = "admitted" => job'[b].kind = "create",
           \A s \in Sessions : session'[s] \in {session[s], None} \/ session'[s].profile = None
    PROVE  CInv'
<1>. DEFINE e == <<"job", b>>
<1>1. HeldOK'
  BY TidyHolds DEF CInv
<1>2. Acts(e) /\ ~Waits(e) /\ ~Waits(e)'
  BY TabsStay, ActorFacts DEF Acts, Waits
<1>3. TogglesOK' /\ ErasingOK'
  BY NamesStay DEF CInv
<1>4. ASSUME NEW p \in Profiles PROVE Aside(e, p)
  <2>1. Of(session', p) \subseteq Of(session, p)
    BY Constants DEF Of, Live
  <2>2. \A c \in Tabs : job'[c] = job[c] \/ (~Storing(job[c], p) /\ ~Storing(job'[c], p))
    BY DEF Storing
  <2>3. amiss[p] \subseteq amiss'[p]
    BY DEF Tidy
  <2>. QED  BY <1>2, <2>1, <2>2, <2>3 DEF Aside
<1>. QED  BY <1>1, <1>2, <1>3, <1>4, KeptHolds DEF CInv

\* It ends.
LEMMA EndedKeeps ==
    ASSUME IInv, CInv, NEW b \in Tabs, NEW j \in {NoJob, Refusal}, job' = [job EXCEPT ![b] = j],
           UNCHANGED <<setting, profile, envelope, session, toggle, line, erasing, replaced, amiss>>,
           job[b].pc \notin {"store", "update"}
    PROVE  CInv'
<1>1. \A c \in Tabs : job'[c] = IF c = b THEN j ELSE job[c]
  BY DEF IInv, RequestTypes
<1>2. j.pc \in {"none", "refused"} /\ j.profile = None
  BY DEF NoJob, Refusal
<1>3. Tidy
  BY <1>1, <1>2 DEF Tidy
<1>. QED  BY <1>1, <1>2, <1>3, QuietKeeps

LEMMA RefuseKeeps == ASSUME IInv, CInv, NEW b \in Tabs, Refuse(b) PROVE CInv'
BY EndedKeeps DEF Refuse

LEMMA HeardKeeps == ASSUME IInv, CInv, NEW b \in Tabs, Heard(b) PROVE CInv'
BY EndedKeeps DEF Heard

LEMMA UnheardKeeps == ASSUME IInv, CInv, NEW b \in Tabs, Unheard(b) PROVE CInv'
BY EndedKeeps DEF Unheard

LEMMA FindAccountKeeps == ASSUME IInv, CInv, NEW b \in Tabs, FindAccount(b) PROVE CInv'
<1>. DEFINE j == [job[b] EXCEPT !.pc = "admitted"]
<1>1. /\ j.pc = "admitted" /\ j.kind = "create" /\ j.profile = job[b].profile
      /\ j.token = job[b].token /\ Working(b) /\ job[b].pc = "identify"
  BY DEF FindAccount, Working, IInv, RequestTypes, JobType
<1>2. CASE job' = [job EXCEPT ![b] = Refusal]
  BY <1>2, EndedKeeps DEF FindAccount
<1>3. CASE job' = [job EXCEPT ![b] = j]
  <2>1. \A c \in Tabs : job'[c] = IF c = b THEN j ELSE job[c]
    BY <1>3 DEF IInv, RequestTypes
  <2>2. ~Bearing(j)
    BY <1>1 DEF Bearing
  <2>. HIDE DEF j
  <2>3. Tidy
    BY <1>1, <2>1, <2>2 DEF Tidy, FindAccount
  <2>. QED  BY <1>1, <2>1, <2>3, QuietKeeps DEF FindAccount
<1>. QED  BY <1>2, <1>3 DEF FindAccount

LEMMA ConnectKeeps == ASSUME IInv, CInv, NEW b \in Tabs, Connect(b) PROVE CInv'
<1>1. session \in [Sessions -> SessionType] /\ job[b].pc = "identify" /\ Working(b)
  BY DEF IInv, StoreTypes, Connect, Working
<1>2. /\ \A s \in Sessions : session'[s] \in {session[s], [token |-> job[b].token, profile |-> None]}
      /\ \A c \in Tabs : c # b => job'[c] = job[c]
      /\ job'[b].profile = None /\ job'[b].pc \in {"answered", "refused"}
  BY <1>1, OpensFacts DEF Connect
<1>3. Tidy
  BY <1>1, <1>2 DEF Tidy, Connect, New
<1>. QED  BY <1>1, <1>2, <1>3, QuietKeeps DEF Connect

LEMMA EstablishKeeps ==
    ASSUME IInv, CInv, NEW b \in Tabs, NEW kind \in {"bare", "create", "reconnect", "resume"},
           NEW p \in Profiles \cup {None}, NEW x \in Tokens, NEW persist \in BOOLEAN,
           Establish(b, kind, p, x, persist),
           kind = "resume" => x = envelope[p]
    PROVE  CInv'
<1>. DEFINE j == [NoJob EXCEPT !.pc = "identify", !.kind = kind, !.profile = p,
                               !.token = x, !.persist = persist]
<1>1. j.pc = "identify" /\ j.kind = kind /\ j.profile = p /\ j.token = x
  BY DEF NoJob
<1>2. \A c \in Tabs : job'[c] = IF c = b THEN j ELSE job[c]
  BY DEF Establish, IInv, RequestTypes
<1>. HIDE DEF j
<1>3. \A q \in Profiles : amiss[q] \subseteq amiss'[q]
  BY DEF Establish, Marked, IInv, StoreTypes
<1>4. \/ p = None
      \/ "crossed" \in amiss'[p]
      \/ \A c \in Tabs : c # b => job'[c].profile # p
  <2>1. CASE p # None /\ Others(p)
    BY <2>1 DEF Establish, Marked, IInv, StoreTypes
  <2>2. CASE p # None /\ ~Others(p)
    BY <1>2, <2>2, Constants DEF Others, Working, IInv, JobsOK, Fits
  <2>. QED  BY <2>1, <2>2
<1>5. Bearing(j) => x = envelope[p]
  BY <1>1 DEF Bearing
<1>6. Tidy
  BY <1>1, <1>2, <1>3, <1>4, <1>5 DEF Tidy, Establish
<1>. QED  BY <1>1, <1>2, <1>6, QuietKeeps DEF Establish

LEMMA AskingKeeps == ASSUME IInv, CInv, NEW b \in Tabs, Asking(b) PROVE CInv'
<1>1. CASE ConnectToken(b)
  BY <1>1, EstablishKeeps DEF ConnectToken
<1>2. CASE ConnectProfile(b)
  <2>. PICK x \in Tokens, persist \in BOOLEAN : Establish(b, "create", None, x, persist)
    BY <1>2 DEF ConnectProfile
  <2>. QED  BY EstablishKeeps
<1>3. CASE ReconnectProfile(b)
  <2>. PICK p \in Profiles, x \in Tokens, persist \in BOOLEAN :
           profile[p].saved /\ Establish(b, "reconnect", p, x, persist)
    BY <1>3 DEF ReconnectProfile
  <2>. QED  BY EstablishKeeps
<1>4. CASE ResumeProfile(b)
  <2>. PICK p \in Profiles : /\ profile[p].saved
                             /\ envelope[p] # None
                             /\ Establish(b, "resume", p, envelope[p], TRUE)
    BY <1>4 DEF ResumeProfile
  <2>1. envelope[p] \in Tokens
    BY DEF CInv, HeldOK, TokensOK
  <2>. QED  BY <2>1, EstablishKeeps
<1>. QED  BY <1>1, <1>2, <1>3, <1>4, UnheardKeeps DEF Asking

LEMMA ManagerKeeps == ASSUME IInv, CInv, NEW b \in Tabs, Manager(b) PROVE CInv'
<1>1. CASE Disconnect(b) \/ Restore(b) \/ Restored(b) \/ TabGone(b)
  <2>1. UNCHANGED server
    BY <1>1 DEF Disconnect, Restore, Restored, TabGone
  <2>. QED  BY <2>1, EndingKeeps DEF server
<1>2. CASE Displaced(b)
  BY <1>2, RevokedIsLess, EndingKeeps DEF Displaced, Revoked, IInv
<1>3. CASE Withdrawn(b)
  BY <1>3, RevokedIsLess, EndingKeeps DEF Withdrawn, Revoked, IInv
<1>4. CASE Disconnected(b)
  <2>1. \/ session' = session
        \/ session' = [session EXCEPT ![tab[b].leaving] = None]
    BY <1>4 DEF Disconnected
  <2>. QED  BY <1>4, <2>1, RevokedIsLess, EndingKeeps DEF Disconnected, IInv
<1>. QED  BY <1>1, <1>2, <1>3, <1>4, HeardKeeps DEF Manager

LEMMA ExpireKeeps == ASSUME IInv, CInv, NEW s \in Sessions, Expire(s) PROVE CInv'
BY RevokedIsLess, EndingKeeps DEF Expire, IInv

LEMMA DisconnectConnectionKeeps ==
    ASSUME IInv, CInv, NEW p \in Profiles, DisconnectConnection(p) PROVE CInv'
BY DestroyedIsLess, EndingKeeps DEF DisconnectConnection, IInv

-----------------------------------------------------------------------------
(* The requests that change something.                                     *)

\* No entry of the line is about a connection that was not made yet.
LEMMA UnusedIsQuiet ==
    ASSUME IInv, KeptOK, NEW p \in Profiles, profile[p].account = None
    PROVE  \A i \in DOMAIN line : ~About(line[i], p)
<1>. TAKE i \in DOMAIN line
<1>1. \A b \in Tabs : job[b].profile # p
  BY DEF IInv, UnusedOK
<1>2. \A d \in Panels : toggle[d].profile # p
  BY DEF KeptOK, TogglesOK
<1>. QED  BY <1>1, <1>2, EntryFacts DEF About, KeptOK

LEMMA CreateProfileKeeps ==
    ASSUME IInv, CInv, NEW b \in Tabs, NEW p \in Profiles, CreateProfile(b, p) PROVE CInv'
<1>. DEFINE e == <<"job", b>>
<1>1. /\ profile[p] = Unused /\ profile[p].account = None
      /\ envelope[p] = None /\ Of(session, p) = {} /\ \A c \in Tabs : job[c].profile # p
      /\ \A q \in Profiles : profile'[q] = IF q = p THEN Made(b) ELSE profile[q]
      /\ \A s \in Sessions : session'[s] \in {session[s], [token |-> job[b].token, profile |-> p]}
      /\ \A c \in Tabs : c # b => job'[c] = job[c]
      /\ Stored(b, p).pc = "store" /\ Stored(b, p).profile = p
      /\ Stored(b, p).token = job[b].token
      /\ Stored(b, p).kind = job[b].kind /\ Stored(b, p).persist = job[b].persist
      /\ \/ /\ ~job[b].persist
            /\ job'[b].profile = None
            /\ job'[b].pc \in {"answered", "refused"}
         \/ job[b].persist /\ job'[b] = Stored(b, p)
      /\ AccountOf[job[b].token] # None
  BY CreateFacts
<1>2. /\ UNCHANGED <<setting, envelope, toggle, line, erasing, replaced, amiss>>
      /\ job[b].pc = "admitted" /\ Working(b) /\ job[b].kind = "create"
  BY DEF CreateProfile, Working, CInv, KeptOK, AdmittedOK
<1>3. profile'[p].account # None /\ (profile'[p].mode = "persistent" <=> job[b].persist)
  BY <1>1 DEF Made, Mode
<1>4. HeldOK'
  <2>1. \A c \in Tabs : c # b => job'[c].profile # p
    BY <1>1
  <2>2. Tidy
    BY <1>1, <1>2, <1>3, <2>1 DEF Tidy, New
  <2>. QED  BY <2>2, TidyHolds DEF CInv
<1>5. Acts(e) /\ ~Waits(e) /\ ~Waits(e)'
  BY <1>1, <1>2, TabsStay, ActorFacts DEF Acts, Waits
<1>6. TogglesOK' /\ ErasingOK'
  BY <1>1, <1>2, <1>3, NamesStay DEF CInv
<1>7. ASSUME NEW q \in Profiles, q # p PROVE Aside(e, q)
  <2>1. Of(session', q) \subseteq Of(session, q)
    BY <1>1, <1>7 DEF Of, Live
  <2>2. \A c \in Tabs : job'[c] = job[c] \/ (~Storing(job[c], q) /\ ~Storing(job'[c], q))
    BY <1>1, <1>2, <1>7 DEF Storing
  <2>. QED  BY <1>1, <1>2, <1>5, <1>7, <2>1, <2>2 DEF Aside
<1>8. \A i \in DOMAIN line' : ~About(line[i], p)'
  <2>1. \A i \in DOMAIN line : ~About(line[i], p)
    BY <1>1, UnusedIsQuiet DEF CInv
  <2>. QED  BY <2>1, <1>5, NoAboutStays DEF CInv, KeptOK
<1>9. StoreOK(p)'
  <2>1. Tabs' = Tabs
    BY <1>2, TabsStay
  <2>2. ASSUME NEW c \in Tabs, Storing(job'[c], p)
        PROVE  c = b /\ job[b].persist /\ job'[b] = Stored(b, p) /\ session' = session
    BY <2>2, <1>1 DEF Storing, CreateProfile
  <2>. QED  BY <1>1, <1>2, <1>3, <1>8, <2>1, <2>2 DEF StoreOK, Storing, Of, Live
<1>10. ModeOK(p)'
  <2>1. CASE job[b].persist
    <3>1. Storing(job'[b], p)
      BY <2>1, <1>1 DEF Storing
    <3>. QED  BY <3>1, <1>2, TabsStay DEF ModeOK, Storing
  <2>2. CASE ~job[b].persist
    <3>1. Agrees(p)'
      BY <2>2, <1>1, <1>2, <1>3, <1>8 DEF Agrees
    <3>. QED  BY <3>1 DEF ModeOK
  <2>. QED  BY <2>1, <2>2
<1>11. \A c \in Tabs : job'[c] = job[c] \/ job'[c].pc # "admitted" \/ job'[c].kind = "create"
  BY <1>1
<1>. QED  BY <1>4, <1>5, <1>6, <1>7, <1>9, <1>10, <1>11, KeptHolds DEF CInv

\* A new token replaces what was held; the request goes on to seal it or not.
LEMMA ReplaceFacts ==
    ASSUME IInv, NEW b \in Tabs, Replace(b), NEW p, p = job[b].profile
    PROVE  /\ p \in Profiles /\ profile[p].account # None
           /\ job[b].pc = "identify" /\ job[b].kind = "reconnect"
           /\ \A c \in Tabs : c # b => job'[c] = job[c]
           /\ job'[b].profile = p /\ job'[b].token = job[b].token /\ job'[b].kind = "reconnect"
           /\ job'[b].persist = job[b].persist
           /\ job'[b].pc = IF job[b].persist THEN "store" ELSE "update"
           /\ \A s \in Sessions : session'[s] \in {session[s], None}
           /\ Of(session', p) = {}
           /\ envelope'[p] = None \/ "kept" \in amiss'[p]
           /\ \A q \in Profiles : /\ envelope'[q] \in {envelope[q], None}
                                  /\ amiss[q] \subseteq amiss'[q]
           /\ \A q \in Profiles : q # p => envelope'[q] = envelope[q] /\ amiss'[q] = amiss[q]
<1>1. p \in Profiles /\ profile[p].account # None /\ job[b].kind = "reconnect" /\ job[b].pc = "identify"
  BY Named DEF Replace, Replacing, IInv, JobsOK, Fits, UnusedOK
<1>2. /\ \A c \in Tabs : c # b => job'[c] = job[c]
      /\ job'[b].profile = p /\ job'[b].token = job[b].token /\ job'[b].kind = "reconnect"
      /\ job'[b].persist = job[b].persist
      /\ job'[b].pc = IF job[b].persist THEN "store" ELSE "update"
  <2>. DEFINE pc == IF job[b].persist THEN "store" ELSE "update"
              j == [job[b] EXCEPT !.pc = pc]
  <2>1. j.profile = p /\ j.token = job[b].token /\ j.kind = "reconnect" /\ j.pc = pc
        /\ j.persist = job[b].persist
    BY <1>1 DEF IInv, RequestTypes, JobType
  <2>2. job' = [job EXCEPT ![b] = j]
    BY DEF Replace, Replacing
  <2>. HIDE DEF j
  <2>. QED  BY <2>1, <2>2 DEF IInv, RequestTypes
<1>3. session' = Destroyed(session, p) /\ Erases(p)
  BY DEF Replace, Replacing
<1>4. Of(session', p) = {}
  BY <1>3 DEF Destroyed, Of, Live
<1>5. \A s \in Sessions : session'[s] \in {session[s], None}
  BY <1>1, <1>3, DestroyedIsLess DEF IInv
<1>. QED  BY <1>1, <1>2, <1>3, <1>4, <1>5, ErasesFacts DEF IInv

LEMMA ReplaceKeepsHeld == ASSUME IInv, CInv, NEW b \in Tabs, Replace(b) PROVE HeldOK'
<1>. PICK p : p = job[b].profile
  OBVIOUS
<1>0. setting' = setting /\ Tabs' = Tabs /\ Tokens' = Tokens
  BY TabsStay DEF Replace, Replacing
<1>1. /\ p \in Profiles /\ profile[p].account # None
      /\ job[b].pc = "identify" /\ job[b].kind = "reconnect"
      /\ \A c \in Tabs : c # b => job'[c] = job[c]
      /\ job'[b].profile = p /\ job'[b].token = job[b].token
      /\ \A s \in Sessions : session'[s] \in {session[s], None}
      /\ Of(session', p) = {}
      /\ envelope'[p] = None \/ "kept" \in amiss'[p]
      /\ \A q \in Profiles : /\ envelope'[q] \in {envelope[q], None}
                             /\ amiss[q] \subseteq amiss'[q]
  BY ReplaceFacts
<1>2. TokensOK /\ profile' = profile
  BY DEF CInv, HeldOK, Replace, Replacing
<1>3. /\ replaced'[p] \subseteq Tokens
      /\ job[b].token \notin replaced'[p] /\ None \notin replaced'[p]
      /\ \A q \in Profiles : q # p => replaced'[q] = replaced[q]
      /\ replaced' \in [Profiles -> SUBSET Tokens]
  <2>. DEFINE out == (replaced[p] \cup {envelope[p]} \cup {session[s].token : s \in Of(session, p)})
                        \ {None, job[b].token}
  <2>1. replaced' = [replaced EXCEPT ![p] = out]
    BY DEF Replace, Replacing
  <2>2. out \subseteq Tokens
    BY <1>1, <1>2 DEF TokensOK, Of
  <2>3. job[b].token \notin out /\ None \notin out
    OBVIOUS
  <2>. HIDE DEF out
  <2>4. replaced \in [Profiles -> SUBSET Tokens] /\ p \in Profiles
    BY <1>1, <1>2 DEF TokensOK
  <2>. QED  BY <2>1, <2>2, <2>3, <2>4
<1>4. TokensOK'
  <2>1. \A q \in Profiles : envelope'[q] \in Tokens \cup {None}
    BY <1>1, <1>2 DEF TokensOK
  <2>2. \A s \in Live(session') : session'[s].token \in Tokens
    BY <1>1, <1>2 DEF TokensOK, Live
  <2>3. \A c \in Tabs : job'[c].pc \notin {"none", "answered", "refused"} => job'[c].token \in Tokens
    BY <1>1, <1>2 DEF TokensOK, Working
  <2>. QED  BY <1>0, <1>3, <2>1, <2>2, <2>3 DEF TokensOK, Live, Working
<1>5. ASSUME NEW q \in Profiles PROVE Sole(q)'
  <2>1. \A c \in Tabs : job'[c].profile = job[c].profile
    BY <1>1
  <2>2. Sole(q)
    BY DEF CInv, HeldOK
  <2>. QED  BY <1>0, <1>1, <2>1, <2>2 DEF Sole
<1>6. ASSUME NEW q \in Profiles, q # p PROVE OutOK(q)'
  <2>1. OutOK(q)
    BY DEF CInv, HeldOK
  <2>2. None \notin replaced[q]
    BY <1>2, Constants DEF TokensOK, IInv, RequestTypes, Tokens
  <2>3. Of(session', q) \subseteq Of(session, q) /\ \A s \in Of(session', q) : session'[s] = session[s]
    BY <1>1 DEF Of, Live
  <2>4. \A c \in Tabs : job'[c].profile = q => job'[c] = job[c]
    BY <1>1, <1>6
  <2>5. replaced'[q] = replaced[q] /\ envelope'[q] \in {envelope[q], None} /\ amiss[q] \subseteq amiss'[q]
    BY <1>1, <1>3, <1>6
  <2>. QED  BY <1>0, <1>2, <2>1, <2>2, <2>3, <2>4, <2>5 DEF OutOK, Of, Live
<1>7. OutOK(p)'
  <2>1. ASSUME amiss'[p] \cap {"kept", "crossed"} = {}, NEW c \in Tabs, job'[c].profile = p
        PROVE  job'[c].token \notin replaced'[p]
    <3>1. c = b
      BY <2>1, <1>1 DEF CInv, HeldOK, Sole
    <3>. QED  BY <3>1, <1>1, <1>3
  <2>. QED  BY <1>0, <1>1, <1>2, <1>3, <2>1 DEF OutOK, Of, Live
<1>. QED  BY <1>4, <1>5, <1>6, <1>7 DEF HeldOK

LEMMA ReplaceKeeps == ASSUME IInv, CInv, NEW b \in Tabs, Replace(b) PROVE CInv'
<1>. DEFINE e == <<"job", b>>
<1>. PICK p : p = job[b].profile
  OBVIOUS
<1>0. UNCHANGED <<setting, profile, toggle, erasing>> /\ ~Queued(p) /\ Tabs' = Tabs
  BY TabsStay DEF Replace, Replacing
<1>1. /\ p \in Profiles /\ profile[p].account # None
      /\ job[b].pc = "identify" /\ job[b].kind = "reconnect"
      /\ \A c \in Tabs : c # b => job'[c] = job[c]
      /\ job'[b].profile = p /\ job'[b].token = job[b].token /\ job'[b].kind = "reconnect"
      /\ job'[b].persist = job[b].persist
      /\ job'[b].pc = IF job[b].persist THEN "store" ELSE "update"
      /\ \A s \in Sessions : session'[s] \in {session[s], None}
      /\ Of(session', p) = {}
      /\ envelope'[p] = None \/ "kept" \in amiss'[p]
      /\ \A q \in Profiles : amiss[q] \subseteq amiss'[q]
      /\ \A q \in Profiles : q # p => envelope'[q] = envelope[q] /\ amiss'[q] = amiss[q]
  BY ReplaceFacts
<1>2. HeldOK'
  BY ReplaceKeepsHeld
<1>3. /\ Acts(e) /\ ~Waits(e)
      /\ About(e, p)' /\ (Wish(e)' <=> job[b].persist)
      /\ \A q \in Profiles : q # p => ~About(e, q)'
      /\ ~job[b].persist => line' = Append(line, e)
  <2>1. Waits(e)' <=> job'[b].pc = "update"
    BY <1>0 DEF Waits
  <2>2. ~Waits(e)
    BY <1>1 DEF Waits
  <2>3. /\ job[b].persist => line' = line /\ ~Waits(e)'
        /\ ~job[b].persist => line' = Append(line, e) /\ Waits(e)'
    BY <1>1, <2>1 DEF Replace, Replacing
  <2>4. Acts(e)
    BY <1>0, <1>1, <2>2, <2>3 DEF Acts
  <2>5. About(e, p)' /\ \A q \in Profiles : q # p => ~About(e, q)'
    BY <1>1 DEF About
  <2>6. Wish(e)' <=> job[b].persist
    BY <1>1 DEF Wish
  <2>. QED  BY <2>2, <2>3, <2>4, <2>5, <2>6
<1>4. TogglesOK' /\ ErasingOK'
  BY <1>0, NamesStay DEF CInv
<1>5. ASSUME NEW q \in Profiles, q # p PROVE Aside(e, q)
  <2>1. Of(session', q) \subseteq Of(session, q)
    BY <1>1 DEF Of, Live
  <2>2. \A c \in Tabs : job'[c] = job[c] \/ (~Storing(job[c], q) /\ ~Storing(job'[c], q))
    BY <1>1, <1>5 DEF Storing
  <2>. QED  BY <1>0, <1>1, <1>3, <1>5, <2>1, <2>2 DEF Aside
<1>6. StoreOK(p)'
  <2>. SUFFICES ASSUME NEW c \in Tabs, Storing(job'[c], p)
                PROVE  /\ job'[c].persist /\ job'[c].kind \notin {"resume", "create"}
                       /\ amiss'[p] \cap {"kept", "crossed"} = {} =>
                             envelope'[p] = None /\ Of(session', p) = {}
    BY <1>0 DEF StoreOK, Storing, Of, Live
  <2>1. CASE c = b
    BY <2>1, <1>1 DEF Storing
  <2>2. CASE c # b
    <3>1. Storing(job[c], p) /\ job'[c] = job[c]
      BY <2>2, <1>1
    <3>2. job[c].persist /\ job[c].kind # "resume"
      <4>1. StoreOK(p)
        BY <1>1 DEF CInv, KeptOK
      <4>. QED  BY <3>1, <4>1 DEF StoreOK
    <3>3. job[c].kind # "create"
      BY <3>1, <1>0 DEF Queued, Storing
    <3>. QED  BY <3>1, <3>2, <3>3, <1>1
  <2>. QED  BY <2>1, <2>2
<1>7. ModeOK(p)'
  <2>1. CASE job[b].persist
    <3>1. Storing(job'[b], p)
      BY <2>1, <1>1 DEF Storing
    <3>. QED  BY <3>1, <1>0 DEF ModeOK, Storing
  <2>2. CASE ~job[b].persist
    <3>. SUFFICES ASSUME "kept" \notin amiss'[p] PROVE Agrees(p)'
      BY DEF ModeOK
    <3>1. envelope'[p] = None
      BY <1>1
    <3>. QED  BY <2>2, <3>1, <1>1, <1>3, AgreesAppended DEF CInv, KeptOK
  <2>. QED  BY <2>1, <2>2
<1>8. \A c \in Tabs : job'[c] = job[c] \/ job'[c].pc # "admitted" \/ job'[c].kind = "create"
  BY <1>1
<1>. QED  BY <1>2, <1>3, <1>4, <1>5, <1>6, <1>7, <1>8, KeptHolds DEF CInv

\* The token is sealed.
LEMMA StoreFacts ==
    ASSUME IInv, CInv, NEW b \in Tabs, Store(b), NEW p, p = job[b].profile
    PROVE  /\ p \in Profiles /\ job[b].pc = "store" /\ job[b].token \in Tokens
           /\ job[b].persist /\ job[b].kind # "resume"
           /\ \A q \in Profiles : envelope'[q] = IF q = p THEN job[b].token ELSE envelope[q]
           /\ \A c \in Tabs : c # b => job'[c] = job[c]
           /\ \A s \in Sessions : session'[s] \in {session[s], [token |-> job[b].token, profile |-> p]}
           /\ \/ /\ job[b].kind = "create"
                 /\ job'[b].profile = None /\ job'[b].pc \in {"answered", "refused"}
                 /\ line' = line
              \/ /\ job[b].kind # "create"
                 /\ job'[b].profile = p /\ job'[b].token = job[b].token /\ job'[b].pc = "update"
                 /\ job'[b].kind = job[b].kind /\ job'[b].persist
                 /\ line' = Append(line, <<"job", b>>)
                 /\ session' = session
<1>. USE DEF IInv
<1>1. p \in Profiles /\ job[b].pc = "store"
  BY Named DEF Store, JobsOK, Fits
<1>2. job[b].token \in Tokens
  BY <1>1 DEF CInv, HeldOK, TokensOK, Working
<1>3. job[b].persist /\ job[b].kind # "resume"
  <2>1. StoreOK(p)
    BY <1>1 DEF CInv, KeptOK
  <2>. QED  BY <1>1, <2>1 DEF StoreOK, Storing
<1>4. \A q \in Profiles : envelope'[q] = IF q = p THEN job[b].token ELSE envelope[q]
  BY <1>1 DEF Store, StoreTypes
<1>5. CASE job[b].kind = "create"
  <2>1. Opens(b, session, p, "answered") /\ session \in [Sessions -> SessionType]
    BY <1>5 DEF Store, StoreTypes
  <2>2. /\ \A c \in Tabs : c # b => job'[c] = job[c]
        /\ \A s \in Sessions : session'[s] \in {session[s], [token |-> job[b].token, profile |-> p]}
        /\ job'[b].profile = None /\ job'[b].pc \in {"answered", "refused"}
    BY <1>1, <2>1, OpensFacts
  <2>. QED  BY <1>1, <1>2, <1>3, <1>4, <1>5, <2>2 DEF Store
<1>6. CASE job[b].kind # "create"
  <2>. DEFINE j == [job[b] EXCEPT !.pc = "update"]
  <2>1. /\ j.profile = p /\ j.token = job[b].token /\ j.pc = "update"
        /\ j.kind = job[b].kind /\ j.persist
    BY <1>3 DEF RequestTypes, JobType
  <2>2. job' = [job EXCEPT ![b] = j] /\ session' = session /\ line' = Append(line, <<"job", b>>)
    BY <1>6 DEF Store
  <2>. HIDE DEF j
  <2>3. job'[b] = j /\ \A c \in Tabs : c # b => job'[c] = job[c]
    BY <2>2 DEF RequestTypes
  <2>. QED  BY <1>1, <1>2, <1>3, <1>4, <1>6, <2>1, <2>2, <2>3
<1>. QED  BY <1>5, <1>6

LEMMA StoreKeeps == ASSUME IInv, CInv, NEW b \in Tabs, Store(b) PROVE CInv'
<1>. DEFINE e == <<"job", b>>
<1>. PICK p : p = job[b].profile
  OBVIOUS
<1>0. UNCHANGED <<setting, profile, toggle, erasing, replaced, amiss>> /\ Tabs' = Tabs
  BY TabsStay DEF Store
<1>1. /\ p \in Profiles /\ job[b].pc = "store" /\ job[b].token \in Tokens
      /\ job[b].persist /\ job[b].kind # "resume"
      /\ \A q \in Profiles : envelope'[q] = IF q = p THEN job[b].token ELSE envelope[q]
      /\ \A c \in Tabs : c # b => job'[c] = job[c]
      /\ \A s \in Sessions : session'[s] \in {session[s], [token |-> job[b].token, profile |-> p]}
      /\ \/ /\ job[b].kind = "create"
            /\ job'[b].profile = None /\ job'[b].pc \in {"answered", "refused"}
            /\ line' = line
         \/ /\ job[b].kind # "create"
            /\ job'[b].profile = p /\ job'[b].token = job[b].token /\ job'[b].pc = "update"
            /\ job'[b].kind = job[b].kind /\ job'[b].persist
            /\ line' = Append(line, e)
            /\ session' = session
  BY StoreFacts
<1>2. HeldOK'
  <2>1. Bearing(job[b]) /\ Working(b)
    BY <1>1 DEF Bearing, Working
  <2>2. \A q \in Profiles : \/ envelope'[q] = envelope[q]
                            \/ job[b].profile = q /\ envelope'[q] = job[b].token
    BY <1>1
  <2>3. Tidy
    BY <1>0, <1>1, <2>1, <2>2 DEF Tidy
  <2>. QED  BY <2>3, TidyHolds DEF CInv
<1>3. /\ Acts(e) /\ ~Waits(e)
      /\ Waits(e)' <=> job'[b].pc = "update"
      /\ \A q \in Profiles : q # p => ~About(e, q)'
  <2>1. Waits(e)' <=> job'[b].pc = "update"
    BY <1>0 DEF Waits
  <2>2. ~Waits(e)
    BY <1>1 DEF Waits
  <2>3. Acts(e)
    BY <1>0, <1>1, <2>1, <2>2 DEF Acts
  <2>4. \A q \in Profiles : q # p => ~About(e, q)'
    BY <1>1, Constants DEF About
  <2>. QED  BY <2>1, <2>2, <2>3, <2>4
<1>4. TogglesOK' /\ ErasingOK'
  BY <1>0, NamesStay DEF CInv
<1>5. ASSUME NEW q \in Profiles, q # p PROVE Aside(e, q)
  <2>1. Of(session', q) \subseteq Of(session, q)
    BY <1>1, <1>5 DEF Of, Live
  <2>2. \A c \in Tabs : job'[c] = job[c] \/ (~Storing(job[c], q) /\ ~Storing(job'[c], q))
    BY <1>1, <1>5 DEF Storing
  <2>. QED  BY <1>0, <1>1, <1>3, <1>5, <2>1, <2>2 DEF Aside
<1>6. /\ Storing(job[b], p) /\ ~Storing(job'[b], p)
      /\ \A c \in Tabs : Storing(job'[c], p) => c # b /\ Storing(job[c], p)
  BY <1>1 DEF Storing
<1>7. StoreOK(p)'
  <2>1. Spares(e, p)
    BY <1>0, <1>1, <1>6 DEF Spares
  <2>. QED  BY <2>1, <1>1, <1>3, SparesHolds DEF CInv, HeldOK, KeptOK
<1>8. ModeOK(p)'
  <2>0. envelope'[p] # None
    BY <1>1, Constants DEF IInv, RequestTypes, Tokens
  <2>1. CASE job[b].kind = "create"
    <3>1. StoreOK(p)
      BY <1>1 DEF CInv, KeptOK
    <3>2. profile[p].mode = "persistent" /\ \A i \in DOMAIN line : ~About(line[i], p)
      BY <2>1, <3>1, <1>6 DEF StoreOK
    <3>3. ~Waits(e)'
      BY <2>1, <1>1, <1>3
    <3>4. \A i \in DOMAIN line' : ~About(line[i], p)'
      BY <3>2, <3>3, <1>3, NoAboutStays DEF CInv, KeptOK
    <3>5. Agrees(p)'
      BY <2>0, <3>2, <3>4, <1>0 DEF Agrees
    <3>. QED  BY <3>5 DEF ModeOK
  <2>2. CASE job[b].kind # "create"
    <3>1. About(e, p)'
      BY <2>2, <1>1 DEF About
    <3>2. Wish(e)'
      BY <2>2, <1>1 DEF Wish
    <3>3. line' = Append(line, e)
      BY <2>2, <1>1
    <3>4. Agrees(p)'
      BY <2>0, <3>1, <3>2, <3>3, <1>1, <1>3, AgreesAppended DEF CInv, KeptOK
    <3>. QED  BY <3>4 DEF ModeOK
  <2>. QED  BY <2>1, <2>2
<1>9. \A c \in Tabs : job'[c] = job[c] \/ job'[c].pc # "admitted" \/ job'[c].kind = "create"
  BY <1>1
<1>. QED  BY <1>2, <1>3, <1>4, <1>5, <1>7, <1>8, <1>9, KeptHolds DEF CInv

\* It could not be sealed.
LEMMA StoreFailsKeeps == ASSUME IInv, CInv, NEW b \in Tabs, StoreFails(b) PROVE CInv'
<1>. DEFINE e == <<"job", b>>
<1>. PICK p : p = job[b].profile
  OBVIOUS
<1>0. /\ UNCHANGED <<setting, profile, envelope, session, toggle, erasing, replaced>> /\ Tabs' = Tabs
      /\ line' = Append(line, e) /\ job[b].pc = "store"
  BY TabsStay DEF StoreFails
<1>1. p \in Profiles /\ StoreOK(p)
  BY Named DEF StoreFails, IInv, JobsOK, Fits, CInv, KeptOK
<1>2. job[b].kind # "resume"
  BY <1>0, <1>1 DEF StoreOK, Storing
<1>3. /\ \A c \in Tabs : c # b => job'[c] = job[c]
      /\ job'[b].profile = p /\ job'[b].token = job[b].token /\ job'[b].pc = "update"
      /\ job'[b].kind = job[b].kind /\ ~job'[b].persist
  <2>1. /\ Unstored(b).profile = p /\ Unstored(b).token = job[b].token
        /\ Unstored(b).pc = "update" /\ Unstored(b).kind = job[b].kind /\ ~Unstored(b).persist
    BY DEF Unstored, IInv, RequestTypes, JobType
  <2>2. job'[b] = Unstored(b) /\ \A c \in Tabs : c # b => job'[c] = job[c]
    BY DEF StoreFails, IInv, RequestTypes
  <2>. QED  BY <2>1, <2>2
<1>4. /\ \A q \in Profiles : amiss[q] \subseteq amiss'[q]
      /\ "crossed" \in amiss[p] => "unstored" \in amiss'[p]
  BY <1>1 DEF StoreFails, Marked, IInv, StoreTypes
<1>5. HeldOK'
  <2>1. Bearing(job[b]) /\ Working(b)
    BY <1>0 DEF Bearing, Working
  <2>2. Tidy
    BY <1>0, <1>3, <1>4, <2>1 DEF Tidy
  <2>. QED  BY <2>2, TidyHolds DEF CInv
<1>6. /\ Acts(e) /\ ~Waits(e)
      /\ About(e, p)' /\ (Wish(e)' <=> FALSE)
      /\ \A q \in Profiles : q # p => ~About(e, q)'
  <2>1. Waits(e)'
    BY <1>0, <1>3 DEF Waits
  <2>2. ~Waits(e)
    BY <1>0 DEF Waits
  <2>3. Acts(e)
    BY <1>0, <1>3, <2>1, <2>2 DEF Acts
  <2>4. About(e, p)' /\ \A q \in Profiles : q # p => ~About(e, q)'
    BY <1>2, <1>3 DEF About
  <2>5. Wish(e)' <=> FALSE
    BY <1>3 DEF Wish
  <2>. QED  BY <2>2, <2>3, <2>4, <2>5
<1>7. TogglesOK' /\ ErasingOK'
  BY <1>0, NamesStay DEF CInv
<1>8. ASSUME NEW q \in Profiles, q # p PROVE Aside(e, q)
  <2>1. \A c \in Tabs : job'[c] = job[c] \/ (~Storing(job[c], q) /\ ~Storing(job'[c], q))
    BY <1>3, <1>8 DEF Storing
  <2>. QED  BY <1>0, <1>4, <1>6, <1>8, <2>1 DEF Aside
<1>9. Storing(job[b], p) /\ ~Storing(job'[b], p)
  BY <1>0, <1>3 DEF Storing
<1>10. StoreOK(p)'
  <2>1. Spares(e, p)
    BY <1>0, <1>1, <1>3, <1>4, <1>9 DEF Spares
  <2>. QED  BY <2>1, <1>1, <1>6, SparesHolds DEF CInv, HeldOK, KeptOK
<1>11. ModeOK(p)'
  <2>. SUFFICES ASSUME amiss'[p] \cap {"kept", "cut", "unstored"} = {} PROVE Agrees(p)'
    BY DEF ModeOK
  <2>1. amiss[p] \cap {"kept", "crossed"} = {}
    BY <1>1, <1>4
  <2>2. envelope'[p] = None
    BY <2>1, <1>0, <1>1, <1>9 DEF StoreOK
  <2>. QED  BY <2>2, <1>0, <1>1, <1>6, AgreesAppended DEF CInv, KeptOK
<1>12. \A c \in Tabs : job'[c] = job[c] \/ job'[c].pc # "admitted" \/ job'[c].kind = "create"
  BY <1>3
<1>. QED  BY <1>5, <1>6, <1>7, <1>8, <1>10, <1>11, <1>12, KeptHolds DEF CInv

\* A session from the envelope; the request takes its place in the line, but does
\* not ask for a mode.
LEMMA ResumeKeeps == ASSUME IInv, CInv, NEW b \in Tabs, Resume(b) PROVE CInv'
<1>. DEFINE e == <<"job", b>>
<1>. PICK p : p = job[b].profile
  OBVIOUS
<1>0. /\ UNCHANGED <<setting, profile, envelope, toggle, erasing, replaced, amiss>> /\ Tabs' = Tabs
      /\ job[b].pc = "identify" /\ job[b].kind = "resume"
      /\ line' = IF job'[b].pc = "update" THEN Append(line, e) ELSE line
  BY TabsStay DEF Resume
<1>1. /\ p \in Profiles
      /\ \A s \in Sessions : session'[s] \in {session[s], None, [token |-> job[b].token, profile |-> p]}
      /\ \A c \in Tabs : c # b => job'[c] = job[c]
      /\ \/ job'[b].profile = None /\ job'[b].pc \in {"answered", "refused"}
         \/ /\ job'[b].profile = p /\ job'[b].token = job[b].token
            /\ job'[b].pc = "update" /\ job'[b].kind = "resume"
  <2>. PICK ss : ss = Destroyed(session, p)
    OBVIOUS
  <2>1. p \in Profiles
    BY <1>0, Named DEF IInv, JobsOK, Fits
  <2>2. ss \in [Sessions -> SessionType] /\ \A s \in Sessions : ss[s] \in {session[s], None}
    BY <2>1, DestroyedIsLess DEF IInv
  <2>3. Opens(b, ss, p, "update")
    BY DEF Resume
  <2>4. /\ \A s \in Sessions : session'[s] \in {ss[s], [token |-> job[b].token, profile |-> p]}
        /\ \A c \in Tabs : c # b => job'[c] = job[c]
        /\ \/ job'[b].profile = None /\ job'[b].pc \in {"answered", "refused"}
           \/ /\ job'[b].profile = p /\ job'[b].token = job[b].token
              /\ job'[b].pc = "update" /\ job'[b].kind = job[b].kind
    BY <1>0, <2>1, <2>2, <2>3, OpensFacts
  <2>. QED  BY <1>0, <2>1, <2>2, <2>4
<1>2. HeldOK'
  <2>1. Bearing(job[b]) /\ Working(b)
    BY <1>0 DEF Bearing, Working
  <2>2. Tidy
    BY <1>0, <1>1, <2>1 DEF Tidy
  <2>. QED  BY <2>2, TidyHolds DEF CInv
<1>3. /\ Acts(e) /\ ~Waits(e)
      /\ \A q \in Profiles : ~About(e, q)'
  <2>1. Waits(e)' <=> job'[b].pc = "update"
    BY <1>0 DEF Waits
  <2>2. ~Waits(e)
    BY <1>0 DEF Waits
  <2>3. Acts(e)
    BY <1>0, <1>1, <2>1, <2>2 DEF Acts
  <2>4. \A q \in Profiles : ~About(e, q)'
    BY <1>1, Constants DEF About
  <2>. QED  BY <2>2, <2>3, <2>4
<1>4. TogglesOK' /\ ErasingOK'
  BY <1>0, NamesStay DEF CInv
<1>5. ASSUME NEW q \in Profiles PROVE Aside(e, q)
  <2>1. \A c \in Tabs : job'[c] = job[c] \/ (~Storing(job[c], q) /\ ~Storing(job'[c], q))
    BY <1>0, <1>1 DEF Storing
  <2>2. \/ Of(session', q) \subseteq Of(session, q)
        \/ \E c \in Tabs : job[c].profile = q /\ ~Storing(job'[c], q)
    <3>1. CASE q = p
      BY <3>1, <1>0, <1>1 DEF Storing
    <3>2. CASE q # p
      BY <3>2, <1>1 DEF Of, Live
    <3>. QED  BY <3>1, <3>2
  <2>. QED  BY <1>0, <1>3, <2>1, <2>2 DEF Aside
<1>6. \A c \in Tabs : job'[c] = job[c] \/ job'[c].pc # "admitted" \/ job'[c].kind = "create"
  BY <1>1
<1>. QED  BY <1>2, <1>3, <1>4, <1>5, <1>6, KeptHolds DEF CInv

\* The request at the head of the line is answered, and sets the mode first
\* unless it resumes or the connection was removed.
LEMMA UpdateFacts ==
    ASSUME IInv, NEW b \in Tabs, Update(b), NEW p, p = job[b].profile
    PROVE  /\ p \in Profiles /\ job[b].pc = "update"
           /\ \A c \in Tabs : c # b => job'[c] = job[c]
           /\ job'[b].profile = None /\ job'[b].pc \in {"answered", "refused"}
           /\ \A s \in Sessions : session'[s] \in {session[s], [token |-> job[b].token, profile |-> p]}
           /\ \A q \in Profiles : /\ profile'[q].account = profile[q].account
                                  /\ profile'[q].saved = profile[q].saved
                                  /\ q # p => profile'[q] = profile[q]
           /\ \/ UNCHANGED <<profile, session>> /\ (~profile[p].saved \/ job[b].kind = "resume")
              \/ /\ profile[p].saved /\ job[b].kind # "resume"
                 /\ profile'[p].mode = "persistent" <=> job[b].persist
<1>. USE DEF IInv
<1>1. p \in Profiles /\ job[b].pc = "update" /\ job[b].session \in Sessions \cup {None}
  BY Named DEF Update, JobsOK, Fits, RequestTypes, JobType
<1>2. CASE ~profile[p].saved /\ job' = [job EXCEPT ![b] = Refusal] /\ UNCHANGED <<profile, session>>
  BY <1>1, <1>2, JobValues DEF RequestTypes
<1>3. CASE /\ job[b].kind = "resume"
           /\ job' = [job EXCEPT ![b] = Answer(job[b].session)] /\ UNCHANGED <<profile, session>>
  BY <1>1, <1>3, JobValues DEF RequestTypes
<1>4. CASE /\ profile[p].saved /\ job[b].kind # "resume"
           /\ profile' = [profile EXCEPT ![p].mode = Mode(job[b].persist)]
           /\ Opens(b, session, p, "answered")
  <2>1. /\ \A s \in Sessions : session'[s] \in {session[s], [token |-> job[b].token, profile |-> p]}
        /\ \A c \in Tabs : c # b => job'[c] = job[c]
        /\ job'[b].profile = None /\ job'[b].pc \in {"answered", "refused"}
    <3>1. session \in [Sessions -> SessionType]
      BY DEF StoreTypes
    <3>. QED  BY <1>1, <1>4, <3>1, OpensFacts
  <2>2. job[b].persist \in BOOLEAN /\ profile \in [Profiles -> ProfileType]
    BY DEF RequestTypes, JobType, StoreTypes
  <2>3. \A q \in Profiles : /\ profile'[q].account = profile[q].account
                            /\ profile'[q].saved = profile[q].saved
    BY <1>1, <1>4, <2>2, ModeFacts
  <2>4. \A q \in Profiles : q # p => profile'[q] = profile[q]
    BY <1>4, <2>2
  <2>5. profile'[p].mode = Mode(job[b].persist)
    BY <1>1, <1>4, <2>2 DEF ProfileType
  <2>. QED  BY <1>1, <1>4, <2>1, <2>3, <2>4, <2>5 DEF Mode
<1>. QED  BY <1>2, <1>3, <1>4 DEF Update

LEMMA UpdateKeeps == ASSUME IInv, CInv, NEW b \in Tabs, Update(b) PROVE CInv'
<1>. DEFINE e == <<"job", b>>
<1>. PICK p : p = job[b].profile
  OBVIOUS
<1>0. /\ UNCHANGED <<setting, envelope, toggle, erasing, replaced, amiss>> /\ Tabs' = Tabs
      /\ line # <<>> /\ Head(line) = e /\ line' = Tail(line)
  BY TabsStay DEF Update
<1>1. /\ p \in Profiles /\ job[b].pc = "update"
      /\ \A c \in Tabs : c # b => job'[c] = job[c]
      /\ job'[b].profile = None /\ job'[b].pc \in {"answered", "refused"}
      /\ \A s \in Sessions : session'[s] \in {session[s], [token |-> job[b].token, profile |-> p]}
      /\ \A q \in Profiles : /\ profile'[q].account = profile[q].account
                             /\ profile'[q].saved = profile[q].saved
                             /\ q # p => profile'[q] = profile[q]
      /\ \/ UNCHANGED <<profile, session>> /\ (~profile[p].saved \/ job[b].kind = "resume")
         \/ /\ profile[p].saved /\ job[b].kind # "resume"
            /\ profile'[p].mode = "persistent" <=> job[b].persist
  BY UpdateFacts
<1>2. HeldOK'
  <2>1. Bearing(job[b]) /\ Working(b)
    BY <1>1 DEF Bearing, Working
  <2>2. Tidy
    BY <1>0, <1>1, <2>1 DEF Tidy
  <2>. QED  BY <2>2, TidyHolds DEF CInv
<1>3. /\ Acts(e)
      /\ ~Waits(e)'
      /\ \A q \in Profiles : About(e, q) <=> (q = p /\ job[b].kind # "resume")
      /\ Wish(e) = job[b].persist
  <2>1. ~Waits(e)'
    BY <1>0, <1>1 DEF Waits
  <2>2. Acts(e)
    BY <1>0, <1>1 DEF Acts
  <2>. QED  BY <2>1, <2>2, <1>1, ActorFacts
<1>4. TogglesOK' /\ ErasingOK'
  BY <1>0, <1>1, NamesStay DEF CInv
<1>5. \A q \in Profiles, c \in Tabs :
         job'[c] = job[c] \/ (~Storing(job[c], q) /\ ~Storing(job'[c], q))
  BY <1>1 DEF Storing
<1>6. ASSUME NEW q \in Profiles, q # p \/ job[b].kind = "resume" PROVE Aside(e, q)
  <2>1. Of(session', q) \subseteq Of(session, q)
    BY <1>1, <1>6 DEF Of, Live
  <2>2. profile'[q] = profile[q]
    BY <1>1, <1>6
  <2>. QED  BY <1>0, <1>3, <1>5, <1>6, <2>1, <2>2 DEF Aside
<1>7. ASSUME job[b].kind # "resume" PROVE StoreOK(p)' /\ ModeOK(p)'
  <2>0. LineOK /\ Sole(p) /\ StoreOK(p) /\ ModeOK(p) /\ About(e, p)
    BY <1>1, <1>3, <1>7 DEF CInv, HeldOK, KeptOK
  <2>1. StoreOK(p)'
    <3>1. \E i \in DOMAIN line : About(line[i], p)
      <4>1. PICK w : w = e
        OBVIOUS
      <4>2. 1 \in DOMAIN line /\ line[1] = w
        BY <2>0, <1>0, <4>1 DEF LineOK
      <4>3. About(w, p)
        BY <2>0, <4>1
      <4>. QED  BY <4>2, <4>3
    <3>2. ~Storing(job'[b], p)
      BY <1>1 DEF Storing
    <3>3. Spares(e, p)
      BY <1>0, <1>1, <1>3, <1>5, <3>1, <3>2 DEF Spares
    <3>. QED  BY <2>0, <3>3, <1>1, <1>3, SparesHolds
  <2>2. ModeOK(p)'
    <3>. SUFFICES ASSUME profile'[p].saved, amiss'[p] \cap {"kept", "cut", "unstored"} = {},
                         \A c \in Tabs : ~Storing(job'[c], p)
                  PROVE  Agrees(p)'
      BY <1>0 DEF ModeOK, Storing
    <3>1. profile[p].saved /\ (profile'[p].mode = "persistent" <=> job[b].persist)
      BY <1>1, <1>7
    <3>2. \A c \in Tabs : ~Storing(job[c], p)
      BY <1>1, <1>5
    <3>3. Agrees(p)
      BY <2>0, <3>1, <3>2, <1>0 DEF ModeOK
    <3>. QED  BY <2>0, <3>1, <3>3, <1>0, <1>1, <1>3, AgreesPopped
  <2>. QED  BY <2>1, <2>2
<1>8. \A c \in Tabs : job'[c] = job[c] \/ job'[c].pc # "admitted" \/ job'[c].kind = "create"
  BY <1>1
<1>9. \A q \in Profiles : Aside(e, q) \/ (StoreOK(q)' /\ ModeOK(q)')
  BY <1>6, <1>7
<1>. QED  BY <1>2, <1>3, <1>4, <1>8, <1>9, KeptHolds DEF CInv

LEMMA EstablishingKeeps == ASSUME IInv, CInv, NEW b \in Tabs, Establishing(b) PROVE CInv'
BY RefuseKeeps, ConnectKeeps, FindAccountKeeps, CreateProfileKeeps, ReplaceKeeps, StoreKeeps,
   StoreFailsKeeps, ResumeKeeps, UpdateKeeps DEF Establishing

-----------------------------------------------------------------------------
(* The panel, the removal and the restart.                                 *)

LEMMA StartToggleKeeps ==
    ASSUME IInv, CInv, NEW d \in Panels, NEW p \in Profiles, NEW on \in BOOLEAN, StartToggle(d, p, on)
    PROVE  CInv'
<1>. DEFINE e == <<"toggle", d>>
<1>0. /\ UNCHANGED <<setting, profile, envelope, session, job, line, erasing, replaced, amiss>>
      /\ Tabs' = Tabs /\ Panels' = Panels /\ toggle[d].pc = "none"
  BY TabsStay DEF StartToggle
<1>1. /\ \A c \in Panels : c # d => toggle'[c] = toggle[c]
      /\ toggle'[d].pc = "begun" /\ toggle'[d].profile = p
  BY DEF StartToggle, IInv, RequestTypes
<1>2. HeldOK'
  <2>1. Tidy
    BY <1>0 DEF Tidy
  <2>. QED  BY <2>1, TidyHolds DEF CInv
<1>3. Acts(e) /\ ~Waits(e) /\ ~Waits(e)'
  <2>1. ~Waits(e) /\ ~Waits(e)'
    BY <1>0, <1>1 DEF Waits
  <2>. QED  BY <1>0, <1>1, <2>1 DEF Acts
<1>4. TogglesOK' /\ ErasingOK'
  <2>1. profile[p].account # None
    BY DEF StartToggle, IInv, UnusedOK, Unused
  <2>2. TogglesOK'
    BY <1>0, <1>1, <2>1 DEF TogglesOK, CInv, KeptOK
  <2>3. ErasingOK'
    BY <1>0 DEF ErasingOK, CInv, KeptOK
  <2>. QED  BY <2>2, <2>3
<1>5. ASSUME NEW q \in Profiles PROVE Aside(e, q)
  BY <1>0, <1>3 DEF Aside
<1>. QED  BY <1>0, <1>2, <1>3, <1>4, <1>5, KeptHolds DEF CInv

\* A toggle that goes on, and one that ends.
LEMMA ToggleMoves ==
    ASSUME IInv, NEW d \in Panels, toggle[d].pc # "none",
           NEW pc, pc \in {"none", "update"},
           toggle' = IF pc = "none" THEN [toggle EXCEPT ![d] = NoToggle]
                                    ELSE [toggle EXCEPT ![d].pc = "update"]
    PROVE  /\ \A c \in Panels : c # d => toggle'[c] = toggle[c]
           /\ toggle'[d].pc = pc
           /\ pc = "none" => toggle'[d].profile = None
           /\ pc = "update" => toggle'[d].profile = toggle[d].profile /\ toggle'[d].on = toggle[d].on
           /\ \A c \in Panels : toggle'[c].profile \in {None, toggle[c].profile}
<1>1. CASE pc = "none"
  BY <1>1 DEF IInv, RequestTypes, NoToggle
<1>2. CASE pc = "update"
  <2>. DEFINE t == [toggle[d] EXCEPT !.pc = "update"]
  <2>1. toggle[d] \in [pc : {"begun", "update"}, profile : Profiles, on : BOOLEAN]
    BY DEF IInv, RequestTypes, ToggleType, NoToggle
  <2>2. t.pc = "update" /\ t.profile = toggle[d].profile /\ t.on = toggle[d].on
    BY <2>1
  <2>3. toggle' = [toggle EXCEPT ![d] = t]
    BY <1>2
  <2>. HIDE DEF t
  <2>4. toggle'[d] = t /\ \A c \in Panels : c # d => toggle'[c] = toggle[c]
    BY <2>3 DEF IInv, RequestTypes
  <2>. QED  BY <1>2, <2>2, <2>4
<1>. QED  BY <1>1, <1>2

\* A panel's request takes its place in the line after it set the envelope so.
LEMMA ToggledKeeps ==
    ASSUME IInv, CInv, NEW d \in Panels, toggle[d].pc = "begun", Toggled(d),
           UNCHANGED <<setting, profile, session, job, erasing, replaced>>,
           NEW p \in Profiles, p = toggle[d].profile, ~Queued(p), HeldOK',
           \A q \in Profiles : amiss[q] \subseteq amiss'[q],
           \A q \in Profiles : q # p => envelope'[q] = envelope[q],
           \/ envelope'[p] # None => envelope[p] # None
           \/ Of(session, p) # {},
           "kept" \in amiss'[p] \/ (toggle[d].on <=> envelope'[p] # None)
    PROVE  CInv'
<1>. DEFINE e == <<"toggle", d>>
<1>0. Tabs' = Tabs /\ Panels' = Panels /\ line' = Append(line, e)
  BY TabsStay DEF Toggled
<1>1. /\ \A c \in Panels : c # d => toggle'[c] = toggle[c]
      /\ toggle'[d].pc = "update"
      /\ toggle'[d].profile = p /\ toggle'[d].on = toggle[d].on
      /\ \A c \in Panels : toggle'[c].profile \in {None, toggle[c].profile}
  <2>1. toggle' = [toggle EXCEPT ![d].pc = "update"]
    BY DEF Toggled
  <2>. QED  BY <2>1, ToggleMoves
<1>2. /\ Acts(e) /\ ~Waits(e)
      /\ About(e, p)' /\ (Wish(e)' <=> toggle[d].on)
      /\ \A q \in Profiles : q # p => ~About(e, q)'
  <2>1. ~Waits(e) /\ Waits(e)'
    BY <1>0, <1>1 DEF Waits
  <2>2. Acts(e)
    BY <1>0, <1>1, <2>1 DEF Acts
  <2>3. About(e, p)' /\ \A q \in Profiles : q # p => ~About(e, q)'
    BY <1>1 DEF About
  <2>4. Wish(e)' <=> toggle[d].on
    BY <1>1 DEF Wish
  <2>. QED  BY <2>1, <2>2, <2>3, <2>4
<1>3. TogglesOK' /\ ErasingOK'
  BY <1>1, NamesStay DEF CInv
<1>4. ASSUME NEW q \in Profiles, q # p PROVE Aside(e, q)
  <2>1. Of(session', q) = Of(session, q)
    OBVIOUS
  <2>. QED  BY <1>2, <1>4, <2>1 DEF Aside
<1>5. StoreOK(p)'
  <2>1. Spares(e, p)
    BY DEF Spares
  <2>. QED  BY <2>1, <1>2, SparesHolds DEF CInv, HeldOK, KeptOK
<1>6. ModeOK(p)'
  <2>. SUFFICES ASSUME "kept" \notin amiss'[p] PROVE Agrees(p)'
    BY DEF ModeOK
  <2>. QED  BY <1>0, <1>2, AgreesAppended DEF CInv, KeptOK
<1>. QED  BY <1>2, <1>3, <1>4, <1>5, <1>6, KeptHolds DEF CInv

LEMMA PersistOnKeeps == ASSUME IInv, CInv, NEW d \in Panels, PersistOn(d) PROVE CInv'
<1>. PICK p : p = toggle[d].profile
  OBVIOUS
<1>0. /\ UNCHANGED <<setting, profile, session, job, erasing, replaced, amiss>>
      /\ p \in Profiles /\ toggle[d].pc = "begun" /\ toggle[d].on /\ ~Queued(p)
  BY ToggleFacts DEF PersistOn, IInv
<1>1. CASE /\ \E s \in Of(session, p) : envelope' = [envelope EXCEPT ![p] = session[s].token]
           /\ Toggled(d)
  <2>. PICK s \in Of(session, p) : envelope' = [envelope EXCEPT ![p] = session[s].token]
    BY <1>1
  <2>1. /\ envelope'[p] = session[s].token
        /\ \A q \in Profiles : q # p => envelope'[q] = envelope[q]
    BY <1>0 DEF IInv, StoreTypes
  <2>2. envelope'[p] # None
    BY <2>1, Constants DEF CInv, HeldOK, TokensOK, Of, IInv, RequestTypes, Tokens
  <2>3. HeldOK'
    <3>1. \A q \in Profiles : \/ envelope'[q] = envelope[q]
                              \/ \E r \in Of(session, q) : envelope'[q] = session[r].token
      BY <2>1
    <3>2. Tidy
      BY <1>0, <3>1 DEF Tidy
    <3>. QED  BY <3>2, TidyHolds DEF CInv
  <2>. QED  BY <1>0, <1>1, <2>1, <2>2, <2>3, ToggledKeeps
<1>2. CASE toggle' = [toggle EXCEPT ![d] = NoToggle] /\ UNCHANGED <<envelope, line>>
  <2>. DEFINE e == <<"toggle", d>>
  <2>1. /\ \A c \in Panels : c # d => toggle'[c] = toggle[c]
        /\ toggle'[d].pc = "none"
        /\ \A c \in Panels : toggle'[c].profile \in {None, toggle[c].profile}
    BY <1>0, <1>2, ToggleMoves
  <2>2. HeldOK'
    <3>1. Tidy
      BY <1>0, <1>2 DEF Tidy
    <3>. QED  BY <3>1, TidyHolds DEF CInv
  <2>3. Acts(e) /\ ~Waits(e) /\ ~Waits(e)'
    <3>1. ~Waits(e) /\ ~Waits(e)'
      BY <1>0, <2>1, TabsStay DEF Waits
    <3>. QED  BY <1>0, <1>2, <2>1, <3>1 DEF Acts
  <2>4. TogglesOK' /\ ErasingOK'
    BY <1>0, <2>1, NamesStay DEF CInv
  <2>5. ASSUME NEW q \in Profiles PROVE Aside(e, q)
    BY <1>0, <1>2, <2>3 DEF Aside
  <2>. QED  BY <1>0, <2>2, <2>3, <2>4, <2>5, KeptHolds DEF CInv
<1>. QED  BY <1>1, <1>2 DEF PersistOn

LEMMA PersistOffKeeps == ASSUME IInv, CInv, NEW d \in Panels, PersistOff(d) PROVE CInv'
<1>. PICK p : p = toggle[d].profile
  OBVIOUS
<1>0. /\ UNCHANGED <<setting, profile, session, job, erasing, replaced>>
      /\ p \in Profiles /\ toggle[d].pc = "begun" /\ ~toggle[d].on /\ ~Queued(p)
      /\ Toggled(d) /\ Erases(p)
  BY ToggleFacts DEF PersistOff, IInv
<1>1. /\ \A q \in Profiles : /\ envelope'[q] \in {envelope[q], None}
                             /\ amiss[q] \subseteq amiss'[q]
      /\ \A q \in Profiles : q # p => envelope'[q] = envelope[q]
      /\ envelope'[p] = None \/ "kept" \in amiss'[p]
  BY <1>0, ErasesFacts DEF IInv
<1>2. HeldOK'
  <2>1. Tidy
    BY <1>0, <1>1 DEF Tidy
  <2>. QED  BY <2>1, TidyHolds DEF CInv
<1>. QED  BY <1>0, <1>1, <1>2, ToggledKeeps

LEMMA PersistUpdateKeeps == ASSUME IInv, CInv, NEW d \in Panels, PersistUpdate(d) PROVE CInv'
<1>. DEFINE e == <<"toggle", d>>
<1>. PICK p : p = toggle[d].profile
  OBVIOUS
<1>0. /\ UNCHANGED <<setting, envelope, session, job, erasing, replaced, amiss>>
      /\ Tabs' = Tabs /\ Panels' = Panels
      /\ line # <<>> /\ Head(line) = e /\ line' = Tail(line)
      /\ p \in Profiles /\ toggle[d].pc = "update" /\ toggle[d].on \in BOOLEAN
  BY TabsStay, ToggleFacts DEF PersistUpdate, IInv
<1>1. /\ \A q \in Profiles : /\ profile'[q].account = profile[q].account
                             /\ profile'[q].saved = profile[q].saved
                             /\ q # p => profile'[q] = profile[q]
      /\ profile[p].saved => (profile'[p].mode = "persistent" <=> toggle[d].on)
  <2>1. CASE profile[p].saved
    <3>1. profile' = [profile EXCEPT ![p].mode = Mode(toggle[d].on)]
      BY <2>1 DEF PersistUpdate
    <3>2. profile \in [Profiles -> ProfileType]
      BY DEF IInv, StoreTypes
    <3>3. profile'[p].mode = Mode(toggle[d].on)
      BY <1>0, <3>1, <3>2 DEF ProfileType
    <3>4. \A q \in Profiles : q # p => profile'[q] = profile[q]
      BY <3>1, <3>2
    <3>5. \A q \in Profiles : /\ profile'[q].account = profile[q].account
                              /\ profile'[q].saved = profile[q].saved
      BY <1>0, <2>1, <3>1, ModeFacts DEF IInv
    <3>. QED  BY <3>3, <3>4, <3>5 DEF Mode
  <2>2. CASE ~profile[p].saved
    BY <2>2 DEF PersistUpdate
  <2>. QED  BY <2>1, <2>2
<1>2. /\ \A c \in Panels : c # d => toggle'[c] = toggle[c]
      /\ toggle'[d].pc = "none" /\ toggle'[d].profile = None
      /\ \A c \in Panels : toggle'[c].profile \in {None, toggle[c].profile}
  <2>1. toggle' = [toggle EXCEPT ![d] = NoToggle]
    BY DEF PersistUpdate
  <2>. QED  BY <1>0, <2>1, ToggleMoves
<1>3. HeldOK'
  <2>1. Tidy
    BY <1>0, <1>1 DEF Tidy
  <2>. QED  BY <2>1, TidyHolds DEF CInv
<1>4. /\ Acts(e)
      /\ ~Waits(e)'
      /\ \A q \in Profiles : About(e, q) <=> q = p
      /\ Wish(e) = toggle[d].on
  <2>1. ~Waits(e)'
    BY <1>0, <1>2 DEF Waits
  <2>2. Acts(e)
    BY <1>0, <1>2 DEF Acts
  <2>. QED  BY <2>1, <2>2, ActorFacts
<1>5. TogglesOK' /\ ErasingOK'
  BY <1>0, <1>1, <1>2, NamesStay DEF CInv
<1>6. ASSUME NEW q \in Profiles, q # p PROVE Aside(e, q)
  BY <1>0, <1>1, <1>4, <1>6 DEF Aside
<1>7. StoreOK(p)' /\ ModeOK(p)'
  <2>0. LineOK /\ Sole(p) /\ StoreOK(p) /\ ModeOK(p) /\ About(e, p)
    BY <1>0, <1>4 DEF CInv, HeldOK, KeptOK
  <2>1. StoreOK(p)'
    <3>1. \E i \in DOMAIN line : About(line[i], p)
      <4>1. PICK w : w = e
        OBVIOUS
      <4>2. 1 \in DOMAIN line /\ line[1] = w
        BY <2>0, <1>0, <4>1 DEF LineOK
      <4>3. About(w, p)
        BY <2>0, <4>1
      <4>. QED  BY <4>2, <4>3
    <3>2. Spares(e, p)
      BY <1>0, <1>4, <3>1 DEF Spares
    <3>. QED  BY <2>0, <3>2, <1>0, <1>4, SparesHolds
  <2>2. ModeOK(p)'
    <3>. SUFFICES ASSUME profile'[p].saved, amiss[p] \cap {"kept", "cut", "unstored"} = {},
                         \A c \in Tabs : ~Storing(job[c], p)
                  PROVE  Agrees(p)'
      BY <1>0 DEF ModeOK, Storing
    <3>1. profile[p].saved /\ (profile'[p].mode = "persistent" <=> toggle[d].on)
      BY <1>0, <1>1
    <3>2. Agrees(p)
      BY <2>0, <3>1 DEF ModeOK
    <3>. QED  BY <2>0, <3>1, <3>2, <1>0, <1>4, AgreesPopped
  <2>. QED  BY <2>1, <2>2
<1>8. \A q \in Profiles : Aside(e, q) \/ (StoreOK(q)' /\ ModeOK(q)')
  BY <1>6, <1>7
<1>. QED  BY <1>0, <1>3, <1>4, <1>5, <1>8, KeptHolds DEF CInv

LEMMA PanelKeeps == ASSUME IInv, CInv, NEW d \in Panels, Panel(d) PROVE CInv'
BY StartToggleKeeps, PersistOnKeeps, PersistOffKeeps, PersistUpdateKeeps DEF Panel

LEMMA RemoveConnectionKeeps ==
    ASSUME IInv, CInv, NEW p \in Profiles, RemoveConnection(p) PROVE CInv'
<1>0. /\ UNCHANGED <<setting, envelope, job, toggle, line, replaced>> /\ Tabs' = Tabs
      /\ Panels' = Panels /\ profile[p].saved /\ erasing' = erasing \cup {p}
  BY TabsStay DEF RemoveConnection
<1>1. /\ profile' = [profile EXCEPT ![p].saved = FALSE]
      /\ profile \in [Profiles -> ProfileType]
  BY DEF RemoveConnection, IInv, StoreTypes
<1>2. /\ ~profile'[p].saved
      /\ \A q \in Profiles : /\ profile'[q].account = profile[q].account
                             /\ profile'[q].mode = profile[q].mode
                             /\ q # p => profile'[q] = profile[q]
  BY <1>1 DEF ProfileType
<1>3. \A s \in Sessions : session'[s] \in {session[s], None}
  BY DestroyedIsLess DEF RemoveConnection, IInv
<1>4. \A q \in Profiles : amiss[q] \subseteq amiss'[q]
  BY DEF RemoveConnection, Marked, IInv, StoreTypes
<1>5. HeldOK'
  <2>1. Tidy
    BY <1>0, <1>2, <1>3, <1>4 DEF Tidy
  <2>. QED  BY <2>1, TidyHolds DEF CInv
<1>6. Acts(Nobody) /\ ~Waits(Nobody) /\ ~Waits(Nobody)'
  BY <1>0 DEF Acts, Waits, Nobody
<1>7. TogglesOK' /\ ErasingOK'
  <2>1. profile[p].account # None
    BY <1>0 DEF IInv, UnusedOK, Unused
  <2>2. TogglesOK'
    BY <1>0, <1>2 DEF CInv, KeptOK, TogglesOK
  <2>3. ASSUME NEW q \in erasing' PROVE ~profile'[q].saved /\ profile'[q].account # None
    BY <1>0, <1>2, <2>1, <2>3 DEF CInv, KeptOK, ErasingOK, IInv, StoreTypes
  <2>. QED  BY <2>2, <2>3 DEF ErasingOK
<1>8. ASSUME NEW q \in Profiles PROVE Of(session', q) \subseteq Of(session, q)
  BY <1>3 DEF Of, Live
<1>9. ASSUME NEW q \in Profiles, q # p PROVE Aside(Nobody, q)
  BY <1>0, <1>2, <1>4, <1>6, <1>8, <1>9 DEF Aside
<1>10. StoreOK(p)' /\ ModeOK(p)'
  <2>1. LineOK /\ Sole(p) /\ StoreOK(p)
    BY DEF CInv, HeldOK, KeptOK
  <2>2. Spares(Nobody, p)
    BY <1>0, <1>2, <1>4, <1>6, <1>8 DEF Spares
  <2>3. StoreOK(p)'
    BY <1>6, <2>1, <2>2, SparesHolds
  <2>4. ModeOK(p)'
    BY <1>2 DEF ModeOK
  <2>. QED  BY <2>3, <2>4
<1>. QED  BY <1>0, <1>5, <1>6, <1>7, <1>9, <1>10, KeptHolds DEF CInv

LEMMA EraseEnvelopeKeeps ==
    ASSUME IInv, CInv, NEW p \in Profiles, EraseEnvelope(p) PROVE CInv'
<1>0. /\ UNCHANGED <<setting, profile, session, job, toggle, line, replaced>> /\ Tabs' = Tabs
      /\ p \in erasing /\ erasing' \subseteq erasing /\ ~Queued(p)
  BY TabsStay DEF EraseEnvelope
<1>1. /\ \A q \in Profiles : /\ envelope'[q] \in {envelope[q], None}
                             /\ amiss[q] \subseteq amiss'[q]
      /\ \A q \in Profiles : q # p => envelope'[q] = envelope[q]
  BY ErasesFacts DEF EraseEnvelope, IInv
<1>2. HeldOK'
  <2>1. Tidy
    BY <1>0, <1>1 DEF Tidy
  <2>. QED  BY <2>1, TidyHolds DEF CInv
<1>3. Acts(Nobody) /\ ~Waits(Nobody) /\ ~Waits(Nobody)'
  BY <1>0 DEF Acts, Waits, Nobody
<1>4. TogglesOK' /\ ErasingOK'
  BY <1>0, NamesStay DEF CInv
<1>5. ASSUME NEW q \in Profiles, q # p PROVE Aside(Nobody, q)
  BY <1>0, <1>1, <1>3, <1>5 DEF Aside
<1>6. StoreOK(p)' /\ ModeOK(p)'
  <2>1. LineOK /\ Sole(p) /\ StoreOK(p) /\ ~profile[p].saved
    BY <1>0 DEF CInv, HeldOK, KeptOK, ErasingOK
  <2>2. Spares(Nobody, p)
    BY <1>0, <1>1, <1>3 DEF Spares
  <2>3. StoreOK(p)'
    BY <1>3, <2>1, <2>2, SparesHolds
  <2>4. ModeOK(p)'
    BY <1>0, <2>1 DEF ModeOK
  <2>. QED  BY <2>3, <2>4
<1>. QED  BY <1>0, <1>2, <1>3, <1>4, <1>5, <1>6, KeptHolds DEF CInv

\* Nothing is about to be sealed, and nobody in line asks for a mode.
LEMMA AtRest ==
    ASSUME LineOK, NEW p \in Profiles, ~Halfway(p)
    PROVE  /\ \A b \in Tabs : ~Storing(job[b], p)
           /\ \A i \in DOMAIN line : ~About(line[i], p)
<1>1. \A b \in Tabs : ~Storing(job[b], p)
  BY DEF Storing, Halfway
<1>2. ASSUME NEW i \in DOMAIN line PROVE ~About(line[i], p)
  BY EntryFacts DEF About, Halfway
<1>. QED  BY <1>1, <1>2

LEMMA RestartKeeps == ASSUME IInv, CInv, Restart PROVE CInv'
<1>0. /\ UNCHANGED <<setting, profile, envelope, replaced>>
      /\ Tabs' = Tabs /\ Panels' = Panels /\ Tokens' = Tokens
      /\ line' = <<>> /\ erasing' = {}
      /\ \A s \in Sessions : session'[s] = None
      /\ \A d \in Panels : toggle'[d].profile = None
  BY TabsStay DEF Restart, NoToggle
<1>1. \A b \in Tabs : job'[b].pc \in {"none", "refused"} /\ job'[b].profile = None
  BY DEF Restart, NoJob, Refusal
<1>2. \A p \in Profiles : /\ amiss[p] \subseteq amiss'[p]
                          /\ "cut" \notin amiss'[p] => ~Halfway(p)
  BY DEF Restart
<1>3. HeldOK'
  <2>1. Tidy
    BY <1>0, <1>1, <1>2 DEF Tidy
  <2>. QED  BY <2>1, TidyHolds DEF CInv
<1>4. LineOK'
  <2>. DEFINE E == {"job", "toggle"} \X (Tabs \cup Panels)
  <2>1. line' \in Seq(E) /\ DOMAIN line' = {}
    BY <1>0
  <2>. QED  BY <1>0, <2>1 DEF LineOK
<1>5. TogglesOK' /\ ErasingOK' /\ AdmittedOK'
  BY <1>0, <1>1, Constants DEF TogglesOK, ErasingOK, AdmittedOK
<1>6. ASSUME NEW p \in Profiles PROVE StoreOK(p)' /\ ModeOK(p)'
  <2>1. \A b \in Tabs : ~Storing(job'[b], p)
    BY <1>1 DEF Storing
  <2>2. StoreOK(p)'
    BY <1>0, <2>1 DEF StoreOK, Storing
  <2>3. ASSUME profile'[p].saved, amiss'[p] \cap {"kept", "cut", "unstored"} = {}
        PROVE  Agrees(p)'
    <3>1. LineOK /\ ModeOK(p) /\ ~Halfway(p)
      BY <1>2, <2>3 DEF CInv, KeptOK
    <3>2. /\ \A b \in Tabs : ~Storing(job[b], p)
          /\ \A i \in DOMAIN line : ~About(line[i], p)
      BY <3>1, AtRest
    <3>3. Agrees(p)
      BY <1>0, <1>2, <2>3, <3>1, <3>2 DEF ModeOK
    <3>4. DOMAIN line' = {}
      BY <1>0
    <3>. QED  BY <1>0, <3>2, <3>3, <3>4 DEF Agrees
  <2>. QED  BY <2>2, <2>3 DEF ModeOK
<1>. QED  BY <1>3, <1>4, <1>5, <1>6 DEF CInv, KeptOK

LEMMA StutterKeeps == ASSUME IInv, CInv, UNCHANGED vars PROVE CInv'
<1>0. UNCHANGED <<setting, profile, envelope, session, job, toggle, line, erasing, replaced, amiss>>
  BY DEF vars, server
<1>1. \A s \in Sessions : session'[s] \in {session[s], None}
  BY <1>0
<1>. QED  BY <1>0, <1>1, EndingKeeps

LEMMA StepKeeps == ASSUME IInv, CInv, [Next]_vars PROVE CInv'
<1>1. CASE UNCHANGED vars
  BY <1>1, StutterKeeps
<1>2. CASE \E b \in Tabs : Establishing(b) \/ Asking(b)
  BY <1>2, EstablishingKeeps, AskingKeeps
<1>3. CASE \E d \in Panels : Panel(d)
  BY <1>3, PanelKeeps
<1>4. CASE \E b \in Managed : Manager(b)
  <2>1. Managed \subseteq Tabs
    BY Constants DEF IInv, RequestTypes, Managed, Tabs
  <2>. QED  BY <1>4, <2>1, ManagerKeeps
<1>5. CASE \E p \in Profiles : DisconnectConnection(p) \/ RemoveConnection(p) \/ EraseEnvelope(p)
  BY <1>5, DisconnectConnectionKeeps, RemoveConnectionKeeps, EraseEnvelopeKeeps
<1>6. CASE \E s \in Sessions : Expire(s)
  BY <1>6, ExpireKeeps
<1>7. CASE Restart
  BY <1>7, RestartKeeps
<1>. QED  BY <1>1, <1>2, <1>3, <1>4, <1>5, <1>6, <1>7 DEF Next

LEMMA KeepsAlways == Spec => []CInv
<1>. QED  BY InitKeeps, StepKeeps, Invariance, PTL DEF Spec

\* reconnectConnection and persist (connection-lifecycle.mjs) end the sessions and
\* delete the envelope of the credential they replace before the new one is sealed:
\* no failed store, death of the server, toggle of the persistence or late resume
\* brings the old token back, unless its file could not be deleted or two requests
\* established sessions for the connection at once.
THEOREM ReplacedTokensStayOut == Spec => []ReplacedStaysOut
<1>1. CInv => ReplacedStaysOut
  BY DEF CInv, HeldOK, OutOK, ReplacedStaysOut
<1>. QED  BY <1>1, KeepsAlways, PTL

\* The files of connections.mjs and credentials.mjs are written by different queues,
\* in any order, by creations, reconnects, toggles, failing stores and removals that
\* overlap: whenever nothing is left to do for a connection, its mode says whether a
\* token of it is sealed.
THEOREM ModesTellWhatIsSealed == Spec => []SessionOnlyKeepsNothing
<1>1. ASSUME CInv PROVE SessionOnlyKeepsNothing
  <2>1. ASSUME NEW p \in Profiles, profile[p].saved, ~Halfway(p),
               amiss[p] \cap {"kept", "cut", "unstored"} = {}
        PROVE  profile[p].mode = "persistent" <=> envelope[p] # None
    <3>1. LineOK /\ ModeOK(p)
      BY <1>1 DEF CInv, KeptOK
    <3>2. /\ \A b \in Tabs : ~Storing(job[b], p)
          /\ \A i \in DOMAIN line : ~About(line[i], p)
      BY <2>1, <3>1, AtRest
    <3>. QED  BY <2>1, <3>1, <3>2 DEF ModeOK, Agrees
  <2>. QED  BY <2>1 DEF SessionOnlyKeepsNothing
<1>. QED  BY <1>1, KeepsAlways, PTL

-----------------------------------------------------------------------------
(* The limits: sessions and the line of waiting updates.                   *)

\* As many sessions as there may be.
Limited(ss) == IsFiniteSet(Live(ss)) /\ Cardinality(Live(ss)) <= MaxSessions

LEMMA FewerAreLimited ==
    ASSUME NEW ss, NEW tt, Limited(ss), \A s \in Sessions : tt[s] \in {ss[s], None}
    PROVE  Limited(tt)
<1>1. Live(tt) \in SUBSET Live(ss)
  BY DEF Live
<1>2. /\ IsFiniteSet(Live(tt)) /\ Cardinality(Live(tt)) \in Nat /\ Cardinality(Live(ss)) \in Nat
      /\ Cardinality(Live(tt)) <= Cardinality(Live(ss))
  BY <1>1, FS_Subset, FS_CardinalityType DEF Limited
<1>. QED  BY <1>2, ConnectionsAssumption DEF Limited, ConnectionsAssumption

LEMMA OpensWithinLimit ==
    ASSUME NEW b, NEW ss \in [Sessions -> SessionType], NEW p, NEW pc, Limited(ss), Opens(b, ss, p, pc)
    PROVE  Limited(session')
<1>1. CASE session' = ss
  BY <1>1
<1>2. CASE ~Full(ss) /\ \E s \in Sessions :
              session' = [ss EXCEPT ![s] = [token |-> job[b].token, profile |-> p]]
  <2>. PICK s \in Sessions : session' = [ss EXCEPT ![s] = [token |-> job[b].token, profile |-> p]]
    BY <1>2
  <2>1. Live(session') \in SUBSET (Live(ss) \cup {s})
    BY DEF Live
  <2>2. /\ IsFiniteSet(Live(ss) \cup {s})
        /\ Cardinality(Live(ss) \cup {s}) =
              IF s \in Live(ss) THEN Cardinality(Live(ss)) ELSE Cardinality(Live(ss)) + 1
    BY FS_AddElement DEF Limited
  <2>3. /\ IsFiniteSet(Live(session'))
        /\ Cardinality(Live(session')) <= Cardinality(Live(ss) \cup {s})
    BY <2>1, <2>2, FS_Subset
  <2>4. Cardinality(Live(ss)) \in Nat /\ Cardinality(Live(session')) \in Nat
    BY <2>3, FS_CardinalityType DEF Limited
  <2>5. Cardinality(Live(ss)) < MaxSessions /\ MaxSessions \in Nat
    BY <1>2, <2>4, ConnectionsAssumption DEF Full, ConnectionsAssumption
  <2>. QED  BY <2>2, <2>3, <2>4, <2>5 DEF Limited
<1>. QED  BY <1>1, <1>2 DEF Opens

LEMMA EstablishingWithinLimit ==
    ASSUME IInv, Limited(session), NEW b \in Tabs, Establishing(b) PROVE Limited(session')
<1>0. session \in [Sessions -> SessionType]
  BY DEF IInv, StoreTypes
<1>1. CASE session' = session
  BY <1>1
<1>2. CASE Replace(b) \/ Resume(b)
  <2>. DEFINE ss == Destroyed(session, job[b].profile)
  <2>1. job[b].profile \in Profiles
    BY <1>2, Named DEF IInv, JobsOK, Fits, Replace, Replacing, Resume
  <2>2. ss \in [Sessions -> SessionType] /\ \A s \in Sessions : ss[s] \in {session[s], None}
    BY <2>1, DestroyedIsLess DEF IInv
  <2>. HIDE DEF ss
  <2>3. Limited(ss)
    BY <2>2, FewerAreLimited
  <2>4. session' = ss \/ Opens(b, ss, job[b].profile, "update")
    BY <1>2 DEF Replace, Replacing, Resume, ss
  <2>. QED  BY <2>2, <2>3, <2>4, OpensWithinLimit
<1>3. ASSUME NEW p, NEW pc, Opens(b, session, p, pc) PROVE Limited(session')
  BY <1>0, <1>3, OpensWithinLimit
<1>. QED
  BY <1>1, <1>2, <1>3
  DEF Establishing, Refuse, Connect, FindAccount, CreateProfile, Store, StoreFails, Update

LEMMA StepWithinLimit ==
    ASSUME IInv, Limited(session), [Next]_vars PROVE Limited(session')
<1>1. CASE session' = session
  BY <1>1
<1>2. CASE \A s \in Sessions : session'[s] \in {session[s], None}
  BY <1>2, FewerAreLimited
<1>3. ASSUME NEW b \in Tabs, Establishing(b) PROVE Limited(session')
  BY <1>3, EstablishingWithinLimit
<1>4. ASSUME NEW b, Asking(b) PROVE session' = session
  BY <1>4
  DEF Asking, ConnectToken, ConnectProfile, ReconnectProfile, ResumeProfile, Establish, Unheard
<1>5. ASSUME NEW d, Panel(d) PROVE session' = session
  BY <1>5 DEF Panel, StartToggle, PersistOn, PersistOff, PersistUpdate
<1>6. ASSUME NEW b, Manager(b)
      PROVE  session' = session \/ \A s \in Sessions : session'[s] \in {session[s], None}
  <2>1. session \in [Sessions -> SessionType]
    BY DEF IInv, StoreTypes
  <2>2. ASSUME NEW r, session' \in {session, [session EXCEPT ![r] = None]}
        PROVE  \A s \in Sessions : session'[s] \in {session[s], None}
    BY <2>1, <2>2
  <2>3. CASE Displaced(b) \/ Withdrawn(b)
    BY <2>2, <2>3 DEF Displaced, Withdrawn, Revoked
  <2>4. CASE Disconnected(b)
    BY <2>2, <2>4 DEF Disconnected
  <2>5. CASE Heard(b) \/ Disconnect(b) \/ Restore(b) \/ Restored(b) \/ TabGone(b)
    BY <2>5 DEF Heard, Disconnect, Restore, Restored, TabGone, server
  <2>. QED  BY <1>6, <2>3, <2>4, <2>5 DEF Manager
<1>7. ASSUME NEW p \in Profiles, DisconnectConnection(p) \/ RemoveConnection(p)
      PROVE  \A s \in Sessions : session'[s] \in {session[s], None}
  BY <1>7, DestroyedIsLess DEF DisconnectConnection, RemoveConnection, IInv
<1>8. ASSUME NEW p, EraseEnvelope(p) PROVE session' = session
  BY <1>8 DEF EraseEnvelope
<1>9. ASSUME NEW r, Expire(r) PROVE \A s \in Sessions : session'[s] \in {session[s], None}
  BY <1>9 DEF Expire, IInv, StoreTypes
<1>10. ASSUME Restart PROVE \A s \in Sessions : session'[s] \in {session[s], None}
  BY <1>10 DEF Restart
<1>11. ASSUME UNCHANGED vars PROVE session' = session
  BY <1>11 DEF vars, server
<1>. QED  BY <1>1, <1>2, <1>3, <1>4, <1>5, <1>6, <1>7, <1>8, <1>9, <1>10, <1>11 DEF Next

LEMMA LimitedAlways == Spec => []Limited(session)
<1>1. Init => Limited(session)
  <2>. SUFFICES ASSUME Init PROVE Limited(session)
    OBVIOUS
  <2>1. session = [s \in Sessions |-> None]
    BY DEF Init
  <2>2. Live(session) = {}
    BY <2>1 DEF Live
  <2>. QED  BY <2>2, FS_EmptySet, ConnectionsAssumption DEF Limited, ConnectionsAssumption
<1>2. IInv /\ Limited(session) /\ [Next]_vars => Limited(session)'
  BY StepWithinLimit
<1>. QED  BY <1>1, <1>2, Invariance, PTL DEF Spec

\* Everybody waits once: the line is no longer than there are tabs and panels.
LEMMA LineIsShort ==
    ASSUME RequestTypes, LineOK PROVE Len(line) <= Cardinality(Tabs) + Cardinality(Panels)
<1>. DEFINE J == {<<"job", b>> : b \in Tabs}
            T == {<<"toggle", d>> : d \in Panels}
<1>1. IsFiniteSet(Tabs) /\ IsFiniteSet(Panels)
  BY ConnectionsAssumption DEF RequestTypes, ConnectionsAssumption, Tabs, Panels
<1>2. IsFiniteSet(J) /\ Cardinality(J) <= Cardinality(Tabs)
  <2>. DEFINE f == [b \in Tabs |-> <<"job", b>>]
  <2>1. f \in Surjection(Tabs, J)
    BY DEF Surjection
  <2>. QED  BY <1>1, <2>1, FS_Surjection
<1>3. IsFiniteSet(T) /\ Cardinality(T) <= Cardinality(Panels)
  <2>. DEFINE f == [d \in Panels |-> <<"toggle", d>>]
  <2>1. f \in Surjection(Panels, T)
    BY DEF Surjection
  <2>. QED  BY <1>1, <2>1, FS_Surjection
<1>4. Len(line) \in Nat /\ DOMAIN line = 1 .. Len(line)
  <2>. DEFINE E == {"job", "toggle"} \X (Tabs \cup Panels)
  <2>1. line \in Seq(E)
    BY DEF LineOK
  <2>. HIDE DEF E
  <2>. QED  BY <2>1
<1>5. line \in Injection(1 .. Len(line), J \cup T)
  <2>. DEFINE E == {"job", "toggle"} \X (Tabs \cup Panels)
  <2>1. \A i \in DOMAIN line : line[i] \in J \cup T
    BY EntryFacts
  <2>2. line \in Seq(E)
    BY DEF LineOK
  <2>. HIDE DEF E, J, T
  <2>3. line \in [1 .. Len(line) -> J \cup T]
    BY <1>4, <2>1, <2>2
  <2>4. \A i, k \in DOMAIN line : line[i] = line[k] => i = k
    BY DEF LineOK
  <2>. QED  BY <2>3, <2>4 DEF Injection, IsInjective
<1>. HIDE DEF J, T
<1>6. /\ IsFiniteSet(J \cup T)
      /\ Cardinality(J \cup T) = Cardinality(J) + Cardinality(T) - Cardinality(J \cap T)
  BY <1>2, <1>3, FS_Union
<1>7. IsFiniteSet(J \cap T)
  BY <1>2, FS_Subset
<1>8. Cardinality(1 .. Len(line)) <= Cardinality(J \cup T)
  <2>. DEFINE S == 1 .. Len(line)
              U == J \cup T
  <2>. HIDE DEF S, U
  <2>1. IsFiniteSet(U) /\ line \in Injection(S, U)
    BY <1>5, <1>6 DEF S, U
  <2>2. Cardinality(S) <= Cardinality(U)
    BY <2>1, FS_Injection
  <2>. QED  BY <2>2 DEF S, U
<1>9. Cardinality(1 .. Len(line)) = Len(line)
  <2>. PICK n \in Nat : n = Len(line)
    BY <1>4
  <2>1. 1 \in Int /\ n \in Int
    OBVIOUS
  <2>2. Cardinality(1 .. n) = IF 1 > n THEN 0 ELSE n - 1 + 1
    BY <2>1, FS_Interval, Zenon
  <2>. QED  BY <2>2
<1>10. /\ Cardinality(J) \in Nat /\ Cardinality(T) \in Nat /\ Cardinality(J \cap T) \in Nat
       /\ Cardinality(Tabs) \in Nat /\ Cardinality(Panels) \in Nat
  BY <1>1, <1>2, <1>3, <1>7, FS_CardinalityType
<1>. QED  BY <1>2, <1>3, <1>4, <1>6, <1>8, <1>9, <1>10

\* The stores, requests and managers keep their types; no order of connects,
\* resumes and expiries opens more sessions than sessions.mjs allows, and nobody
\* waits twice to write connections.json.
THEOREM ConnectionsTypeCorrect == Spec => []TypeOK
<1>1. ASSUME IInv, CInv, TabTypes, Limited(session) PROVE TypeOK
  <2>1. ASSUME NEW p \in Profiles
        PROVE  /\ DOMAIN profile[p] = DOMAIN Unused /\ profile[p].mode \in Modes
               /\ envelope[p] \in Tokens \cup {None} /\ replaced[p] \subseteq Tokens
    <3>1. profile[p] \in ProfileType
      BY <1>1 DEF IInv, StoreTypes
    <3>2. DOMAIN profile[p] = DOMAIN Unused /\ profile[p].mode \in Modes
      BY <3>1 DEF ProfileType, Unused
    <3>3. envelope[p] \in Tokens \cup {None} /\ replaced[p] \subseteq Tokens
      BY <1>1 DEF CInv, HeldOK, TokensOK
    <3>. QED  BY <3>2, <3>3
  <2>2. ASSUME NEW b \in Tabs PROVE DOMAIN job[b] = DOMAIN NoJob /\ DOMAIN tab[b] = DOMAIN Fresh
    <3>1. job[b] \in JobType /\ tab[b] \in TabType
      BY <1>1 DEF IInv, RequestTypes, TabTypes
    <3>2. DOMAIN job[b] = DOMAIN NoJob
      BY <3>1 DEF JobType, NoJob
    <3>3. DOMAIN tab[b] = DOMAIN Fresh
      BY <3>1 DEF TabType, Fresh
    <3>. QED  BY <3>2, <3>3
  <2>3. ASSUME NEW d \in Panels PROVE DOMAIN toggle[d] = DOMAIN NoToggle
    <3>1. toggle[d] \in ToggleType
      BY <1>1 DEF IInv, RequestTypes
    <3>. QED  BY <3>1 DEF ToggleType, NoToggle
  <2>4. Len(line) <= Cardinality(Tabs) + Cardinality(Panels)
    BY <1>1, LineIsShort DEF IInv, CInv, KeptOK
  <2>. QED  BY <1>1, <2>1, <2>2, <2>3, <2>4 DEF TypeOK, Limited
<1>. QED  BY <1>1, Invariance, KeepsAlways, ManagersAlways, LimitedAlways, PTL

=============================================================================
