------------------------------ MODULE LiveMap -------------------------------
(***************************************************************************)
(* One business on the live map: its sessions in the database, their hot   *)
(* mirror, the pins that clients were sent, and the people who follow it   *)
(* or asked to be told when it is about.                                   *)
(***************************************************************************)
EXTENDS Handlers

CONSTANTS
  Sessions,     \* bound: the sessions that are ever started
  Cells,        \* geohash cells, each a room of clients
  People,
  Near          \* those of them whose home lies within the business's range

VARIABLES
  session,      \* live_sessions
  mirror,       \* liveStore: the cell of each session's hot copy, or None
  pins,         \* external: the pins that the clients of each cell show
  suspended,    \* users: whether the owner's account is
  follows,      \* follows
  request,      \* notify_me_requests: each person's last
  alerted,      \* external: who was told since that request
  throttled     \* kv: who was sent a proximity alert lately

liveVars ==
  <<session, mirror, pins, suspended, follows, request, alerted, throttled, task, befell>>

display == <<mirror, pins>>
crowd == <<follows, request, alerted, throttled>>

NoSession == [status |-> "none", over |-> FALSE, silent |-> FALSE, cell |-> None, cut |-> FALSE]

LiveMapInit ==
  /\ session = [s \in Sessions |-> NoSession]
  /\ mirror = [s \in Sessions |-> None]
  /\ pins = {}
  /\ suspended = FALSE
  /\ follows = {}
  /\ request = [u \in People |-> "none"]
  /\ alerted = {}
  /\ throttled = {}

Live(s) == session[s].status # "none" /\ ~session[s].over

OnTheMove(s) == Live(s) /\ session[s].status \in {"driving", "parked"}

\* What a client that asks is shown, of what is near it and of what trends: the first leaves out the
\* sessions of a suspended owner.
Nearby == IF suspended THEN {} ELSE {s \in Sessions : OnTheMove(s)}

Trending == {s \in Sessions : OnTheMove(s)}

SuspendOwner ==
  /\ ~suspended
  /\ suspended' = TRUE
  /\ Befalls("suspended")
  /\ UNCHANGED <<task, session, display, crowd>>

(***************************************************************************)
(* Going live, moving, changing status, stopping.                          *)
(***************************************************************************)

\* startSession: a live session is taken up again; to take it up in another cell is out of the ordinary.
StartRead(w, c, status) ==
  LET t(s) == [step |-> "start", s |-> s, cell |-> c, status |-> status] IN
  /\ IF \E s \in Sessions : Live(s)
       THEN \E s \in Sessions :
              /\ Live(s)
              /\ IF session[s].cell = c THEN Begin(w, t(s)) ELSE BeginAmid(w, t(s), "moved")
       ELSE (\E s \in Sessions : session[s].status = "none") /\ Begin(w, t(None))
  /\ UNCHANGED <<session, display, suspended, crowd>>

StartWrite(w) ==
  LET t == task[w] IN
  /\ At(w, "start")
  /\ \E s \in Sessions :
       /\ IF t.s = None THEN session[s].status = "none" ELSE s = t.s
       /\ session' = [session EXCEPT ![s].status = t.status, ![s].silent = FALSE, ![s].cell = t.cell]
       /\ Becomes(w, [step |-> "start_pin", s |-> s, cell |-> t.cell, status |-> t.status])
  /\ UNCHANGED <<display, suspended, crowd, befell>>

StartPin(w) ==
  LET t == task[w] IN
  /\ At(w, "start_pin")
  /\ mirror' = [mirror EXCEPT ![t.s] = t.cell]
  /\ pins' = IF t.status = "away_closed" THEN pins ELSE pins \cup {<<t.cell, t.s>>}
  /\ Finish(w)
  /\ UNCHANGED <<session, suspended, crowd>>

MoveRead(w, s, c) ==
  /\ Live(s)
  /\ session[s].cell # c
  /\ Begin(w, [step |-> "move", s |-> s, cell |-> c, status |-> session[s].status])
  /\ UNCHANGED <<session, display, suspended, crowd>>

MoveWrite(w) ==
  /\ At(w, "move")
  /\ session' = [session EXCEPT ![task[w].s].silent = FALSE, ![task[w].s].cell = task[w].cell]
  /\ Goto(w, "move_pin")
  /\ UNCHANGED <<display, suspended, crowd>>

\* Mutant: a pin that moves is left in the cell it came from.
LeavesItsPin(s, c) == {}

\* The pin is taken from the cell the mirror knew.
OldPin(s, c) == IF mirror[s] \in {None, c} THEN {} ELSE {<<mirror[s], s>>}

MovePin(w) ==
  LET t == task[w] IN
  /\ At(w, "move_pin")
  /\ mirror' = [mirror EXCEPT ![t.s] = t.cell]
  /\ pins' = (pins \ OldPin(t.s, t.cell))
               \cup (IF t.status = "away_closed" THEN {} ELSE {<<t.cell, t.s>>})
  /\ Finish(w)
  /\ UNCHANGED <<session, suspended, crowd>>

StatusRead(w, s, status) ==
  /\ Live(s)
  /\ session[s].status # status
  /\ Begin(w, [step |-> "status", s |-> s, status |-> status, cell |-> session[s].cell,
               back |-> session[s].status = "away_closed"])
  /\ UNCHANGED <<session, display, suspended, crowd>>

StatusWrite(w) ==
  /\ At(w, "status")
  /\ session' = [session EXCEPT ![task[w].s].status = task[w].status, ![task[w].s].silent = FALSE]
  /\ Goto(w, "status_pin")
  /\ UNCHANGED <<display, suspended, crowd>>

StatusPin(w) ==
  LET t == task[w] IN
  /\ At(w, "status_pin")
  /\ mirror' = [mirror EXCEPT ![t.s] = t.cell]
  /\ pins' = IF t.status = "away_closed" THEN pins \ {<<t.cell, t.s>>} ELSE pins \cup {<<t.cell, t.s>>}
  /\ IF t.back THEN Goto(w, "announce") ELSE Finish(w)
  /\ UNCHANGED <<session, suspended, crowd>>

Heartbeat(s) ==
  /\ Live(s) /\ session[s].silent
  /\ session' = [session EXCEPT ![s].silent = FALSE]
  /\ AtOnce
  /\ UNCHANGED <<display, suspended, crowd>>

StopRead(w, s) ==
  /\ Live(s)
  /\ Begin(w, [step |-> "stop", s |-> s, cell |-> session[s].cell])
  /\ UNCHANGED <<session, display, suspended, crowd>>

StopWrite(w) ==
  LET s == task[w].s IN
  /\ At(w, "stop")
  /\ session' = [session EXCEPT ![s].status = "away_closed", ![s].over = TRUE]
  /\ Goto(w, "stop_pin")
  /\ UNCHANGED <<display, suspended, crowd>>

StopPin(w) ==
  /\ At(w, "stop_pin")
  /\ mirror' = [mirror EXCEPT ![task[w].s] = None]
  /\ pins' = pins \ {<<task[w].cell, task[w].s>>}
  /\ Finish(w)
  /\ UNCHANGED <<session, suspended, crowd>>

(***************************************************************************)
(* Silence.                                                                *)
(***************************************************************************)

FallsSilent(s) ==
  /\ Live(s) /\ ~session[s].silent
  /\ session' = [session EXCEPT ![s].silent = TRUE]
  /\ Outside
  /\ UNCHANGED <<display, suspended, crowd>>

\* The mirror lives twice as long as a session may be silent, from the last move or change of status:
\* a heartbeat does not prolong it.
MirrorExpires(s) ==
  /\ mirror[s] # None
  /\ mirror' = [mirror EXCEPT ![s] = None]
  /\ Befalls("mirror_expired")
  /\ UNCHANGED <<task, session, pins, suspended, crowd>>

\* expireStaleSessions: a session that is away is never stale.
ReapRead(w, s) ==
  /\ OnTheMove(s) /\ session[s].silent
  /\ Begin(w, [step |-> "reap", s |-> s, cell |-> session[s].cell])
  /\ UNCHANGED <<session, display, suspended, crowd>>

ReapWrite(w) ==
  LET s == task[w].s IN
  /\ At(w, "reap")
  /\ session' = [session EXCEPT ![s].status = "away_closed", ![s].over = TRUE,
                                ![s].cut = ~session[s].silent]
  /\ Goto(w, "stop_pin")
  /\ UNCHANGED <<display, suspended, crowd>>

(***************************************************************************)
(* Followers, and those who asked to be told once.                         *)
(***************************************************************************)

Follow(u) ==
  /\ u \notin follows
  /\ follows' = follows \cup {u}
  /\ AtOnce
  /\ UNCHANGED <<session, display, suspended, request, alerted, throttled>>

\* A person who stops following, or asks without following, or lives far away, or was alerted lately,
\* may have the request fulfilled and hear nothing.
Unfollow(u) ==
  /\ u \in follows
  /\ follows' = follows \ {u}
  /\ Befalls("unreached")
  /\ UNCHANGED <<task, session, display, suspended, request, alerted, throttled>>

NotifyMe(u) ==
  /\ request[u] # "pending"
  /\ request' = [request EXCEPT ![u] = "pending"]
  /\ alerted' = alerted \ {u}
  /\ IF u \in (follows \cap Near) \ throttled THEN AtOnce
     ELSE Befalls("unreached") /\ UNCHANGED task
  /\ UNCHANGED <<session, display, suspended, follows, throttled>>

\* onBusinessBecameActive tells the followers, and fulfils every request.
Announce(w) ==
  /\ At(w, "announce")
  /\ alerted' = alerted \cup follows
  /\ Goto(w, "fulfil")
  /\ UNCHANGED <<session, display, suspended, follows, request, throttled>>

Fulfil(w) ==
  /\ At(w, "fulfil")
  /\ request' = [u \in People |-> IF request[u] = "pending" THEN "fulfilled" ELSE request[u]]
  /\ Finish(w)
  /\ UNCHANGED <<session, display, suspended, follows, alerted, throttled>>

Pending == {u \in People : request[u] = "pending"}

\* evaluateProximityAlerts: those nearby among both, at most once in two hours.
ProximityRead(w) ==
  /\ \E s \in Sessions : OnTheMove(s)
  /\ follows \cup Pending # {}
  /\ Begin(w, [step |-> "proximity", tell |-> (follows \cup Pending) \cap Near, asked |-> Pending # {}])
  /\ UNCHANGED <<session, display, suspended, crowd>>

ProximityTell(w) ==
  /\ At(w, "proximity")
  /\ alerted' = alerted \cup (task[w].tell \ throttled)
  /\ throttled' = throttled \cup task[w].tell
  /\ IF task[w].asked THEN Becomes(w, [step |-> "fulfil"]) ELSE Becomes(w, Resting)
  /\ UNCHANGED <<session, display, suspended, follows, request, befell>>

ThrottlePasses ==
  /\ throttled # {}
  /\ throttled' = {}
  /\ Outside
  /\ UNCHANGED <<session, display, suspended, follows, request, alerted>>

LiveHandlerDies(w) == Dies(w) /\ UNCHANGED <<session, display, suspended, crowd>>

LiveMapNext ==
  \/ SuspendOwner \/ ThrottlePasses
  \/ \E s \in Sessions : Heartbeat(s) \/ FallsSilent(s) \/ MirrorExpires(s)
  \/ \E u \in People : Follow(u) \/ Unfollow(u) \/ NotifyMe(u)
  \/ \E w \in Workers :
       \/ \E c \in Cells, status \in {"driving", "parked"} : StartRead(w, c, status)
       \/ \E s \in Sessions, c \in Cells : MoveRead(w, s, c)
       \/ \E s \in Sessions, status \in {"driving", "parked", "away_closed"} : StatusRead(w, s, status)
       \/ \E s \in Sessions : StopRead(w, s) \/ ReapRead(w, s)
       \/ StartWrite(w) \/ StartPin(w) \/ MoveWrite(w) \/ MovePin(w)
       \/ StatusWrite(w) \/ StatusPin(w) \/ StopWrite(w) \/ StopPin(w) \/ ReapWrite(w)
       \/ Announce(w) \/ Fulfil(w) \/ ProximityRead(w) \/ ProximityTell(w)
       \/ LiveHandlerDies(w)

(***************************************************************************)
(* Properties                                                              *)
(***************************************************************************)

\* One pin per actor: a business is live once.
LiveOnce == Spared({"overlap"}) => Cardinality({s \in Sessions : Live(s)}) <= 1

\* A session that ended does not come back.
EndedStaysEnded ==
  Spared({"overlap"}) => \A s \in Sessions : session[s].over => session[s].status = "away_closed"

\* A client that listened to its cell, one that asks what is near and one that asks what trends are
\* shown the same sessions, each in the cell it is in.
AllSeeTheSame ==
  AllIdle /\ Spared({"overlap", "crash", "moved", "mirror_expired", "suspended"}) =>
    /\ pins = {<<session[s].cell, s>> : s \in Nearby}
    /\ Nearby = Trending

\* The mirror holds the sessions that are live, where they are.
MirrorIsCurrent ==
  AllIdle /\ Spared({"overlap", "crash", "mirror_expired"}) =>
    \A s \in Sessions : mirror[s] = IF Live(s) THEN session[s].cell ELSE None

\* Nobody who is still there is taken off the map for silence.
ReapedWasSilent == Spared({"overlap"}) => \A s \in Sessions : ~session[s].cut

\* A request to be told is not marked fulfilled before the person was told.
FulfilledWasTold ==
  Spared({"overlap", "unreached"}) =>
    \A u \in People : request[u] = "fulfilled" => u \in alerted

LiveMapRight ==
  LiveOnce /\ EndedStaysEnded /\ AllSeeTheSame /\ MirrorIsCurrent /\ ReapedWasSilent /\ FulfilledWasTold

=============================================================================
