------------------------------- MODULE Feeds -------------------------------
(***************************************************************************)
(* The two live streams (notify.Broadcaster, solvefeed.Broadcaster): one   *)
(* goroutine per process LISTENs (pglisten.Pump), turns every signal into  *)
(* a fan-out over the subscribed channels, and never waits for a client; a *)
(* stream handler subscribes, replays (notifications only) and writes.     *)
(*                                                                         *)
(* Ids are taken at insert and signalled at commit.  A behaviour is one    *)
(* feed, chosen at the start: a notification is a row with a replay log, a *)
(* solve is a pulse that travels in the signal and is withheld by a freeze.*)
(* Nothing deletes a notification, so a signalled row is always found.     *)
(***************************************************************************)
EXTENDS Naturals, FiniteSets, SequencesExt

CONSTANTS
  Publishers,
  Clients,
  Buffer,       \* subscriberBuffer
  CatchUpLimit, \* catchUpLimit
  ReplayLimit,  \* replayLimit
  Horizons,     \* freeze horizons, as the first id they hide
  MaxId,        \* bound on the ids taken
  MaxConnects,  \* bound on each client's connections
  MaxDrops,     \* bound on lost connections
  MaxFailures   \* bound on failed loads and failed replays

(* What is taken of the constants: who instantiates this assumes it.         *)
FeedConstants ==
  /\ Buffer \in Nat \ {0} /\ CatchUpLimit \in Nat \ {0} /\ ReplayLimit \in Nat
  /\ MaxId \in Nat /\ MaxConnects \in Nat /\ MaxDrops \in Nat /\ MaxFailures \in Nat
  /\ Horizons \subseteq Nat /\ MaxId + 1 \in Horizons

VARIABLES
  kind,     \* "notifications" or "solves"
  rows,     \* ids committed
  held,     \* held[p]: the id of a publisher's open transaction, 0 for none
  nextId,   \* the identity column's sequence
  conn,     \* "down", "listening" (LISTEN done, not caught up) or "up"
  wire,     \* signals delivered to the connection and not yet awaited
  latest,   \* LatestID as the catch-up read it
  missed,   \* rows the catch-up read and has not fanned out
  lastID,   \* the watermark plus one; 0 is "not seeded yet"
  stopped,
  open,     \* the subscribed clients
  chan,     \* chan[c]: the channel's buffered events
  where,       \* where[c]: where the stream handler is
  written,  \* written[c]: events written on this connection
  withheld, \* withheld[c]: pulses the freeze kept from it
  horizon,  \* the freeze now in force
  drops, failures, connects,
  since,    \* ghost: the rows there were when the client connected
  tie,      \* ghost: "early" (connected before the seed), "steady", or "broken" by an outage
  unloaded  \* ghost: signalled rows whose load failed on this connection

table   == <<rows, held, nextId>>
pump    == <<conn, wire, latest, missed, lastID, unloaded>>
fanned  == <<stopped, open, chan>>
streams == <<where, written, withheld, since, tie>>
bounds  == <<drops, failures, connects>>
vars    == <<kind, table, pump, fanned, streams, horizon, bounds>>

Ids == 1..MaxId
Replays == kind = "notifications"

GetNotification(id) == id \in rows
LatestNotificationID == IF rows = {} THEN 0 ELSE CHOOSE m \in rows : \A id \in rows : id <= m
NotificationsAfter(id) == {r \in rows : r > id /\ Cardinality({s \in rows : id < s /\ s < r}) < CatchUpLimit}
RecentNotifications == {r \in rows : Cardinality({s \in rows : s > r}) < ReplayLimit}

TypeOK ==
  /\ kind \in {"notifications", "solves"}
  /\ rows \subseteq Ids /\ held \in [Publishers -> 0..MaxId] /\ nextId \in 0..MaxId
  /\ conn \in {"down", "listening", "catching", "up"}
  /\ wire \in Seq(Ids) /\ missed \subseteq Ids /\ latest \in 0..MaxId /\ lastID \in 0..MaxId + 1
  /\ stopped \in BOOLEAN /\ open \subseteq Clients
  /\ chan \in [Clients -> Seq(Ids)] /\ \A c \in Clients : Len(chan[c]) <= Buffer
  /\ where \in [Clients -> {"away", "replaying", "live"}]
  /\ written \in [Clients -> SUBSET Ids] /\ withheld \in [Clients -> SUBSET Ids]
  /\ horizon \in Horizons
  /\ since \in [Clients -> SUBSET Ids] /\ tie \in [Clients -> {"early", "steady", "broken"}]
  /\ unloaded \subseteq Ids

Init ==
  /\ kind \in {"notifications", "solves"}
  /\ rows = {} /\ held = [p \in Publishers |-> 0] /\ nextId = 0
  /\ conn = "down" /\ wire = << >> /\ latest = 0 /\ missed = {} /\ lastID = 0 /\ unloaded = {}
  /\ stopped = FALSE /\ open = {} /\ chan = [c \in Clients |-> << >>]
  /\ where = [c \in Clients |-> "away"]
  /\ written = [c \in Clients |-> {}] /\ withheld = [c \in Clients |-> {}]
  /\ since = [c \in Clients |-> {}] /\ tie = [c \in Clients |-> "early"]
  /\ horizon = MaxId + 1
  /\ drops = 0 /\ failures = 0 /\ connects = [c \in Clients |-> 0]

-----------------------------------------------------------------------------
(* Publishing: the insert and pg_notify in one transaction.                *)

InsertNotification(p) ==
  /\ held[p] = 0 /\ nextId < MaxId
  /\ nextId' = nextId + 1 /\ held' = [held EXCEPT ![p] = nextId + 1]
  /\ UNCHANGED <<kind, rows, pump, fanned, streams, horizon, bounds>>

Hears == conn # "down"

Publish(p) ==
  /\ held[p] # 0
  /\ rows' = rows \cup {held[p]}
  /\ wire' = IF Hears THEN Append(wire, held[p]) ELSE wire
  /\ held' = [held EXCEPT ![p] = 0]
  /\ UNCHANGED <<kind, nextId, conn, latest, missed, lastID, unloaded, fanned, streams, horizon, bounds>>

Rollback(p) ==
  /\ held[p] # 0
  /\ held' = [held EXCEPT ![p] = 0]
  /\ UNCHANGED <<kind, rows, nextId, pump, fanned, streams, horizon, bounds>>

-----------------------------------------------------------------------------
(* The pump: a session LISTENs, catches up, and then awaits signals.       *)

Break(cs) == [c \in Clients |-> IF c \in cs /\ tie[c] = "steady" THEN "broken" ELSE tie[c]]

Session ==
  /\ conn = "down" /\ ~stopped
  /\ conn' = IF Replays THEN "listening" ELSE "up"
  /\ unloaded' = {}
  /\ UNCHANGED <<kind, table, wire, latest, missed, lastID, fanned, streams, horizon, bounds>>

LatestID ==
  /\ conn = "listening"
  /\ latest' = LatestNotificationID
  /\ IF lastID = 0 THEN lastID' = LatestNotificationID + 1 /\ conn' = "up"
                   ELSE conn' = "catching" /\ UNCHANGED lastID
  /\ UNCHANGED <<kind, table, wire, missed, unloaded, fanned, streams, horizon, bounds>>

Advance(id) == IF id + 1 > lastID THEN id + 1 ELSE lastID

\* The rows after the watermark; past the limit the watermark jumps to the latest.
After ==
  /\ conn = "catching" /\ missed = {}
  /\ LET after == NotificationsAfter(lastID - 1) IN
       /\ missed' = after
       /\ lastID' = IF Cardinality(after) = CatchUpLimit THEN Advance(latest) ELSE lastID
       /\ conn' = "up"
  /\ UNCHANGED <<kind, table, wire, latest, unloaded, fanned, streams, horizon, bounds>>

Broadcast(id) ==
  LET behind == {c \in open : Len(chan[c]) = Buffer} IN
  /\ chan' = [c \in Clients |-> IF c \in open \ behind THEN Append(chan[c], id) ELSE chan[c]]
  /\ open' = open \ behind

\* What was missed is fanned out in the order of the ids.
CatchUp ==
  /\ conn = "up"
  /\ \E id \in missed :
       /\ \A later \in missed : id <= later
       /\ lastID' = Advance(id) /\ missed' = missed \ {id}
       /\ Broadcast(id)
  /\ UNCHANGED <<kind, table, conn, wire, latest, unloaded, stopped, streams, horizon, bounds>>

Deliver ==
  /\ conn = "up" /\ missed = {} /\ wire # << >> /\ GetNotification(Head(wire))
  /\ lastID' = IF Replays THEN Advance(Head(wire)) ELSE lastID
  /\ wire' = Tail(wire)
  /\ Broadcast(Head(wire))
  /\ UNCHANGED <<kind, table, conn, latest, missed, unloaded, stopped, streams, horizon, bounds>>

\* The row cannot be loaded: the watermark stays where it is.
DeliverFails ==
  /\ Replays /\ conn = "up" /\ missed = {} /\ wire # << >> /\ failures < MaxFailures
  /\ wire' = Tail(wire) /\ failures' = failures + 1
  /\ unloaded' = unloaded \cup {Head(wire)} /\ tie' = Break(Clients)
  /\ UNCHANGED <<kind, table, conn, latest, missed, lastID, fanned, where, written, withheld, since, horizon, drops, connects>>

\* The connection goes, and the signals on it with it.
SessionEnds ==
  /\ conn # "down" /\ drops < MaxDrops
  /\ conn' = "down" /\ wire' = << >> /\ missed' = {} /\ drops' = drops + 1
  /\ tie' = Break(Clients)
  /\ UNCHANGED <<kind, table, latest, lastID, unloaded, fanned, where, written, withheld, since, horizon, failures, connects>>

\* OnStop: the pump is cancelled and every channel closed.
CloseAll ==
  /\ ~stopped /\ stopped' = TRUE /\ open' = {}
  /\ conn' = "down" /\ wire' = << >> /\ missed' = {} /\ tie' = Break(Clients)
  /\ UNCHANGED <<kind, table, latest, lastID, unloaded, chan, where, written, withheld, since, horizon, bounds>>

-----------------------------------------------------------------------------
(* A stream: subscribe, replay, then whatever the channel holds.           *)

Subscribed(c) == open \cup (IF stopped THEN {} ELSE {c})

\* Slip: replay first, subscribe after.
SubscribeAfterReplay(c) ==
  /\ Replays /\ connects[c] < MaxConnects /\ connects' = [connects EXCEPT ![c] = @ + 1]
  /\ \/ /\ where[c] = "away" /\ where' = [where EXCEPT ![c] = "replaying"]
        /\ written' = [written EXCEPT ![c] = RecentNotifications]
        /\ since' = [since EXCEPT ![c] = rows]
        /\ tie' = [tie EXCEPT ![c] = IF conn = "up" THEN "steady" ELSE "broken"]
        /\ UNCHANGED open
     \/ /\ where[c] = "replaying" /\ where' = [where EXCEPT ![c] = "live"] /\ open' = Subscribed(c)
        /\ UNCHANGED <<written, since, tie>>
  /\ UNCHANGED <<kind, table, pump, chan, withheld, stopped, horizon, drops, failures>>

Subscribe(c) ==
  /\ where[c] = "away" /\ connects[c] < MaxConnects
  /\ connects' = [connects EXCEPT ![c] = @ + 1]
  /\ open' = Subscribed(c) /\ chan' = [chan EXCEPT ![c] = << >>]
  /\ where' = [where EXCEPT ![c] = IF Replays THEN "replaying" ELSE "live"]
  /\ written' = [written EXCEPT ![c] = {}] /\ withheld' = [withheld EXCEPT ![c] = {}]
  /\ since' = [since EXCEPT ![c] = rows]
  /\ tie' = [tie EXCEPT ![c] = IF conn = "up" THEN "steady" ELSE IF lastID = 0 THEN "early" ELSE "broken"]
  /\ UNCHANGED <<kind, table, pump, stopped, horizon, drops, failures>>

Recent(c) ==
  /\ where[c] = "replaying"
  /\ where' = [where EXCEPT ![c] = "live"]
  /\ \/ written' = [written EXCEPT ![c] = @ \cup RecentNotifications] /\ UNCHANGED failures
     \/ failures < MaxFailures /\ failures' = failures + 1 /\ UNCHANGED written
  /\ UNCHANGED <<kind, table, pump, fanned, withheld, since, tie, horizon, drops, connects>>

SolveSuppressedByFreeze(id) == ~Replays /\ id >= horizon

Stream(c) ==
  /\ where[c] = "live" /\ chan[c] # << >>
  /\ chan' = [chan EXCEPT ![c] = Tail(@)]
  /\ LET id == Head(chan[c]) IN
     IF SolveSuppressedByFreeze(id)
       THEN withheld' = [withheld EXCEPT ![c] = @ \cup {id}] /\ UNCHANGED written
       ELSE written' = [written EXCEPT ![c] = @ \cup {id}] /\ UNCHANGED withheld
  /\ UNCHANGED <<kind, table, pump, stopped, open, where, since, tie, horizon, bounds>>

Gone(c) ==
  /\ where' = [where EXCEPT ![c] = "away"] /\ chan' = [chan EXCEPT ![c] = << >>]
  /\ UNCHANGED <<kind, table, pump, stopped, written, withheld, since, tie, horizon, bounds>>

\* The channel was closed and what it still held is written.
StreamEnds(c) == where[c] = "live" /\ c \notin open /\ chan[c] = << >> /\ Gone(c) /\ UNCHANGED open

\* The client disconnects; the deferred unsubscribe runs.
Unsubscribe(c) == where[c] # "away" /\ Gone(c) /\ open' = open \ {c}

SetFreeze ==
  /\ ~Replays
  /\ horizon' \in Horizons
  /\ UNCHANGED <<kind, table, pump, fanned, streams, bounds>>

Next ==
  \/ \E p \in Publishers : InsertNotification(p) \/ Publish(p) \/ Rollback(p)
  \/ Session \/ LatestID \/ After \/ CatchUp \/ Deliver \/ DeliverFails \/ SessionEnds \/ CloseAll
  \/ \E c \in Clients : Subscribe(c) \/ Recent(c) \/ Stream(c) \/ StreamEnds(c) \/ Unsubscribe(c)
  \/ SetFreeze

Spec == Init /\ [][Next]_vars

-----------------------------------------------------------------------------
Handed(c) == written[c] \cup withheld[c] \cup ToSet(chan[c])

(* A client that connected to a working pump and has seen no outage is     *)
(* owed everything committed since: the subscription precedes the replay,  *)
(* so nothing falls between the two (streamNotifications).                 *)
SteadyMissesNothing ==
  \A c \in open : conn = "up" /\ where[c] = "live" /\ tie[c] = "steady" =>
    rows \ since[c] \subseteq Handed(c) \cup ToSet(wire)

(* What makes it so: nobody connects to a pump that does not work, and who *)
(* is connected while it does is handed each row as its signal leaves the  *)
(* connection, the client's own replay still to come or not.               *)
SteadyMeansUp == conn # "up" => \A c \in Clients : tie[c] # "steady"
Owed(c) == conn = "up" /\ tie[c] = "steady" => rows \ since[c] \subseteq Handed(c) \cup ToSet(wire)
Inv == SteadyMeansUp /\ \A c \in open : Owed(c)

(* catchUp's comment: every reconnect replays what the dead connection was *)
(* never told about.                                                       *)
OutageIsReplayed ==
  \A c \in open : /\ Replays /\ conn = "up" /\ missed = {} /\ wire = << >>
                  /\ where[c] = "live" /\ tie[c] # "early"
    => rows \ since[c] \subseteq Handed(c)

=============================================================================
