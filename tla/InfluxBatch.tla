---------------------------- MODULE InfluxBatch ----------------------------
(***************************************************************************)
(* The InfluxDB bridges (influxdb_out and influxdb3_out share this design, *)
(* function by function): readings are collected in a batch, written to    *)
(* the server, or kept in a backlog that is saved to a file as a whole.    *)
(* Readings are numbered in the order of their capture. The calls a        *)
(* function makes return through `caller`. 0 is a reading the model does   *)
(* not follow: it makes the bridge act and leaves nothing behind.          *)
(***************************************************************************)
EXTENDS Naturals, Sequences, SequencesExt, FiniteSets

CONSTANTS
    InfluxWriters,     \* threads that call write_data(): one unless concurrent
    MaxReadings,       \* bound: readings offered
    BatchSize,         \* batch_size
    MaxBacklog,        \* max_backlog_size
    KeepsBacklog,      \* enable_persistent_storage
    InfluxSetups,      \* of "v1", "v3" (auto_create_database off), "v3auto"
    PoisonReadings,    \* readings the server refuses for their content
    WaitsForWriters,   \* TRUE: stop() is over before cleanup() is called
    MayTear,           \* TRUE: a crash may hit write_bytes() half way
    MaxServerOutages, MaxInfluxCrashes   \* bounds: faults of each kind

ASSUME InfluxAssumption ==
    /\ MaxReadings \in Nat /\ BatchSize \in Nat \ {0} /\ MaxBacklog \in Nat \ {0}
    /\ {KeepsBacklog, WaitsForWriters, MayTear} \subseteq BOOLEAN
    /\ InfluxSetups \subseteq {"v1", "v3", "v3auto"} /\ InfluxSetups # {}
    /\ PoisonReadings \subseteq 1..MaxReadings
    /\ {MaxServerOutages, MaxInfluxCrashes} \subseteq Nat

VARIABLES
    setup,        \* the kind of bridge configured
    open,         \* the bridge object: none, built, open, closing, closed
    batch,        \* batch_points
    backlog,      \* backlog_points
    file,         \* what the backlog file holds, or Torn
    influxOn,     \* connected
    client,       \* TRUE: client is not None
    recent,       \* TRUE: the last connection check is recent enough
    at,           \* where a writer is
    caller,       \* who called _check_connection() or _attempt_reconnect()
    reading,      \* the reading it was called with, 0 none followed
    held,         \* points_to_write or pending: taken from the batch
    snap,         \* points_to_send: copied from the backlog
    pending,      \* what close() took from the batch
    server,       \* TRUE: the server answers
    database,     \* TRUE: the database exists
    inInflux,     \* readings written
    givenUp,      \* history: evicted, expired or dropped without a backlog
    captured,     \* history: the number of readings offered
    influxFaults  \* faults so far

memory == <<open, batch, backlog, influxOn, client, recent>>
writers == <<at, caller, reading, held, snap, pending>>
outside == <<setup, file, server, database, inInflux, givenUp, captured, influxFaults>>
influxVars == <<memory, writers, outside>>

Torn == <<0>>          \* a file pickle cannot read
Readings == 1..MaxReadings
Healthy == server /\ (setup # "v1" => database)   \* ping, or a query

InfluxTypeOK ==
    /\ setup \in InfluxSetups /\ open \in {"none", "built", "open", "closing", "closed"}
    /\ {batch, backlog, pending} \subseteq Seq(Readings) /\ file \in Seq(Readings) \cup {Torn}
    /\ Len(backlog) <= MaxBacklog /\ Len(file) <= MaxBacklog
    /\ {influxOn, client, recent, server, database} \subseteq BOOLEAN
    /\ at \in [InfluxWriters -> {"idle", "check", "dial", "snap", "send", "clear", "append",
                                 "take", "write", "rewrite", "keep", "giveup", "store",
                                 "drain", "stow"}]
    /\ caller \in [InfluxWriters -> {"connect", "route", "flush", "retry"}]
    /\ reading \in [InfluxWriters -> 0..MaxReadings]
    /\ {held, snap} \subseteq [InfluxWriters -> Seq(Readings)]
    /\ inInflux \cup givenUp \subseteq Readings /\ captured \in 0..MaxReadings
    /\ influxFaults \in [{"outage", "crash"} -> Nat]

InfluxInit ==
    /\ setup \in InfluxSetups
    /\ open = "none" /\ batch = <<>> /\ backlog = <<>> /\ file = <<>>
    /\ influxOn = FALSE /\ client = FALSE /\ recent = FALSE
    /\ at = [w \in InfluxWriters |-> "idle"] /\ caller = [w \in InfluxWriters |-> "route"]
    /\ reading = [w \in InfluxWriters |-> 0]
    /\ held = [w \in InfluxWriters |-> <<>>] /\ snap = [w \in InfluxWriters |-> <<>>]
    /\ pending = <<>>
    /\ server \in BOOLEAN /\ database = FALSE
    /\ inInflux = {} /\ givenUp = {} /\ captured = 0
    /\ influxFaults = [k \in {"outage", "crash"} |-> 0]

AllIdle == \A w \in InfluxWriters : at[w] = "idle"
Goto(w, where) == at' = [at EXCEPT ![w] = where]

----------------------------------------------------------------------------
(* The backlog. *)

\* What the backlog keeps of s: the newest max_backlog_size.
Trimmed(s) == IF Len(s) <= MaxBacklog THEN s ELSE SubSeq(s, Len(s) - MaxBacklog + 1, Len(s))

\* _save_backlog()
Save == file' = IF KeepsBacklog THEN backlog' ELSE file

\* _add_points_to_backlog()
Keep(points) ==
    IF KeepsBacklog
       THEN /\ backlog' = Trimmed(backlog \o points)
            /\ givenUp' = givenUp \cup (ToSet(backlog \o points) \ ToSet(backlog'))
            /\ IF points = <<>> THEN UNCHANGED file ELSE Save
       ELSE /\ givenUp' = givenUp \cup ToSet(points)
            /\ UNCHANGED <<backlog, file>>

\* Where a call with this answer returns to.
Resume(c, answer) ==
    CASE c = "connect" -> "idle"
      [] c = "route"   -> IF answer THEN "append" ELSE "store"
      [] c = "flush"   -> IF answer THEN "write" ELSE "keep"
      [] c = "retry"   -> IF answer THEN "rewrite" ELSE "giveup"

Return(w, answer) == Goto(w, Resume(caller[w], answer))

----------------------------------------------------------------------------
(* Construction and connect(). *)

\* _load_backlog(): an unreadable file is an empty backlog; old points expire.
LoadBacklog ==
    IF ~KeepsBacklog \/ file = Torn
       THEN backlog' = <<>> /\ UNCHANGED <<file, givenUp>>
       ELSE \E k \in 0..Len(file) :
               /\ backlog' = SubSeq(file, k + 1, Len(file))
               /\ givenUp' = givenUp \cup ToSet(SubSeq(file, 1, k))
               /\ Save

BuildInflux ==
    /\ open \in {"none", "closed"} /\ AllIdle
    /\ open' = "built" /\ batch' = <<>> /\ influxOn' = FALSE /\ client' = FALSE
    /\ recent' = FALSE
    /\ LoadBacklog
    /\ UNCHANGED <<writers, setup, server, database, inInflux, captured, influxFaults>>

\* The end of a connect() that failed, or that succeeded and flushes the backlog.
ConnectEnds(w, ok) ==
    /\ open = "built" /\ open' = "open" /\ client' = TRUE /\ influxOn' = ok
    /\ recent' = (recent \/ ok)
    /\ caller' = [caller EXCEPT ![w] = "connect"]
    /\ Goto(w, IF ok /\ KeepsBacklog THEN "snap" ELSE "idle")
    /\ UNCHANGED <<batch, backlog, reading, held, snap, pending, setup, file, server, inInflux,
                   givenUp, captured, influxFaults>>

\* Version 1 creates a missing database.
ConnectV1(w) ==
    /\ setup = "v1"
    /\ database' = (database \/ server)
    /\ ConnectEnds(w, server)

\* Version 3 leaves it to the first write or, with auto_create_database off, gives up.
ConnectV3(w) ==
    /\ setup # "v1"
    /\ UNCHANGED database
    /\ ConnectEnds(w, server /\ (database \/ setup = "v3auto"))

----------------------------------------------------------------------------
(* _check_connection() and _attempt_reconnect(). *)

\* Asked again within both intervals.
CheckThrottled(w) ==
    /\ at[w] = "check" /\ recent
    /\ Return(w, influxOn)
    /\ UNCHANGED <<memory, caller, reading, held, snap, pending, outside>>

CheckPings(w) ==
    /\ at[w] = "check" /\ ~recent /\ recent' = TRUE
    /\ IF influxOn /\ client /\ Healthy THEN Return(w, TRUE) ELSE Goto(w, "dial")
    /\ UNCHANGED <<open, batch, backlog, influxOn, client, caller, reading, held, snap, pending,
                   outside>>

\* Mutant of DialSucceeds: the backlog is not flushed.
DialForgetsBacklog(w) ==
    /\ at[w] = "dial" /\ Healthy
    /\ client' = TRUE /\ influxOn' = TRUE /\ Return(w, TRUE)
    /\ UNCHANGED <<open, batch, backlog, recent, caller, reading, held, snap, pending, outside>>

DialSucceeds(w) ==
    /\ at[w] = "dial" /\ Healthy
    /\ client' = TRUE /\ influxOn' = TRUE
    /\ IF KeepsBacklog THEN Goto(w, "snap") ELSE Return(w, TRUE)
    /\ UNCHANGED <<open, batch, backlog, recent, caller, reading, held, snap, pending, outside>>

DialFails(w) ==
    /\ at[w] = "dial" /\ ~Healthy
    /\ client' = TRUE /\ influxOn' = FALSE
    /\ Return(w, FALSE)
    /\ UNCHANGED <<open, batch, backlog, recent, caller, reading, held, snap, pending, outside>>

\* _flush_backlog(), up to the copy.
SnapBacklog(w) ==
    /\ at[w] = "snap"
    /\ IF backlog = <<>> \/ ~influxOn
          THEN Return(w, TRUE) /\ UNCHANGED snap
          ELSE Goto(w, "send") /\ snap' = [snap EXCEPT ![w] = backlog]
    /\ UNCHANGED <<memory, caller, reading, held, pending, outside>>

\* client.write(): the server stores all of it or raises. Version 3 creates the
\* database with the first write.
Accepts(points) ==
    server /\ (setup = "v1" => database) /\ ToSet(points) \cap PoisonReadings = {}

\* Mutant of SendBacklog: cleared although the write failed.
SendBacklogOnce(w) ==
    /\ at[w] = "send" /\ Goto(w, "clear")
    /\ inInflux' = inInflux \cup (IF client /\ Accepts(snap[w]) THEN ToSet(snap[w]) ELSE {})
    /\ database' = (database \/ (client /\ Accepts(snap[w])))
    /\ UNCHANGED <<memory, caller, reading, held, snap, pending, setup, file, server, givenUp, captured,
                   influxFaults>>

SendBacklog(w) ==
    /\ at[w] = "send"
    /\ IF client /\ Accepts(snap[w])
          THEN inInflux' = inInflux \cup ToSet(snap[w]) /\ database' = TRUE /\ Goto(w, "clear")
          ELSE Return(w, TRUE) /\ UNCHANGED <<inInflux, database>>
    /\ UNCHANGED <<memory, caller, reading, held, snap, pending, setup, file, server, givenUp, captured,
                   influxFaults>>

ClearBacklog(w) ==
    /\ at[w] = "clear"
    /\ backlog' = <<>> /\ Save
    /\ Return(w, TRUE) /\ snap' = [snap EXCEPT ![w] = <<>>]
    /\ UNCHANGED <<open, batch, influxOn, client, recent, caller, reading, held, pending, setup, server,
                   database, inInflux, givenUp, captured, influxFaults>>

----------------------------------------------------------------------------
(* write_data(). *)

Offer(w, r) ==
    /\ at[w] = "idle" /\ open = "open"
    /\ reading' = [reading EXCEPT ![w] = r]
    /\ caller' = [caller EXCEPT ![w] = "route"] /\ Goto(w, "check")
    /\ UNCHANGED <<memory, held, snap, pending, setup, file, server, database, inInflux, givenUp,
                   influxFaults>>

OfferNext(w) ==
    /\ captured < MaxReadings /\ captured' = captured + 1
    /\ Offer(w, captured + 1)

OfferOther(w) == Offer(w, 0) /\ UNCHANGED captured

Followed(w) == IF reading[w] = 0 THEN <<>> ELSE <<reading[w]>>

\* Online: the batch is flushed when it is full or old.
AppendPoint(w) ==
    /\ at[w] = "append"
    /\ batch' = batch \o Followed(w)
    /\ \/ Goto(w, "take")
       \/ Len(batch') < BatchSize /\ Goto(w, "idle")
    /\ reading' = [reading EXCEPT ![w] = 0]
    /\ UNCHANGED <<open, backlog, influxOn, client, recent, caller, held, snap, pending, outside>>

\* _flush_batch()
TakeBatch(w) ==
    /\ at[w] = "take"
    /\ held' = [held EXCEPT ![w] = batch] /\ batch' = <<>>
    /\ caller' = [caller EXCEPT ![w] = "flush"]
    /\ Goto(w, IF batch = <<>> THEN "idle" ELSE "check")
    /\ UNCHANGED <<open, backlog, influxOn, client, recent, reading, snap, pending, outside>>

\* Without a client nothing is written, and nothing is kept.
WriteBatch(w) ==
    /\ at[w] = "write"
    /\ IF client /\ ~Accepts(held[w])
          THEN /\ caller' = [caller EXCEPT ![w] = "retry"] /\ Goto(w, "dial")
               /\ UNCHANGED <<inInflux, database, held>>
          ELSE /\ inInflux' = inInflux \cup (IF client THEN ToSet(held[w]) ELSE {})
               /\ database' = (database \/ client)
               /\ held' = [held EXCEPT ![w] = <<>>]
               /\ Goto(w, "idle") /\ UNCHANGED caller
    /\ UNCHANGED <<memory, reading, snap, pending, setup, file, server, givenUp, captured, influxFaults>>

RewriteBatch(w) ==
    /\ at[w] = "rewrite"
    /\ IF client /\ ~Accepts(held[w])
          THEN Goto(w, "giveup") /\ UNCHANGED <<inInflux, database, held>>
          ELSE /\ inInflux' = inInflux \cup (IF client THEN ToSet(held[w]) ELSE {})
               /\ database' = (database \/ client)
               /\ held' = [held EXCEPT ![w] = <<>>] /\ Goto(w, "idle")
    /\ UNCHANGED <<memory, caller, reading, snap, pending, setup, file, server, givenUp, captured,
                   influxFaults>>

\* Not connected, or the second write failed too.
KeepBatch(w) ==
    /\ at[w] \in {"keep", "giveup"}
    /\ Keep(held[w]) /\ held' = [held EXCEPT ![w] = <<>>]
    /\ influxOn' = (influxOn /\ at[w] = "keep")
    /\ Goto(w, "idle")
    /\ UNCHANGED <<open, batch, client, recent, caller, reading, snap, pending, setup, server, database,
                   inInflux, captured, influxFaults>>

\* Offline: the batch goes to the backlog before the reading does.
StorePoint(w) ==
    /\ at[w] = "store"
    /\ IF KeepsBacklog
          THEN /\ held' = [held EXCEPT ![w] = batch] /\ batch' = <<>> /\ Goto(w, "drain")
               /\ UNCHANGED <<reading, givenUp>>
          ELSE /\ givenUp' = givenUp \cup ToSet(Followed(w)) /\ Goto(w, "idle")
               /\ reading' = [reading EXCEPT ![w] = 0]
               /\ UNCHANGED <<held, batch>>
    /\ UNCHANGED <<open, backlog, influxOn, client, recent, caller, snap, pending, setup, file, server,
                   database, inInflux, captured, influxFaults>>

DrainBatch(w) ==
    /\ at[w] = "drain"
    /\ Keep(held[w]) /\ held' = [held EXCEPT ![w] = <<>>]
    /\ Goto(w, "stow")
    /\ UNCHANGED <<open, batch, influxOn, client, recent, caller, reading, snap, pending, setup, server,
                   database, inInflux, captured, influxFaults>>

StowPoint(w) ==
    /\ at[w] = "stow"
    /\ Keep(Followed(w)) /\ reading' = [reading EXCEPT ![w] = 0]
    /\ Goto(w, "idle")
    /\ UNCHANGED <<open, batch, influxOn, client, recent, caller, held, snap, pending, setup, server,
                   database, inInflux, captured, influxFaults>>

----------------------------------------------------------------------------
(* cleanup(), the server and the clock. *)

CloseInflux ==
    /\ open = "open" /\ (WaitsForWriters => AllIdle)
    /\ open' = "closing" /\ pending' = batch /\ batch' = <<>>
    /\ UNCHANGED <<backlog, influxOn, client, recent, at, caller, reading, held, snap, outside>>

\* _write_pending_on_close() and the end of close()
FinishClose ==
    /\ open = "closing" /\ open' = "closed"
    /\ client' = FALSE /\ influxOn' = FALSE /\ pending' = <<>>
    /\ IF influxOn /\ client /\ Accepts(pending)
          THEN /\ inInflux' = inInflux \cup ToSet(pending)
               /\ database' = (database \/ pending # <<>>)
               /\ UNCHANGED <<backlog, file, givenUp>>
          ELSE Keep(pending) /\ UNCHANGED <<inInflux, database>>
    /\ UNCHANGED <<batch, recent, at, caller, reading, held, snap, setup, server, captured, influxFaults>>

\* The process dies; a save that was under way may leave half a file.
InfluxCrash ==
    /\ influxFaults["crash"] < MaxInfluxCrashes
    /\ influxFaults' = [influxFaults EXCEPT !["crash"] = @ + 1]
    /\ open' = "none" /\ batch' = <<>> /\ backlog' = <<>> /\ influxOn' = FALSE
    /\ client' = FALSE /\ recent' = FALSE
    /\ at' = [w \in InfluxWriters |-> "idle"] /\ caller' = [w \in InfluxWriters |-> "route"]
    /\ reading' = [w \in InfluxWriters |-> 0]
    /\ held' = [w \in InfluxWriters |-> <<>>] /\ snap' = [w \in InfluxWriters |-> <<>>]
    /\ pending' = <<>>
    /\ \/ UNCHANGED file
       \/ /\ MayTear /\ file' = Torn
          /\ \E w \in InfluxWriters : at[w] \in {"clear", "keep", "giveup", "drain", "stow"}
    /\ UNCHANGED <<setup, server, database, inInflux, givenUp, captured>>

ServerFails ==
    /\ server /\ influxFaults["outage"] < MaxServerOutages
    /\ influxFaults' = [influxFaults EXCEPT !["outage"] = @ + 1]
    /\ server' = FALSE
    /\ UNCHANGED <<memory, writers, setup, file, database, inInflux, givenUp, captured>>

ServerReturns ==
    /\ ~server /\ server' = TRUE
    /\ UNCHANGED <<memory, writers, setup, file, database, inInflux, givenUp, captured, influxFaults>>

\* connection_check_interval or periodic_reconnect_interval has passed.
IntervalPasses ==
    /\ recent /\ recent' = FALSE
    /\ UNCHANGED <<open, batch, backlog, influxOn, client, writers, outside>>

Reconnecting(w) ==
    \/ CheckThrottled(w) \/ CheckPings(w) \/ DialSucceeds(w) \/ DialFails(w)
    \/ SnapBacklog(w) \/ SendBacklog(w) \/ ClearBacklog(w)

Writing(w) ==
    \/ AppendPoint(w) \/ TakeBatch(w) \/ WriteBatch(w) \/ RewriteBatch(w) \/ KeepBatch(w)
    \/ StorePoint(w) \/ DrainBatch(w) \/ StowPoint(w)

InfluxNext ==
    \/ BuildInflux \/ CloseInflux \/ FinishClose
    \/ InfluxCrash \/ ServerFails \/ ServerReturns \/ IntervalPasses
    \/ \E w \in InfluxWriters :
          ConnectV1(w) \/ ConnectV3(w) \/ OfferNext(w) \/ OfferOther(w) \/ Reconnecting(w) \/ Writing(w)

\* Threads run, time passes, and readings keep coming.
InfluxFairness ==
    /\ WF_influxVars(IntervalPasses)
    /\ \A w \in InfluxWriters :
          /\ WF_influxVars(Reconnecting(w)) /\ WF_influxVars(Writing(w))
          /\ WF_influxVars(OfferOther(w)) /\ SF_influxVars(CheckPings(w))

InfluxSpec == InfluxInit /\ [][InfluxNext]_influxVars
FairInfluxSpec == InfluxSpec /\ InfluxFairness

----------------------------------------------------------------------------
(* Properties. *)

InHands == UNION {ToSet(held[w]) \cup ToSet(Followed(w)) : w \in InfluxWriters}

\* What has become of a reading.
influxFate ==
    [r \in Readings |->
        IF r > captured THEN "none"
        ELSE IF r \in inInflux THEN "stored"
        ELSE IF file # Torn /\ r \in ToSet(file) THEN "durable"
        ELSE IF r \in ToSet(batch) \cup ToSet(backlog) \cup ToSet(pending) \cup InHands
             THEN "volatile"
        ELSE IF r \in givenUp THEN "dropped"
        ELSE "lost"]

Influx == INSTANCE DurableStore WITH Points <- Readings, fate <- influxFate

\* A reading in the backlog file is written to InfluxDB or given up by a rule
\* (max_backlog_size, max_backlog_age), through reconnects, crashes and reloads.
PointsAreDurable == Influx!Spec

\* While the process runs, no reading is lost at all: neither between the
\* batch, the backlog and the server, nor when the bridge is closed.
NoReadingVanishes ==
    [][influxFaults["crash"] = influxFaults'["crash"] =>
          \A r \in Readings : influxFate'[r] = "lost" => influxFate[r] = "lost"]_influxVars

\* "Each point lives in exactly one place and chronological order is
\* preserved" (_drain_batch_to_backlog): backlog, batch in hand, batch.
CaptureOrder ==
    \A w \in InfluxWriters :
        LET all == backlog \o held[w] \o batch \o pending \o Followed(w)
        IN \A i, j \in DOMAIN all : i < j => all[i] < all[j]

Kept(r) == r \in ToSet(backlog)
InService == server /\ database /\ open = "open"

\* A bridge that is not connected when the server stays up from now on will
\* reconnect and write its backlog.
ReconnectDelivers ==
    \A r \in Readings \ PoisonReadings :
        []((Kept(r) /\ ~influxOn /\ []InService) => <>(~Kept(r)))

\* _flush_backlog(): "Don't clear backlog on failure - will retry later".
FailedFlushIsRetried ==
    \A r \in Readings : <>[]InService => []<>(~Kept(r))

\* connect() leaves a missing database to "your module's first write batch"
\* (version 3) or creates it itself (version 1): no backlog waits for ever for it.
DatabaseAppears ==
    ~ <>[](server /\ open = "open" /\ backlog # <<>> /\ ~database /\ setup # "v3")
\* The three together: nothing captured is lost, doubled up or overtaken.
ReadingsSurvive == []CaptureOrder /\ PointsAreDurable /\ NoReadingVanishes
=============================================================================
