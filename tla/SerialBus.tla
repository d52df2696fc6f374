----------------------------- MODULE SerialBus -----------------------------
(***************************************************************************)
(* serial_base.py, serial_frame_transport.py and serial_pylon.py: the       *)
(* sections of one serial port, the client they share, and what is on the   *)
(* wire between them and the devices.                                       *)
(*                                                                          *)
(* style "command" is serial_pylon: the port is opened while the gateway is *)
(* built, a section asks and its device answers.  style "listen" is         *)
(* serial_frame_transport itself: the port is opened by connect() and the   *)
(* device speaks of its own accord.  The wire carries tokens: the markers   *)
(* SOI and EOI, and one token for all that is between them.  async_mode,    *)
(* with its second reader of the port, is left out.                         *)
(***************************************************************************)
EXTENDS Integers, Sequences, SequencesExt, FiniteSets

CONSTANTS
    Sections,          \* the config sections on the port, one device each
    Polls,             \* _poll_commands(): the commands of a cycle, in order
    MaxFrame,          \* max_frame_size, in tokens
    MaxClients,        \* client objects that may exist at a time
    MaxFaults,         \* tokens lost or too early, silences, and times the port is unplugged
    MayAnswerLate      \* a device may answer after the timeout

ASSUME SerialAssumption ==
    /\ Polls \in Seq(Nat \ {0}) /\ Polls # <<>> /\ IsFiniteSet(Sections) /\ "nobody" \notin Sections
    /\ {MaxFrame, MaxClients, MaxFaults} \subseteq Nat /\ MayAnswerLate \in BOOLEAN

VARIABLES
    style,             \* "command" or "listen"
    gateway,           \* "down", "up" or "stopping"
    plugged,           \* the adapter is there
    open,              \* client objects whose port works
    shared,            \* clients[key]: the client of the port; 0 for none
    mine,              \* _client of each section; 0 for none
    linked,            \* connected
    versed,            \* the version has been negotiated
    agenda,            \* commands the section has still to send in this cycle
    work,              \* where its exchange is: "idle", "sent", "reading"
    holder,            \* the port lock
    buf,               \* the buffer of read()
    taken,             \* what the cycle took: <<command, body of the frame>>
    failed,            \* cycle_mark_incomplete()
    expected,               \* requests a device has still to answer
    coming,            \* tokens on the way
    wire,              \* tokens in the input buffer of the port
    cut,               \* (history) an open port was unplugged since the sections were built
    mishaps, unplugs
serialVars == <<style, gateway, plugged, open, shared, mine, linked, versed, agenda, work, holder, buf, taken, failed,
                expected, coming, wire, cut, mishaps, unplugs>>
sectionVars == <<open, shared, mine, linked, versed, agenda, work, holder, buf, taken, failed>>
lineVars == <<expected, coming, wire, mishaps>>
lifeVars == <<style, gateway, plugged, cut, unplugs>>

Nobody == "nobody"
Hello == 0             \* the version query; also the pseudo-command of a listener
SOI == <<"soi">>
EOI == <<"eoi">>
Body(s, c) == <<"body", s, c>>
FrameOf(s, c) == <<SOI, Body(s, c), EOI>>
Clients == 1 .. MaxClients
Works(c) == c \in open
MayFault == mishaps + unplugs < MaxFaults

SerialInit ==
    /\ style \in {"command", "listen"} /\ gateway = "down" /\ plugged \in BOOLEAN
    /\ open = {} /\ shared = 0 /\ mine = [s \in Sections |-> 0]
    /\ linked = [s \in Sections |-> FALSE] /\ versed = [s \in Sections |-> FALSE]
    /\ agenda = [s \in Sections |-> <<>>] /\ work = [s \in Sections |-> "idle"] /\ holder = Nobody
    /\ buf = [s \in Sections |-> <<>>] /\ taken = [s \in Sections |-> {}] /\ failed = [s \in Sections |-> FALSE]
    /\ expected = {} /\ coming = <<>> /\ wire = <<>> /\ cut = FALSE /\ mishaps = 0 /\ unplugs = 0

----------------------------------------------------------------------------
\* The port and the client all its sections share.

\* A client object nobody refers to is as good as a new one.
Unused == {c \in Clients : c \notin open /\ c # shared /\ \A s \in Sections : mine[s] # c}

\* _acquire_client(): what a section without a client gets; the port must be found.
AcquireClient(who) ==
    /\ plugged
    /\ IF shared # 0 THEN UNCHANGED <<open, shared>>
       ELSE \E c \in Unused : shared' = c /\ open' = open \cup {c}
    /\ mine' = [s \in Sections |-> IF s \in who THEN shared' ELSE mine[s]]

PlugIn == ~plugged /\ plugged' = TRUE /\ UNCHANGED <<style, gateway, cut, unplugs>> /\ UNCHANGED sectionVars /\ UNCHANGED lineVars
Unplug ==
    /\ plugged /\ MayFault
    /\ plugged' = FALSE /\ unplugs' = unplugs + 1
    /\ cut' = (cut \/ open # {})
    /\ open' = {} /\ coming' = <<>> /\ wire' = <<>> /\ expected' = {}
    /\ UNCHANGED <<style, gateway, shared, mine, linked, versed, agenda, work, holder, buf, taken, failed, mishaps>>

\* __init__() of every section; a missing port fails it where it is opened here.
BuildSections ==
    /\ gateway = "down" /\ gateway' = "up"
    /\ MayAnswerLate \/ (coming = <<>> /\ expected = {})
    /\ IF style = "command" THEN AcquireClient(Sections) ELSE UNCHANGED <<open, shared, mine>>
    /\ versed' = [s \in Sections |-> FALSE] /\ wire' = <<>> /\ cut' = FALSE
    /\ taken' = [s \in Sections |-> {}] /\ failed' = [s \in Sections |-> FALSE]
    /\ UNCHANGED <<style, plugged, linked, agenda, work, holder, buf, expected, coming, mishaps, unplugs>>

StopSections ==
    /\ gateway = "up" /\ gateway' = "stopping"
    /\ UNCHANGED <<style, plugged, cut, unplugs>> /\ UNCHANGED sectionVars /\ UNCHANGED lineVars

\* _release_client(): its own client leaves the registry, not that of a successor.
\* Mutant of Evicted: the closed client stays.
EvictedNever(s) == shared
Evicted(s) == IF shared = mine[s] THEN 0 ELSE shared
\* cleanup(): the client is closed for all.
CleanUp(s) ==
    /\ gateway = "stopping" /\ (mine[s] # 0 \/ linked[s])
    /\ mine' = [mine EXCEPT ![s] = 0] /\ linked' = [linked EXCEPT ![s] = FALSE]
    /\ shared' = Evicted(s)
    /\ open' = open \ {mine[s]}
    /\ UNCHANGED <<versed, agenda, work, holder, buf, taken, failed>> /\ UNCHANGED lifeVars /\ UNCHANGED lineVars

\* The gateway is gone, the workers of a pool too.
SectionsGone ==
    /\ gateway = "stopping" /\ \A s \in Sections : mine[s] = 0 /\ ~linked[s] /\ agenda[s] = <<>>
    /\ gateway' = "down"
    /\ UNCHANGED <<style, plugged, cut, unplugs>> /\ UNCHANGED sectionVars /\ UNCHANGED lineVars

----------------------------------------------------------------------------
\* A cycle: connect() if need be, the version query of the first connect() that
\* reaches the device, and the commands. A connect() without a port changes nothing.

PollList == IF style = "listen" THEN <<Hello>> ELSE Polls
Poll(s) ==
    /\ gateway = "up" /\ agenda[s] = <<>>
    /\ \/ linked[s] /\ agenda' = [agenda EXCEPT ![s] = PollList] /\ UNCHANGED <<open, shared, mine, linked>>
       \/ /\ ~linked[s]
          /\ IF mine[s] # 0 THEN UNCHANGED <<open, shared, mine>> ELSE AcquireClient({s})
          /\ linked' = [linked EXCEPT ![s] = style = "listen" \/ versed[s]]
          /\ agenda' = [agenda EXCEPT ![s] = IF linked'[s] THEN PollList ELSE <<Hello>> \o PollList]
    /\ taken' = [taken EXCEPT ![s] = {}] /\ failed' = [failed EXCEPT ![s] = FALSE]
    /\ UNCHANGED <<versed, work, holder, buf>> /\ UNCHANGED lifeVars /\ UNCHANGED lineVars

\* The client raises, or is gone since cleanup(); a pool worker that comes so late would
\* connect again, here it gives up. The command loop ends with it, and the section stays connected;
\* a listener is disconnected.
Breaks(s) ==
    /\ agenda' = [agenda EXCEPT ![s] = <<>>] /\ work' = [work EXCEPT ![s] = "idle"]
    /\ holder' = IF holder = s THEN Nobody ELSE holder
    /\ linked' = IF style = "listen" THEN [linked EXCEPT ![s] = FALSE] ELSE linked
    /\ failed' = [failed EXCEPT ![s] = TRUE]
    /\ taken' = IF style = "command" THEN [taken EXCEPT ![s] = {}] ELSE taken
    /\ buf' = [buf EXCEPT ![s] = <<>>]
    /\ expected' = IF MayAnswerLate THEN expected ELSE {d \in expected : d[1] # s}
    /\ UNCHANGED <<open, shared, mine, versed, coming, wire, mishaps>> /\ UNCHANGED lifeVars

\* _exchange() and _listen_for_frame(): with the port lock, the request and the reply.
\* Mutant of LockFree: each section exchanges when it likes.
NoLock(s) == TRUE
LockFree(s) == holder \in {Nobody, s}
Ask(s) ==
    /\ agenda[s] # <<>> /\ work[s] = "idle" /\ LockFree(s)
    /\ \/ ~Works(mine[s]) /\ Breaks(s)
       \/ /\ Works(mine[s])
          /\ holder' = s /\ work' = [work EXCEPT ![s] = "sent"]
          /\ expected' = IF style = "command" THEN expected \cup {<<s, Head(agenda[s])>>} ELSE expected
          /\ UNCHANGED <<open, shared, mine, linked, versed, agenda, buf, taken, failed,
                         coming, wire, mishaps>> /\ UNCHANGED lifeVars

\* read(): what has come before is thrown away, an answer that was quick included.
ResetBuffer(s) ==
    /\ work[s] = "sent"
    /\ \/ ~Works(mine[s]) /\ Breaks(s)
       \/ /\ Works(mine[s])
          /\ work' = [work EXCEPT ![s] = "reading"] /\ wire' = <<>> /\ buf' = [buf EXCEPT ![s] = <<>>]
          /\ UNCHANGED <<open, shared, mine, linked, versed, agenda, holder, taken, failed,
                         expected, coming, mishaps>> /\ UNCHANGED lifeVars

\* What read() keeps of its buffer: from the first SOI on, unless no EOI follows for too long.
Kept(b) ==
    LET at == SelectInSeq(b, LAMBDA x : x = SOI)
        from == SubSeq(b, at, Len(b))
    IN IF at = 0 \/ (~Contains(from, EOI) /\ Len(from) > MaxFrame) THEN <<>> ELSE from
BodyOf(b) == SubSeq(b, 2, SelectInSeq(b, LAMBDA x : x = EOI) - 1)

\* decode_frame() checks lengths and checksum: nothing lost, nothing merged; a listener
\* takes whatever is between the markers.
FrameDecodes(body) == IF style = "listen" THEN body # <<>> ELSE Len(body) = 1

\* The exchange is over: the lock goes, and the next command is due. Without an answer
\* to its version query, a section goes on or leaves it, as the read mode has it.
Settle(s, answered) ==
    LET handshake == ~linked[s] /\ style = "command" /\ Head(agenda[s]) = Hello IN
    /\ work' = [work EXCEPT ![s] = "idle"] /\ holder' = IF holder = s THEN Nobody ELSE holder
    /\ buf' = [buf EXCEPT ![s] = <<>>]
    /\ \E rest \in {Tail(agenda[s])} \cup (IF handshake /\ ~answered THEN {<<>>} ELSE {}) :
          agenda' = [agenda EXCEPT ![s] = rest]
    /\ linked' = IF handshake /\ answered THEN [linked EXCEPT ![s] = TRUE] ELSE linked
    /\ versed' = IF handshake /\ answered THEN [versed EXCEPT ![s] = TRUE] ELSE versed
    /\ failed' = IF answered \/ handshake THEN failed ELSE [failed EXCEPT ![s] = TRUE]

ReadToken(s) ==
    /\ work[s] = "reading"
    /\ \/ ~Works(mine[s]) /\ Breaks(s)
       \/ /\ Works(mine[s]) /\ wire # <<>> /\ wire' = Tail(wire)
          /\ LET b == Kept(Append(buf[s], Head(wire))) IN
             IF Contains(b, EOI)
             THEN /\ Settle(s, FrameDecodes(BodyOf(b)))
                  /\ taken' = IF FrameDecodes(BodyOf(b)) THEN [taken EXCEPT ![s] = @ \cup {<<Head(agenda[s]), BodyOf(b)>>}] ELSE taken
             ELSE buf' = [buf EXCEPT ![s] = b] /\ UNCHANGED <<agenda, work, holder, linked, versed, taken, failed>>
          /\ UNCHANGED <<open, shared, mine, expected, coming, mishaps>> /\ UNCHANGED lifeVars

\* No EOI in time. It is a mishap unless nothing was to come any more.
NothingComes(s) == wire = <<>> /\ coming = <<>> /\ \A d \in expected : d[1] # s
ReadTimesOut(s) ==
    /\ work[s] = "reading" /\ Works(mine[s])
    /\ \/ NothingComes(s) /\ style = "command" /\ UNCHANGED mishaps
       \/ ~NothingComes(s) /\ MayFault /\ (MayAnswerLate \/ coming = <<>>) /\ mishaps' = mishaps + 1
    /\ Settle(s, FALSE)
    /\ expected' = IF MayAnswerLate THEN expected ELSE {d \in expected : d[1] # s}
    /\ UNCHANGED <<open, shared, mine, taken, coming, wire>> /\ UNCHANGED lifeVars

----------------------------------------------------------------------------
\* The devices.

\* An answer sets out; a listener's device speaks when it likes, and which one of the
\* port's it is makes no difference to read().
AnyDevice == <<CHOOSE s \in Sections : TRUE, Hello>>
Speaks(s, c) ==
    /\ plugged /\ coming = <<>>
    /\ IF style = "command" THEN <<s, c>> \in expected ELSE <<s, c>> = AnyDevice
    /\ expected' = expected \ {<<s, c>>} /\ coming' = FrameOf(s, c)
    /\ UNCHANGED <<wire, mishaps>> /\ UNCHANGED lifeVars /\ UNCHANGED sectionVars

\* Its tokens arrive one by one; one may be lost on the way. If the asker has not yet
\* emptied the buffer, they come too early, which is rare. What comes for a listener
\* while nobody reads is thrown away by the next reset, here at once.
Heard == open # {} /\ (style = "listen" => \E s \in Sections : work[s] = "reading")
Hasty == style = "command" /\ \E s \in Sections : work[s] = "sent"
TokenArrives ==
    /\ coming # <<>> /\ Len(wire) < MaxFrame
    /\ coming' = Tail(coming)
    /\ wire' = IF Heard THEN Append(wire, Head(coming)) ELSE <<>>
    /\ IF Hasty THEN MayFault /\ mishaps' = mishaps + 1 ELSE UNCHANGED mishaps
    /\ UNCHANGED <<expected>> /\ UNCHANGED lifeVars /\ UNCHANGED sectionVars
TokenLost ==
    /\ coming # <<>> /\ MayFault
    /\ coming' = Tail(coming) /\ mishaps' = mishaps + 1
    /\ UNCHANGED <<expected, wire>> /\ UNCHANGED lifeVars /\ UNCHANGED sectionVars

\* What is asked on the wire.
Requests == {<<s, c>> : s \in Sections, c \in {Hello} \cup ToSet(Polls)}

SerialNext ==
    \/ PlugIn \/ Unplug \/ BuildSections \/ StopSections \/ SectionsGone
    \/ \E s \in Sections : CleanUp(s) \/ Poll(s) \/ Ask(s) \/ ResetBuffer(s) \/ ReadToken(s) \/ ReadTimesOut(s)
    \/ \E q \in Requests : Speaks(q[1], q[2])
    \/ TokenArrives \/ TokenLost

\* The thread that reads a section goes on; sections poll at intervals, so the port lock is
\* free again and again and each gets it in the end; devices speak.
ReaderGoesOn(s) == Poll(s) \/ ResetBuffer(s) \/ ReadToken(s) \/ (NothingComes(s) /\ ReadTimesOut(s))
SerialFairness ==
    /\ \A s \in Sections :
        /\ WF_serialVars(ReaderGoesOn(s)) /\ SF_serialVars(Ask(s))
        /\ SF_serialVars(\E c \in {Hello} \cup ToSet(Polls) : Speaks(s, c))
    /\ WF_serialVars(TokenArrives)
SerialSpec == SerialInit /\ [][SerialNext]_serialVars /\ SerialFairness
----------------------------------------------------------------------------
SerialTypeOK ==
    /\ gateway \in {"down", "up", "stopping"} /\ plugged \in BOOLEAN
    /\ open \subseteq Clients /\ shared \in 0 .. MaxClients /\ mine \in [Sections -> 0 .. MaxClients]
    /\ linked \in [Sections -> BOOLEAN] /\ versed \in [Sections -> BOOLEAN] /\ failed \in [Sections -> BOOLEAN]
    /\ work \in [Sections -> {"idle", "sent", "reading"}] /\ holder \in Sections \cup {Nobody}
    /\ expected \subseteq Requests /\ Len(coming) <= 3 /\ Len(wire) <= MaxFrame /\ {mishaps, unplugs} \subseteq 0 .. MaxFaults

\* What a section takes for the answer to a command is its own device's answer to that
\* command, whatever was lost, cut short, failed or closed meanwhile; what a listener takes
\* is one frame as it was sent, as long as nothing is lost. decode_frame() looks at neither
\* the address nor the command of a frame, so this rests on the port lock, the reset and
\* devices that do not answer late.
AnswersAreOwn ==
    \A s \in Sections : \A t \in taken[s] :
        IF style = "command" THEN t[2] = <<Body(s, t[1])>> ELSE mishaps = 0 => Len(t[2]) = 1

\* The port is held by one client at a time, and a section's is that of the registry
\* as long as it works: cleanup() of an old section takes nothing from its successor.
OneClient == Cardinality(open) <= 1 /\ \A s \in Sections : Works(mine[s]) => mine[s] = shared

\* The two sentences about the wire.
PortIsShared == AnswersAreOwn /\ OneClient

\* A section whose port is there, plugged in before or since it was built, gets answers
\* again and again, unless the port is unplugged under it.
LinesComeUp ==
    \A s \in Sections :
        <>[](gateway = "up" /\ plugged /\ ~cut)
            => []<>(linked[s] /\ ~failed[s] /\ ToSet(PollList) \subseteq {t[1] : t \in taken[s]})

\* The wider claim, that a device unplugged and plugged in again is found: connect() keeps
\* the dead client.
LinesComeBack ==
    \A s \in Sections : <>[](gateway = "up" /\ plugged) => []<>(linked[s] /\ ~failed[s] /\ taken[s] # {})
=============================================================================
