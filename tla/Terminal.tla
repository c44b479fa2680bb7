------------------------------ MODULE Terminal ------------------------------
(***************************************************************************)
(* What reaches the program from outside and in which order the event loop *)
(* takes it: key presses on the terminal, keys injected over the control   *)
(* socket, the wheel, and the clients of the socket.                       *)
(*                                                                         *)
(* One pass of the loop drains one injected byte and starts over; only     *)
(* when none is left does it select, read one byte of the terminal (or,    *)
(* with nothing ready, look at the wheel detector's timer), and serve the  *)
(* control socket.  Terminal and injected bytes share one parser.          *)
(*                                                                         *)
(* Time is a number of milliseconds: how long ago the detector's timer was *)
(* started, and how long a waiting client still waits.                     *)
(***************************************************************************)
EXTENDS InputParser, FiniteSets

CONSTANTS
    NULL,
    Keys,           \* keys of the keyboard: [bytes, act]
    MaxKeys,        \* bound: keys pressed in a behaviour
    Clients,        \* clients of the control socket, each used once
    Scripts,        \* the requests each client may send, one after the other
    Threshold       \* IK_SCROLL_BURST_THRESHOLD_MS

Key == [bytes : Seq(Nat), act : Actions]
BytesOf(keys) == FlattenSeq([i \in DOMAIN keys |-> keys[i].bytes])

\* The characters of the escapes in a send_keys request: \r, \n, \t, \\ and \xNN.
Backslash == 92
Plain == [c \in {114, 110, 116, Backslash} |->
            CASE c = 114 -> 13 [] c = 110 -> 10 [] c = 116 -> 9 [] OTHER -> Backslash]
Digit(c) == CASE c \in 48 .. 57 -> c - 48 [] c \in 65 .. 70 -> c - 55 [] c \in 97 .. 102 -> c - 87
              [] OTHER -> -1
Blank == 9 .. 13 \cup {32}
\* strtol takes two digits, or one after a blank or a sign; -1 when it takes less.
Hex(a, b) ==
    CASE Digit(b) = -1 -> -1
      [] Digit(b) >= 0 /\ Digit(a) >= 0 -> 16 * Digit(a) + Digit(b)
      [] Digit(b) >= 0 /\ a \in Blank \cup {43} -> Digit(b)
      [] Digit(b) >= 0 /\ a = 45 -> (256 - Digit(b)) % 256
      [] OTHER -> -1
\* The byte that the text spells at i, and the characters it takes to do so.
Spelled(text, i) ==
    LET plain == [byte |-> text[i], len |-> 1]
        next == text[i + 1]
        hex == IF i + 3 > Len(text) THEN -1 ELSE Hex(text[i + 2], text[i + 3]) IN
    CASE text[i] # Backslash \/ i = Len(text) -> plain
      [] text[i] = Backslash /\ i < Len(text) /\ next \in DOMAIN Plain -> [byte |-> Plain[next], len |-> 2]
      [] text[i] = Backslash /\ i < Len(text) /\ next = 120 /\ hex >= 0 -> [byte |-> hex, len |-> 4]
      [] OTHER -> plain
Unescape(text) ==
    LET from[i \in 1 .. Len(text) + 1] ==
            IF i > Len(text) THEN <<>>
            ELSE <<Spelled(text, i).byte>> \o from[i + Spelled(text, i).len]
    IN  from[1]

\* A request; the text of one that sends keys spells their bytes.
Request == {r \in [type : {"keys", "wait", "other"}, text : Seq(Nat), keys : Seq(Key), timeout : Int] :
              Unescape(r.text) = BytesOf(r.keys)}

ASSUME ThresholdAssumption == Threshold \in Nat /\ MaxKeys \in Nat
ASSUME InputAssumption ==
    /\ Keys \subseteq Key /\ Scripts \subseteq [Clients -> Seq(Request)]
    /\ NULL \notin Clients \cup {"tty", "inject"}

VARIABLES
    tty, typed,     \* bytes not yet read, and the keys pressed so far
    inject, sent,   \* injected bytes not yet read, and the keys accepted so far
    parser, from,   \* the parser, and the source of its unfinished sequence
    mixed,          \* some sequence was made of bytes of both sources
    heard,          \* the actions of each source
    det,            \* the wheel detector
    did,            \* how often an arrow of each direction took effect, and how
    client, pending, left,      \* client_fd, wait_idle_pending, time to its deadline
    conn, script, data, reply,  \* the clients: connection, requests to come, unread, answer
    busy,           \* the current agent is not idle
    traffic,        \* a transfer of some agent has a descriptor ready
    stuck           \* the loop sits in a read of a client that has sent nothing

input == <<tty, typed, inject, sent, parser, from, mixed, heard, det, did>>
peers == <<conn, script, data, reply>>
vars == <<tty, typed, inject, sent, parser, from, mixed, heard, det, did,
          client, pending, left, conn, script, data, reply, busy, traffic, stuck>>

Directions == {"ARROW_UP", "ARROW_DOWN"}
Never == [dir \in Directions |-> 0]
Once(times, dir) == [times EXCEPT ![dir] = @ + 1]

Init ==
    /\ tty = <<>> /\ typed = <<>> /\ inject = <<>> /\ sent = <<>>
    /\ parser = Ground /\ from = NULL /\ mixed = FALSE
    /\ heard = [s \in {"tty", "inject"} |-> <<>>]
    /\ det = [state |-> "idle", dir |-> NULL, age |-> 0]
    /\ did = [arrow |-> Never, wheel |-> Never, absorbed |-> Never, turned |-> Never]
    /\ client = NULL /\ pending = FALSE /\ left = 0
    /\ conn = [c \in Clients |-> "new"] /\ script \in Scripts
    /\ data = [c \in Clients |-> <<>>] /\ reply = [c \in Clients |-> <<>>]
    /\ busy = FALSE /\ traffic = FALSE /\ stuck = FALSE

-----------------------------------------------------------------------------
(* The wheel detector.  The arrows of one notch come in a burst; the first *)
(* arrow is held back until the timer says that no burst follows.          *)

ProcessArrow(d, dir) ==
    CASE d.state = "idle" -> [d |-> [state |-> "waiting", dir |-> dir, age |-> 0], result |-> "NONE"]
      [] d.state = "waiting" /\ d.age <= Threshold ->
            [d |-> [d EXCEPT !.state = "absorbing", !.age = 0], result |-> "SCROLL"]
      [] d.state = "waiting" /\ d.age > Threshold ->
            [d |-> [d EXCEPT !.dir = dir, !.age = 0], result |-> "ARROW"]
      [] d.state = "absorbing" /\ d.age <= Threshold ->
            [d |-> [d EXCEPT !.age = 0], result |-> "ABSORBED"]
      [] d.state = "absorbing" /\ d.age > Threshold ->
            [d |-> [state |-> "waiting", dir |-> dir, age |-> 0], result |-> "NONE"]

\* As if a timeout left the arrow in place.
MutCheckTimeoutKeeps(d) ==
    IF d.state = "idle" \/ d.age <= Threshold THEN [d |-> d, result |-> "NONE"]
    ELSE [d |-> [d EXCEPT !.age = 0], result |-> IF d.state = "waiting" THEN "ARROW" ELSE "NONE"]
\* As if a timeout only ended a burst.
MutCheckTimeoutBurst(d) ==
    [d |-> IF d.state = "absorbing" THEN [d EXCEPT !.state = "idle"] ELSE d, result |-> "NONE"]
CheckTimeout(d) ==
    IF d.state = "idle" \/ d.age <= Threshold THEN [d |-> d, result |-> "NONE"]
    ELSE [d |-> [d EXCEPT !.state = "idle"], result |-> IF d.state = "waiting" THEN "ARROW" ELSE "NONE"]

Flush(d) ==
    [d |-> [d EXCEPT !.state = "idle"], result |-> IF d.state = "waiting" THEN "ARROW" ELSE "NONE"]

\* A wheel result scrolls the way of the arrow held, and the arrow that gave it is
\* then handled as an arrow: the scroll's result does not say that it was handled.
\* The answer "ARROW" is about the arrow held, and the one at hand is performed: a
\* held arrow of the other direction is turned round.
ScrollDetection(dir) ==
    LET r == ProcessArrow(det, dir) IN
    /\ det' = r.d
    /\ did' = CASE r.result = "SCROLL" ->
                      [did EXCEPT !.wheel = Once(@, det.dir), !.arrow = Once(@, dir)]
                [] r.result = "ARROW" ->
                      [did EXCEPT !.arrow = Once(@, dir), !.turned = IF det.dir = dir THEN @ ELSE Once(@, det.dir)]
                [] r.result = "NONE" -> did
                [] r.result = "ABSORBED" -> [did EXCEPT !.absorbed = Once(@, dir)]

\* A timer that ran out and another key perform the arrow held.
Expire(r) ==
    /\ det' = r.d
    /\ did' = IF r.result = "ARROW" THEN [did EXCEPT !.arrow = Once(@, det.dir)] ELSE did

\* The rest of an action's work is Editor's; here it only ends a held-back arrow.
ProcessAction(action) ==
    CASE action.type \in {"ARROW_UP", "ARROW_DOWN"} -> ScrollDetection(action.type)
      [] action.type = "UNKNOWN" -> UNCHANGED <<det, did>>
      [] OTHER -> Expire(Flush(det))

Feed(byte, source) == \E r \in {ParseByte(parser, byte)} :
    /\ parser' = r.parser
    /\ from' = IF r.parser.inEscape \/ r.parser.inUtf8 THEN source ELSE NULL
    /\ mixed' = (mixed \/ ((parser.inEscape \/ parser.inUtf8) /\ from # source))
    /\ heard' = IF r.action.type = "UNKNOWN" THEN heard ELSE [heard EXCEPT ![source] = Append(@, r.action)]
    /\ ProcessAction(r.action)

-----------------------------------------------------------------------------
(* The control socket, as operators on a record of what it changes. *)

Socket == [client |-> client, pending |-> pending, left |-> left, conn |-> conn, data |-> data,
           reply |-> reply, inject |-> inject, sent |-> sent, stuck |-> FALSE]

Close(s) == [s EXCEPT !.client = NULL, !.conn = IF s.client = NULL THEN @ ELSE [@ EXCEPT ![s.client] = "closed"]]
Gone(s, c) == s.conn[c] = "gone"

\* A client that has hung up is dropped, and what it waited for with it.
ClientSend(s, msg) ==
    IF s.client = NULL THEN s
    ELSE IF Gone(s, s.client) THEN [s EXCEPT !.client = NULL, !.pending = FALSE, !.left = 0]
    ELSE [s EXCEPT !.reply[s.client] = Append(@, msg)]

\* As if only an idle agent released the client.
MutTickIdleOnly(s) ==
    IF ~s.pending \/ busy THEN s
    ELSE [Close(ClientSend(s, "idle")) EXCEPT !.pending = FALSE, !.left = 0]
Tick(s) ==
    IF ~s.pending \/ (busy /\ s.left > 0) THEN s
    ELSE [Close(ClientSend(s, IF busy THEN "timeout" ELSE "idle")) EXCEPT !.pending = FALSE, !.left = 0]

Queue == {c \in Clients : conn[c] \in {"queued", "left"}}
\* The new connection takes the place of the old one; its client may have left.
Accept(s, c) == [Close(s) EXCEPT !.client = c, !.conn[c] = IF @ = "left" THEN "gone" ELSE "open"]

\* As if the keys went in before the answer went out.
MutSendKeysFirst(s, req) ==
    LET answered == ClientSend(s, "ok") IN
    Close([answered EXCEPT !.inject = @ \o Unescape(req.text), !.sent = @ \o req.keys])
\* The keys go in once their sender has been told so.
SendKeys(s, req) ==
    LET answered == ClientSend(s, "ok") IN
    IF answered.client = NULL THEN answered
    ELSE Close([answered EXCEPT !.inject = @ \o Unescape(req.text), !.sent = @ \o req.keys])

WaitIdle(s, req) ==
    CASE s.pending \/ req.timeout <= 0 -> Close(ClientSend(s, "error"))
      [] ~s.pending /\ req.timeout > 0 /\ ~busy -> Close(ClientSend(s, "idle"))
      [] OTHER -> [s EXCEPT !.pending = TRUE, !.left = req.timeout]

\* One read takes all that has arrived and answers its first line.  "other" is
\* what is answered at once: the frame, the token cache, and the errors.
HandleClient(s) ==
    LET c == s.client
        req == Head(s.data[c])
        read == [s EXCEPT !.data[c] = <<>>] IN
    IF s.data[c] = <<>> /\ ~Gone(s, c) THEN [s EXCEPT !.stuck = TRUE]
    ELSE IF s.data[c] = <<>> THEN [Close(s) EXCEPT !.pending = FALSE, !.left = 0]
    ELSE CASE req.type = "keys" -> SendKeys(read, req)
           [] req.type = "wait" -> WaitIdle(read, req)
           [] req.type = "other" -> Close(ClientSend(read, "other"))

ListenReady == Queue # {} /\ ~pending
Readable(c) == data[c] # <<>> \/ conn[c] = "gone"
ClientReady == client # NULL /\ Readable(client)

\* The sets that select filled are looked at after the tick and the accept.  A new
\* connection usually gets the descriptor of the one it replaced, and its bit.
Apply(s) ==
    /\ client' = s.client /\ pending' = s.pending /\ left' = s.left
    /\ conn' = s.conn /\ data' = s.data /\ reply' = s.reply
    /\ inject' = s.inject /\ sent' = s.sent /\ stuck' = s.stuck
ControlSocketEvents ==
    \E c \in (IF ListenReady THEN Queue ELSE {NULL}), sameFd \in BOOLEAN :
        LET ticked == Tick(Socket)
            accepted == IF c = NULL THEN ticked ELSE Accept(ticked, c)
            ready == ClientReady /\ accepted.client # NULL /\ (c = NULL \/ sameFd) IN
        \E s \in {IF ready THEN HandleClient(accepted) ELSE accepted} : Apply(s)

-----------------------------------------------------------------------------
(* The event loop. *)

KeyInjection ==
    /\ ~stuck /\ inject # <<>>
    /\ Feed(Head(inject), "inject") /\ inject' = Tail(inject)
    /\ UNCHANGED <<tty, typed, sent, client, pending, left, conn, script, data, reply, busy, traffic, stuck>>

\* The timer of the detector is looked at only when select came back with nothing.
LoopPass ==
    /\ ~stuck /\ inject = <<>>
    /\ IF tty # <<>> THEN Feed(Head(tty), "tty") /\ tty' = Tail(tty)
       ELSE /\ IF ~traffic /\ ~ListenReady /\ ~ClientReady THEN Expire(CheckTimeout(det))
               ELSE UNCHANGED <<det, did>>
            /\ UNCHANGED <<tty, parser, from, mixed, heard>>
    /\ ControlSocketEvents
    /\ UNCHANGED <<typed, script, busy, traffic>>

\* A blocked read goes on when the client sends or hangs up.
Unblock ==
    /\ stuck /\ Readable(client)
    /\ \E s \in {HandleClient(Socket)} : Apply(s)
    /\ UNCHANGED <<tty, typed, parser, from, mixed, heard, det, did, script, busy, traffic>>

-----------------------------------------------------------------------------
(* The outside. *)

Press == \E k \in Keys :
    /\ Len(typed) < MaxKeys
    /\ tty' = tty \o k.bytes /\ typed' = Append(typed, k)
    /\ UNCHANGED <<inject, sent, parser, from, mixed, heard, det, did,
                   client, pending, left, peers, busy, traffic, stuck>>

Millisecond ==
    /\ (det.state # "idle" /\ det.age <= Threshold) \/ left > 0
    /\ det' = [det EXCEPT !.age = IF det.state = "idle" THEN 0 ELSE IF @ > Threshold THEN @ ELSE @ + 1]
    /\ left' = IF left > 0 THEN left - 1 ELSE 0
    /\ UNCHANGED <<tty, typed, inject, sent, parser, from, mixed, heard, did,
                   client, pending, peers, busy, traffic, stuck>>

Ask(c) ==
    /\ conn[c] \in {"new", "queued", "open"} /\ script[c] # <<>>
    /\ conn' = [conn EXCEPT ![c] = IF @ = "new" THEN "queued" ELSE @]
    /\ data' = [data EXCEPT ![c] = Append(@, Head(script[c]))]
    /\ script' = [script EXCEPT ![c] = Tail(@)]
    /\ UNCHANGED <<input, client, pending, left, reply, busy, traffic, stuck>>
Connect(c) ==
    /\ conn[c] = "new"
    /\ conn' = [conn EXCEPT ![c] = "queued"]
    /\ UNCHANGED <<input, client, pending, left, script, data, reply, busy, traffic, stuck>>
\* A client that leaves before it was accepted is accepted all the same.
HangUp(c) ==
    /\ conn[c] \in {"queued", "open"}
    /\ conn' = [conn EXCEPT ![c] = IF @ = "queued" THEN "left" ELSE "gone"]
    /\ UNCHANGED <<input, client, pending, left, script, data, reply, busy, traffic, stuck>>

AgentTurn ==
    /\ busy' = ~busy
    /\ UNCHANGED <<input, client, pending, left, peers, traffic, stuck>>
\* Bytes for a transfer arrive, of any agent's, or none are left to read.
Network ==
    /\ traffic' = ~traffic
    /\ UNCHANGED <<input, client, pending, left, peers, busy, stuck>>

Next ==
    \/ KeyInjection \/ LoopPass \/ Unblock
    \/ Press \/ Millisecond \/ AgentTurn \/ Network
    \/ \E c \in Clients : Ask(c) \/ Connect(c) \/ HangUp(c)

\* The loop runs and time passes; nobody else is obliged to act.
Spec == Init /\ [][Next]_vars /\ WF_vars(KeyInjection \/ LoopPass) /\ WF_vars(Millisecond)

-----------------------------------------------------------------------------
(* Properties. *)

Meanings(ks) == [i \in DOMAIN ks |-> ks[i].act]
Settled == parser = Ground

\* Each key pressed or injected gives its one action, in the order pressed,
\* and leaves the parser as it found it, as long as no sequence of one source
\* was cut by a byte of the other.
KeysHeardWhole ==
    ~mixed =>
        /\ IsPrefix(heard["tty"], Meanings(typed)) /\ IsPrefix(heard["inject"], Meanings(sent))
        /\ tty = <<>> /\ inject = <<>> => 
            Settled /\ heard["tty"] = Meanings(typed) /\ heard["inject"] = Meanings(sent)

Heard(source, dir) == Cardinality({i \in DOMAIN heard[source] : heard[source][i].type = dir})
Against(dir) == CHOOSE other \in Directions : other # dir

\* No arrow is lost or done twice, however the burst timer, the timeout and
\* other keys fall: each one moved its way, turned the wheel its way, was absorbed
\* by the wheel, or is still held back.  The one exception is an arrow held too
\* long that a late arrow of the other direction overtakes: it moves that way too.
EveryArrowOnce ==
    \A dir \in Directions :
        Heard("tty", dir) + Heard("inject", dir) + did.turned[Against(dir)] =
            did.arrow[dir] + did.wheel[dir] + did.absorbed[dir] + did.turned[dir]
              + (IF det.state = "waiting" /\ det.dir = dir THEN 1 ELSE 0)

\* A client's keys go in exactly when the client has been told that they did.
KeysAsPromised ==
    Len(sent) = Cardinality({c \in Clients : "ok" \in Range(reply[c])})

\* Once the agents' transfers are quiet a held-back arrow takes effect, whatever the
\* keyboard and finitely many clients do, unless a client's silence blocks the loop.
\* Without that premise it is held for as long as select finds a descriptor ready:
\* the timer is looked at only when there is none (repl.c 146).
ArrowNotHeldForever ==
    <>[]~traffic => (det.state = "waiting" ~> (det.state # "waiting" \/ stuck))

\* While a client waits for the agent nobody else is accepted; it is let go in
\* the end, by the agent or its deadline, whatever else it asks or if it leaves.
WaiterLetGo == pending ~> (~pending \/ stuck)
=============================================================================
