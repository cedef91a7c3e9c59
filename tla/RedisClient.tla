----------------------------- MODULE RedisClient -----------------------------
(***************************************************************************)
(* The pipelined RESP client of authz/replay-shared.ts: one connection at  *)
(* a time, opened on demand, replies matched to commands by their order.   *)
(* A command awaits #ready, sends in a later microtask, and races a timer  *)
(* that tears the connection down.                                         *)
(*                                                                         *)
(* A reply is named after the command it answers; what the server says and *)
(* how a reply is cut into bytes is left out (a chunk holds whole replies).*)
(* Handlers of sockets and timers are macrotasks: none of them runs while  *)
(* a command that has been told #ready is about to send.  Application code *)
(* (command and close) may.                                                *)
(***************************************************************************)
EXTENDS Integers, Sequences, FiniteSets

CONSTANTS
    Commands,   \* the command() calls
    Unsettled, Error, \* what a command has come to when it is not settled, or rejected
    MaxConns,   \* bound: connections opened
    MaxCloses   \* bound: close() calls

Conns == 1..MaxConns

ASSUME RedisAssumption ==
    /\ MaxConns \in Nat /\ MaxCloses \in Nat
    /\ Commands \cap Conns = {} /\ Unsettled # Error
    /\ {Unsettled, Error} \cap (Commands \cup Conns) = {}

VARIABLES
    auth,      \* options.password is set: connections start with AUTH
    socket,    \* #socket, 0 when undefined; `mine()` of g is socket = g
    ready,     \* the connection #ready belongs to, 0 when undefined
    opened,    \* connections so far
    link,      \* per connection: "unused", "connecting", "up", "dead"
    resolved,  \* connections whose #ready is resolved
    onWire,    \* per connection: what was written and not answered yet
    buf,       \* #buf, in replies
    pending,   \* #pending: commands, and g for the AUTH of connection g
    phase,     \* per command: "idle", "waiting", "resuming", "sent", "over"
    conn,      \* per command: the connection whose #ready it awaits
    got,       \* what command() settled with: Unsettled, Error, or a reply
    closes

clientVars == <<auth, socket, ready, opened, link, resolved, onWire, buf, pending, phase,
                conn, got, closes>>

ClientInit ==
    /\ auth \in BOOLEAN
    /\ socket = 0 /\ ready = 0 /\ opened = 0 /\ closes = 0
    /\ link = [g \in Conns |-> "unused"] /\ resolved = {}
    /\ onWire = [g \in Conns |-> <<>>] /\ buf = <<>> /\ pending = <<>>
    /\ phase = [c \in Commands |-> "idle"] /\ conn = [c \in Commands |-> 0]
    /\ got = [c \in Commands |-> Unsettled]

-----------------------------------------------------------------------------
Elements(s) == {s[i] : i \in 1..Len(s)}
Lesser(a, b) == IF a <= b THEN a ELSE b

(* No microtask is due. *)
Macrotask == \A c \in Commands : phase[c] # "resuming"

Waiters(gs) == {c \in Commands : phase[c] = "waiting" /\ conn[c] \in gs}

(* The promises of commands E are rejected; those of S by their timer only. *)
Reject(E, S) ==
    /\ phase' = [c \in Commands |-> IF c \in E THEN "over" ELSE phase[c]]
    /\ got' = [c \in Commands |->
                 IF c \in E \cup S /\ got[c] = Unsettled THEN Error ELSE got[c]]

(***************************************************************************)
(* #fail: destroy the current socket and reject everything pending.  A     *)
(* rejected AUTH rejects the #ready of its connection and so its waiters;  *)
(* gs are connections whose #ready the caller rejects, S the commands the  *)
(* timer of which calls.                                                   *)
(***************************************************************************)
Fail(gs, S) ==
    /\ Reject(Waiters(gs \cup Elements(pending)) \cup (Commands \cap Elements(pending)), S)
    /\ socket' = 0 /\ ready' = 0 /\ buf' = <<>> /\ pending' = <<>>
    /\ link' = [g \in Conns |-> IF g = socket THEN "dead" ELSE link[g]]
    /\ onWire' = [g \in Conns |-> IF g = socket THEN <<>> ELSE onWire[g]]

(* #send(x): push to #pending, then write to whatever #socket is now. *)
Send(x) ==
    /\ pending' = Append(pending, x)
    /\ onWire' = [g \in Conns |-> IF g = socket THEN Append(onWire[g], x) ELSE onWire[g]]

(* The waiters of gs are told that their connection is ready. *)
Told(gs) ==
    [c \in Commands |-> IF c \in Waiters(gs) THEN "resuming" ELSE phase[c]]

-----------------------------------------------------------------------------
(* command(): #connect(), which shares #ready or opens a connection. *)
Command(c) ==
    /\ phase[c] = "idle"
    /\ \/ /\ ready # 0
          /\ conn' = [conn EXCEPT ![c] = ready]
          /\ phase' = [phase EXCEPT ![c] = IF ready \in resolved THEN "resuming" ELSE "waiting"]
          /\ UNCHANGED <<socket, ready, opened, link>>
       \/ /\ ready = 0 /\ opened < MaxConns
          /\ opened' = opened + 1 /\ socket' = opened' /\ ready' = opened'
          /\ link' = [link EXCEPT ![opened'] = "connecting"]
          /\ conn' = [conn EXCEPT ![c] = opened']
          /\ phase' = [phase EXCEPT ![c] = "waiting"]
    /\ UNCHANGED <<auth, resolved, onWire, buf, pending, got, closes>>

(* `.then(() => this.#send(args))`; with no socket the write throws. *)
Resume(c) ==
    /\ phase[c] = "resuming"
    /\ Send(c)
    /\ \/ socket # 0 /\ phase' = [phase EXCEPT ![c] = "sent"] /\ UNCHANGED got
       \/ socket = 0 /\ Reject({c}, {})
    /\ UNCHANGED <<auth, socket, ready, opened, link, resolved, buf, conn, closes>>

(* The connect event: send AUTH, or be ready at once. *)
Connected(g) ==
    /\ Macrotask /\ link[g] = "connecting"
    /\ link' = [link EXCEPT ![g] = "up"]
    /\ \/ /\ ~auth
          /\ resolved' = resolved \cup {g} /\ phase' = Told({g})
          /\ UNCHANGED <<onWire, pending, got>>
       \/ /\ auth /\ Send(g)
          /\ \/ socket # 0 /\ UNCHANGED <<phase, got>>
             \/ socket = 0 /\ Reject(Waiters({g}), {})
          /\ UNCHANGED resolved
    /\ UNCHANGED <<auth, socket, ready, opened, buf, conn, closes>>

(* A connection that breaks off; onError rejects a #ready not resolved yet. *)
LinkDown(g) ==
    /\ Macrotask /\ link[g] \in {"connecting", "up"}
    /\ \/ /\ socket = g
          /\ Fail(IF link[g] = "connecting" THEN {g} ELSE {}, {})
       \/ /\ socket # g
          /\ link' = [link EXCEPT ![g] = "dead"] /\ onWire' = [onWire EXCEPT ![g] = <<>>]
          /\ Reject(IF link[g] = "connecting" THEN Waiters({g}) ELSE {}, {})
          /\ UNCHANGED <<socket, ready, buf, pending>>
    /\ UNCHANGED <<auth, opened, resolved, conn, closes>>

(***************************************************************************)
(* A chunk of n replies on the current connection: each settles the oldest *)
(* entry of #pending; one too many is unsolicited and fails the connection.*)
(***************************************************************************)
Replies(g, n) ==
    LET r == buf \o SubSeq(onWire[g], 1, n)
        k == Lesser(Len(r), Len(pending))
        settled == Elements(SubSeq(pending, 1, k))
        answer(c) == r[CHOOSE j \in 1..k : pending[j] = c]
    IN
    /\ Macrotask /\ link[g] = "up" /\ socket = g
    /\ resolved' = resolved \cup (settled \cap Conns)
    /\ got' = [c \in Commands |->
                 IF c \in settled /\ got[c] = Unsettled THEN answer(c) ELSE got[c]]
    /\ phase' = [c \in Commands |-> IF c \in settled THEN "over" ELSE Told(settled \cap Conns)[c]]
    /\ pending' = SubSeq(pending, k + 1, Len(pending))
    /\ buf' = <<>>
    /\ \/ /\ Len(r) <= Len(pending)
          /\ onWire' = [onWire EXCEPT ![g] = SubSeq(onWire[g], n + 1, Len(onWire[g]))]
          /\ UNCHANGED <<socket, ready, link>>
       \/ /\ Len(r) > Len(pending)
          /\ socket' = 0 /\ ready' = 0 /\ link' = [link EXCEPT ![g] = "dead"]
          /\ onWire' = [onWire EXCEPT ![g] = <<>>]
    /\ UNCHANGED <<auth, opened, conn, closes>>

(* On a connection that is no longer the current one the handler returns,  *)
(* after it has taken one reply off #buf and one entry off #pending.       *)
LateReplies(g, n) ==
    /\ Macrotask /\ link[g] = "up" /\ socket # g
    /\ buf' = Tail(buf \o SubSeq(onWire[g], 1, n))
    /\ onWire' = [onWire EXCEPT ![g] = SubSeq(onWire[g], n + 1, Len(onWire[g]))]
    /\ pending' = IF pending = <<>> THEN pending ELSE Tail(pending)
    /\ UNCHANGED <<auth, socket, ready, opened, link, resolved, phase, conn, got, closes>>

(* Mutant: a command that times out gives up its place in the queue. *)
TimeoutForgets(c) ==
    /\ Macrotask /\ phase[c] # "idle" /\ got[c] = Unsettled
    /\ Reject({c}, {c})
    /\ pending' = SelectSeq(pending, LAMBDA x : x # c)
    /\ UNCHANGED <<auth, socket, ready, opened, link, resolved, onWire, buf, conn, closes>>

(* Mutant: the timer runs only once the command is on its way. *)
TimeoutOnceSent(c) ==
    /\ Macrotask /\ phase[c] = "sent" /\ got[c] = Unsettled
    /\ Fail({}, {c})
    /\ UNCHANGED <<auth, opened, resolved, conn, closes>>

(* The timer of a command: #fail, and reject this command. *)
TimesOut(c) ==
    /\ Macrotask /\ phase[c] # "idle" /\ got[c] = Unsettled
    /\ Fail({}, {c})
    /\ UNCHANGED <<auth, opened, resolved, conn, closes>>

(* close(): end() the socket, which may still deliver, and forget it. *)
Close ==
    /\ closes < MaxCloses /\ socket # 0
    /\ closes' = closes + 1
    /\ socket' = 0 /\ ready' = 0
    /\ UNCHANGED <<auth, opened, link, resolved, onWire, buf, pending, phase, conn, got>>

ClientNext ==
    \/ \E c \in Commands : Command(c) \/ Resume(c) \/ TimesOut(c)
    \/ \E g \in Conns :
          \/ Connected(g) \/ LinkDown(g)
          \/ \E n \in 1..Len(onWire[g]) : Replies(g, n) \/ LateReplies(g, n)
    \/ Close

ClientSpec == ClientInit /\ [][ClientNext]_clientVars

(* Timers fire, and microtasks run. *)
ClientFairSpec ==
    ClientSpec /\ \A c \in Commands : WF_clientVars(Resume(c)) /\ WF_clientVars(TimesOut(c))

-----------------------------------------------------------------------------
(* Type correctness; a socket exists exactly while its #ready does. *)
ClientTypeOK ==
    /\ auth \in BOOLEAN
    /\ socket \in 0..opened /\ ready = socket /\ opened \in 0..MaxConns
    /\ link \in [Conns -> {"unused", "connecting", "up", "dead"}]
    /\ socket # 0 => link[socket] \in {"connecting", "up"}
    /\ resolved \subseteq Conns
    /\ onWire \in [Conns -> Seq(Commands \cup Conns)]
    /\ buf \in Seq(Commands \cup Conns) /\ pending \in Seq(Commands \cup Conns)
    /\ phase \in [Commands -> {"idle", "waiting", "resuming", "sent", "over"}]
    /\ conn \in [Commands -> 0..opened]
    /\ got \in [Commands -> {Unsettled, Error} \cup Commands \cup Conns]
    /\ closes \in 0..MaxCloses

(* The client and the server agree on what is outstanding: #pending lists  *)
(* what was written to the current connection and not answered, in order,  *)
(* and is empty without a connection, as long as close() is not called.    *)
InStep ==
    closes = 0 => /\ pending = IF socket = 0 THEN <<>> ELSE onWire[socket]
                  /\ buf = <<>>

(* No command is ever given the reply to another one ("replies matched in  *)
(* order"; "a late reply can never be paired with a later command"), over  *)
(* timeouts, broken connections and reconnections.                         *)
OwnReply == \A c \in Commands : got[c] \in {Unsettled, Error, c}

(* While close() is not called, OwnReply is what the client guarantees.    *)
OwnReplyUntilClosed == closes = 0 => OwnReply

(* Every command settles, by a reply, a failure or its timer, also when    *)
(* its connection hangs, is torn down by another command or is closed.     *)
CommandsSettle == \A c \in Commands : phase[c] # "idle" ~> got[c] # Unsettled
=============================================================================
