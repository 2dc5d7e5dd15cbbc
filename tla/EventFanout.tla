----------------------------- MODULE EventFanout -----------------------------
(***************************************************************************)
(* The fanout (internal/fanout): a server that gives every event to each   *)
(* registered client over a bounded buffer and a TCP connection, and the   *)
(* client inside the bot, which reconnects forever and passes events to    *)
(* the bot's pump through a bounded channel.  Both drop when full.         *)
(*                                                                         *)
(* The connections of the one bot are numbered.  A TCP connection delivers *)
(* in order; what the client has not read when it closes is gone.  The     *)
(* server notices only by a failing write.  An event is its number.        *)
(***************************************************************************)
EXTENDS Integers, Sequences

CONSTANTS
    MaxConns,   \* BOUND: connections of the bot
    OutCap,     \* clientBufSize of server.go, 1024 in the code
    WireCap,    \* what the sockets hold
    InCap       \* capacity of Client.events, 1024 in the code

Conns == 1..MaxConns

ASSUME FanoutAssumption == MaxConns \in Nat /\ {OutCap, WireCap, InCap} \subseteq Nat \ {0}

VARIABLES
    conns,    \* connections made so far; the last one is the client's
    up,       \* the client's connect is reading it
    server,   \* server[k]: "none", "dialed", "registered" or "gone"
    out,      \* out[k]: serverClient.ch
    wire,     \* wire[k]: sent and not yet read
    inbox,    \* Client.events
    got       \* history: events the bot's pump has taken

fanoutVars == <<conns, up, server, out, wire, inbox, got>>

FanoutTypeOK ==
    /\ conns \in 0..MaxConns
    /\ up \in BOOLEAN
    /\ server \in [Conns -> {"none", "dialed", "registered", "gone"}]
    /\ out \in [Conns -> Seq(Nat)] /\ \A k \in Conns : Len(out[k]) <= OutCap
    /\ wire \in [Conns -> Seq(Nat)]
    /\ inbox \in Seq(Nat) /\ Len(inbox) <= InCap
    /\ got \in Seq(Nat)

FanoutInit ==
    /\ conns = 0
    /\ up = FALSE
    /\ server = [k \in Conns |-> "none"]
    /\ out = [k \in Conns |-> << >>]
    /\ wire = [k \in Conns |-> << >>]
    /\ inbox = << >>
    /\ got = << >>

\* The client dials; the server has not accepted yet.
DialFanout ==
    /\ ~up
    /\ conns < MaxConns
    /\ conns' = conns + 1
    /\ up' = TRUE
    /\ server' = [server EXCEPT ![conns + 1] = "dialed"]
    /\ UNCHANGED <<out, wire, inbox, got>>

\* Listen accepts a connection and registers its client.
Register(k) ==
    /\ server[k] = "dialed"
    /\ server' = [server EXCEPT ![k] = "registered"]
    /\ UNCHANGED <<conns, up, out, wire, inbox, got>>

\* broadcast, under the server's mutex.
Broadcast(n) ==
    /\ out' = [k \in Conns |->
                 IF server[k] = "registered" /\ Len(out[k]) < OutCap
                 THEN Append(out[k], n) ELSE out[k]]
    /\ UNCHANGED <<conns, up, server, wire, inbox, got>>

\* Fault: a write that has succeeded may be repeated.
ServeRepeats(k) ==
    /\ server[k] = "registered"
    /\ out[k] # << >>
    /\ up /\ k = conns
    /\ Len(wire[k]) < WireCap
    /\ wire' = [wire EXCEPT ![k] = Append(@, Head(out[k]))]
    /\ out' \in {out, [out EXCEPT ![k] = Tail(@)]}
    /\ UNCHANGED <<conns, up, server, inbox, got>>

\* serve writes the next event.  To a client that has closed its end a write
\* may still seem to succeed; then it fails and the server forgets the client.
Serve(k) ==
    /\ server[k] = "registered"
    /\ out[k] # << >>
    /\ out' = [out EXCEPT ![k] = Tail(@)]
    /\ IF up /\ k = conns
       THEN /\ Len(wire[k]) < WireCap
            /\ wire' = [wire EXCEPT ![k] = Append(@, Head(out[k]))]
            /\ UNCHANGED server
       ELSE /\ server' \in {server, [server EXCEPT ![k] = "gone"]}
            /\ UNCHANGED wire
    /\ UNCHANGED <<conns, up, inbox, got>>

\* The client's connect reads a line and offers it to the pump.
Scan ==
    /\ up
    /\ wire[conns] # << >>
    /\ wire' = [wire EXCEPT ![conns] = Tail(@)]
    /\ inbox' = IF Len(inbox) < InCap THEN Append(inbox, Head(wire[conns])) ELSE inbox
    /\ UNCHANGED <<conns, up, server, out, got>>

\* connect returns: the connection broke, or was closed by the server.
Hangup ==
    /\ up
    /\ up' = FALSE
    /\ wire' = [wire EXCEPT ![conns] = << >>]
    /\ UNCHANGED <<conns, server, out, inbox, got>>

\* pumpEvents takes an event.
Pump ==
    /\ inbox # << >>
    /\ inbox' = Tail(inbox)
    /\ got' = Append(got, Head(inbox))
    /\ UNCHANGED <<conns, up, server, out, wire>>

\* The server's process dies; what is on the wire may still be read.
FanoutCrash ==
    /\ server' = [k \in Conns |-> IF server[k] = "none" THEN "none" ELSE "gone"]
    /\ out' = [k \in Conns |-> << >>]
    /\ UNCHANGED <<conns, up, wire, inbox, got>>

Fanout ==
    \/ DialFanout \/ Scan \/ Hangup \/ Pump
    \/ \E k \in Conns : Register(k) \/ Serve(k)

\* Events on their way to the bot: what the client still has, then what the
\* server has for the connection the client reads.
OnTheWay == inbox \o (IF up THEN wire[conns] \o out[conns] ELSE << >>)
=============================================================================
