------------------------------ MODULE Tunnels -------------------------------
(***************************************************************************)
(* Tunnels (iias): the connections of PPTPServer, and the sequence numbers *)
(* of GREEncap and CheckGREHeader.                                         *)
(*                                                                         *)
(* A control connection and a call are connections that are known by their *)
(* descriptor, 0 is no descriptor.  A raw socket is connected to an        *)
(* address and not to a call, so that all calls of one peer receive what   *)
(* any of them sends.  A control connection that ends without a request to *)
(* stop is never noticed: read() returns 0, which handle_pptp() takes for  *)
(* a message that is not complete.  Messages are whole.  What the code     *)
(* does to a packet it has freed, and send_ack() to an element that is     *)
(* none, when a write fails is undefined (halted).                         *)
(***************************************************************************)
EXTENDS Integers, Sequences, FiniteSets, FiniteMaps

CONSTANTS Peer,         \* hosts that connect
          Fds,          \* descriptors
          Inputs,       \* the number of inputs
          MaxFrames,    \* GRE packets that peers send
          NumberMod,       \* sequence numbers of GREEncap wrap here
          MaxGRE        \* packets of a GRE tunnel

ASSUME TunnelAssumption == Fds \subseteq Nat \ {0} /\ Inputs \in Nat /\ NumberMod \in Nat /\ NumberMod > 3

VARIABLES pptp,         \* _connections, _inputs, halted
          sock,         \* GRE packets that raw sockets hold
          peers,        \* told: the call numbers a peer has been told; sent, air: its GRE packets
          gre           \* GRE: sent, last (of GREEncap), wire, _seq, accepted (both by number), reads

tunVars == <<pptp, sock, peers, gre>>

-----------------------------------------------------------------------------
\* initialize()
PPTPInit ==
    /\ pptp = [connections |-> <<>>, inputs |-> [i \in 1 .. Inputs |-> 0], halted |-> FALSE]
    /\ sock = [f \in Fds |-> <<>>]
    /\ peers = [told |-> [p \in Peer |-> {}], sent |-> 0, air |-> {}]

ControlConnection(peer) == [peer |-> peer, pptp |-> 0, gre |-> 0, input |-> 0, seq_recv |-> 0, ack_sent |-> 0,
                  timer |-> FALSE]
IS_GRE(c) == c.pptp # 0
FreeFds(s) == Fds \ DOMAIN s.connections
Lowest(S) == CHOOSE n \in S : \A m \in S : n <= m

\* cleanup_connection() of a call and of a control connection
cleanup_gre(s, g) ==
    [s EXCEPT !.connections = Drop(@, {g}), !.inputs[s.connections[g].input] = 0]
cleanup_connection(s, f) ==
    LET g == s.connections[f].gre
        t == IF g = 0 THEN s ELSE cleanup_gre(s, g)
    IN  [t EXCEPT !.connections = Drop(@, {f})]

\* initialize_gre(): no input or no descriptor is left, bind() or connect() fails,
\* or a call is made
FreeInputs(s) == {i \in 1 .. Inputs : s.inputs[i] = 0}
initialize_gre(s, f, fails) ==
    IF FreeInputs(s) = {} \/ FreeFds(s) = {} \/ fails THEN [s EXCEPT !.connections[f].gre = 0]
    ELSE LET g == Lowest(FreeFds(s))
             i == Lowest(FreeInputs(s))
             call == [ControlConnection(s.connections[f].peer) EXCEPT !.pptp = f, !.input = i]
         IN  [s EXCEPT !.connections = Put([@ EXCEPT ![f].gre = g], g, call), !.inputs[i] = g]

\* Mutant of call_clr_rqst(): the pointer to the call stays.
call_clr_rqst_keeps(s, f) == IF s.connections[f].gre = 0 THEN s ELSE cleanup_gre(s, s.connections[f].gre)
\* handle_pptp(): CALL_CLR_RQST
call_clr_rqst(s, f) ==
    LET g == s.connections[f].gre
    IN  IF g = 0 THEN s ELSE [cleanup_gre(s, g) EXCEPT !.connections[f].gre = 0]

\* handle_pptp(): what a message does, whether it is answered, and whether the
\* connection ends with it
Handled(s, f, type, fails) ==
    CASE type = "OUT_CALL_RQST" ->
            LET t == initialize_gre(call_clr_rqst(s, f), f, fails)
            IN  [s |-> t, ends |-> t.connections[f].gre = 0]
      [] type = "CALL_CLR_RQST" -> [s |-> call_clr_rqst(s, f), ends |-> FALSE]
      [] type \in {"STOP_CTRL_CONN_RQST", "other"} -> [s |-> s, ends |-> TRUE]
      [] OTHER -> [s |-> s, ends |-> FALSE]

\* selected(): a peer connects
initialize_pptp(p) ==
    /\ ~pptp.halted /\ FreeFds(pptp) # {}
    /\ pptp' = [pptp EXCEPT !.connections = Put(@, Lowest(FreeFds(pptp)), ControlConnection(p))]
    /\ UNCHANGED <<sock, peers, gre>>

\* sockets that were closed hold nothing, also those whose descriptor is used again
Held(s, closed) == [f \in Fds |-> IF f \in DOMAIN s.connections \ closed THEN sock[f] ELSE <<>>]

\* selected(), handle_pptp(): `fails' when a system call does
handle_pptp(f, type, fails) ==
    LET h == Handled(pptp, f, type, fails)
        s == IF h.ends \/ fails THEN cleanup_connection(h.s, f) ELSE h.s
        p == pptp.connections[f].peer
    IN  /\ ~pptp.halted /\ ~IS_GRE(pptp.connections[f])
        /\ pptp' = s
        /\ sock' = Held(s, IF type = "OUT_CALL_RQST" THEN {pptp.connections[f].gre} ELSE {})
        /\ peers' = IF type = "OUT_CALL_RQST" /\ ~h.ends /\ ~fails
                    THEN [peers EXCEPT !.told[p] = @ \cup {f}] ELSE peers
        /\ UNCHANGED gre

\* a peer sends to a call it knows of, now or later; short ones hold no PPP frame
PeerSends(p, call, short) ==
    /\ peers.sent < MaxFrames /\ call \in peers.told[p]
    /\ peers' = [peers EXCEPT !.sent = @ + 1,
                   !.air = @ \cup {[peer |-> p, call |-> call, seq |-> peers.sent, short |-> short]}]
    /\ UNCHANGED <<pptp, sock, gre>>
Arrives(m) ==
    /\ m \in peers.air
    /\ peers' = [peers EXCEPT !.air = @ \ {m}]
    /\ sock' = [f \in Fds |-> IF /\ f \in DOMAIN pptp.connections
                                 /\ IS_GRE(pptp.connections[f]) /\ pptp.connections[f].peer = m.peer
                              THEN Append(sock[f], m) ELSE sock[f]]
    /\ UNCHANGED <<pptp, gre>>

\* send_gre()
send_gre(s, f) == [s EXCEPT !.connections[f].ack_sent = s.connections[f].seq_recv]

\* selected(), handle_gre(): one packet; `reply' when the element behind the
\* output pushes an answer before push() returns
handle_gre(f, reply) ==
    LET c == pptp.connections[f]
        m == Head(sock[f])
        s == IF m.call # c.pptp THEN cleanup_connection(pptp, c.pptp)
             ELSE LET t == [pptp EXCEPT !.connections[f].seq_recv = m.seq]
                  IN  IF m.short THEN t
                      ELSE [(IF reply THEN send_gre(t, f) ELSE t) EXCEPT !.connections[f].timer = TRUE]
    IN  /\ ~pptp.halted /\ sock[f] # <<>>
        /\ pptp' = s
        /\ sock' = [Held(s, {}) EXCEPT ![f] = IF f \in DOMAIN s.connections THEN Tail(sock[f]) ELSE <<>>]
        /\ UNCHANGED <<peers, gre>>

\* push(); a packet that could not be written is freed twice
PPTP_push(i, fails) ==
    /\ ~pptp.halted /\ pptp.inputs[i] # 0
    /\ pptp' = IF fails THEN [pptp EXCEPT !.halted = TRUE] ELSE send_gre(pptp, pptp.inputs[i])
    /\ UNCHANGED <<sock, peers, gre>>
\* the timer of a call; _ps is no PPTPServer, which shows when a write fails
send_ack(f, fails) ==
    LET c == pptp.connections[f]
        t == [pptp EXCEPT !.connections[f].timer = FALSE]
    IN  /\ ~pptp.halted /\ c.timer
        /\ pptp' = IF c.ack_sent = c.seq_recv THEN t
                   ELSE IF fails THEN [t EXCEPT !.halted = TRUE] ELSE send_gre(t, f)
        /\ UNCHANGED <<sock, peers, gre>>
\* cleanup(): descriptors in order; a call whose descriptor is lower than that of
\* its control connection is deleted first, and again through its pointer
PPTP_cleanup ==
    LET C == pptp.connections
        twice == \E f \in DOMAIN C : IS_GRE(C[f]) /\ f < C[f].pptp
    IN  /\ ~pptp.halted /\ DOMAIN C # {}
        /\ pptp' = [pptp EXCEPT !.connections = IF twice THEN @ ELSE <<>>,
                                !.inputs = IF twice THEN @ ELSE [i \in 1 .. Inputs |-> 0], !.halted = TRUE]
        /\ sock' = [f \in Fds |-> <<>>] /\ UNCHANGED <<peers, gre>>

-----------------------------------------------------------------------------
\* GREEncap::configure(), CheckGREHeader::configure() with SEQUENCE.  simple_action()
\* writes `*options++ = htonl(ntohl(*options) + 1)': a build may read the word
\* that is written, or the one after it.
GREInit ==
    gre \in [sent : {0}, last : {0}, wire : {{}}, seq : {0}, accepted : {<<>>}, reads : {"same", "next"}]

\* GREEncap::simple_action(); the network is late with a packet by less than half
\* of the numbers
GREEncap_simple_action ==
    LET n == ((IF gre.reads = "same" THEN gre.last ELSE 0) + 1) % NumberMod
    IN  /\ gre.sent < MaxGRE
        /\ gre' = [gre EXCEPT !.sent = @ + 1, !.last = n,
                              !.wire = {m \in @ : gre.sent + 1 - m.number < NumberMod \div 2}
                                       \cup {[number |-> gre.sent + 1, seq |-> n]}]
        /\ UNCHANGED <<pptp, sock, peers>>

\* CheckGREHeader::simple_action(): seq - _seq as a signed number
Ahead(seq) == (seq - gre.seq) % NumberMod \in 1 .. NumberMod \div 2 - 1
\* a packet arrives, of which the network may keep a second copy
CheckGREHeader_simple_action(m, again) ==
    /\ m \in gre.wire
    /\ gre' = [gre EXCEPT !.wire = IF again THEN @ ELSE @ \ {m},
                          !.seq = IF Ahead(m.seq) THEN m.seq ELSE @,
                          !.accepted = IF Ahead(m.seq) THEN Append(@, m.number) ELSE @]
    /\ UNCHANGED <<pptp, sock, peers>>

-----------------------------------------------------------------------------
TunnelsInit == PPTPInit /\ GREInit
Types == {"START_CTRL_CONN_RQST", "STOP_CTRL_CONN_RQST", "OUT_CALL_RQST", "CALL_CLR_RQST", "other"}
PPTPNext ==
    \/ \E p \in Peer : \/ initialize_pptp(p)
                       \/ \E call \in Fds, short \in BOOLEAN : PeerSends(p, call, short)
    \/ \E m \in peers.air : Arrives(m)
    \/ \E f \in DOMAIN pptp.connections, b \in BOOLEAN :
          handle_gre(f, b) \/ send_ack(f, b) \/ \E type \in Types : handle_pptp(f, type, b)
    \/ \E i \in 1 .. Inputs, b \in BOOLEAN : PPTP_push(i, b)
    \/ PPTP_cleanup
GRENext == GREEncap_simple_action \/ \E m \in gre.wire, again \in BOOLEAN : CheckGREHeader_simple_action(m, again)
TunnelsSpec == TunnelsInit /\ [][PPTPNext \/ GRENext]_tunVars

TunnelsTypeOK ==
    /\ DOMAIN pptp.connections \subseteq Fds /\ pptp.halted \in BOOLEAN
    /\ pptp.inputs \in [1 .. Inputs -> Fds \cup {0}]
    /\ gre.seq \in 0 .. NumberMod - 1

\* Whatever order control messages, GRE packets, timers and failures come in, no
\* connection is used that was deleted: the call of a control connection and the
\* control connection of a call point at each other, each call holds the input
\* that points at it, and an input that points at no call is free.
CallsSound ==
    LET C == pptp.connections
    IN  /\ \A f \in DOMAIN C :
             IF IS_GRE(C[f])
             THEN C[f].pptp \in DOMAIN C /\ C[C[f].pptp].gre = f /\ pptp.inputs[C[f].input] = f
             ELSE C[f].gre # 0 => C[f].gre \in DOMAIN C /\ C[C[f].gre].pptp = f
        /\ \A i \in 1 .. Inputs : pptp.inputs[i] # 0 =>
             pptp.inputs[i] \in DOMAIN C /\ C[pptp.inputs[i]].input = i

\* CheckGREHeader passes no packet of a GREEncap twice and none after a later one,
\* although numbers wrap and the network repeats and reorders.
GREInOrder == \A i \in 1 .. Len(gre.accepted) - 1 : gre.accepted[i] < gre.accepted[i + 1]

\* PPTPServer uses no call that was deleted; CheckGREHeader passes the packets of a
\* GREEncap in order and once.
TunnelsSound == CallsSound /\ GREInOrder
=============================================================================
