-------------------------------- MODULE DHCP --------------------------------
(***************************************************************************)
(* DHCPClients and one DHCP server on a network: each client has a queue   *)
(* of requests on their way to the server and one of replies on their way  *)
(* back.  Packets are lost, also because a queue is full, and arrive after *)
(* any delay; two packets of one client in one direction keep their order. *)
(***************************************************************************)
EXTENDS DHCPClient, DHCPServer

CONSTANTS QueueSize,    \* capacity of a queue
          MaxLoss,      \* bound: packets lost on the way, or Unlimited
          Slow,         \* clients whose timers may fire before an answer is back
          Operators,    \* which handlers the operator or a script writes
          MaxWrites,    \* bound: handler writes and restarts, or Unlimited
          ServerClock   \* leases run out on the server's clock

Unlimited == -1

ASSUME DHCPAssumption ==
    /\ QueueSize \in Nat \ {0}
    /\ MaxLoss \in Nat \cup {Unlimited}
    /\ Slow \subseteq Eth
    /\ Operators \in [Eth -> SUBSET {"release", "release_inactive", "lease_false", "restart"}]
    /\ MaxWrites \in Nat \cup {Unlimited}
    /\ ServerClock \in BOOLEAN

VARIABLES toServer, toClient, losses, writes

netVars == <<toServer, toClient, losses, writes>>
dhcpVars == <<clientVars, serverVars, netVars>>

DHCPInit ==
    /\ ClientInit /\ ServerInit
    /\ toServer = [c \in Eth |-> <<>>]
    /\ toClient = [c \in Eth |-> <<>>]
    /\ losses = 0
    /\ writes = 0

Items(q) == {q[i] : i \in 1 .. Len(q)}

\* a Queue drops what does not fit
Enqueue(q, msgs) == IF Len(q) + Len(msgs) <= QueueSize THEN q \o msgs ELSE q

\* click_random() draws from 2^32 ids: never one that is still around
XidsInUse(c) ==
    {xid[c]} \cup
    {m.xid : m \in Items(toServer[c]) \cup Items(toClient[c]) \cup Items(offers[c])
                   \cup (IF best_offer[c] = None THEN {} ELSE {best_offer[c]})}

\* a request for an offer repeats the xid of the offer, the others draw one
FreshXid(c) ==
    \A i \in 1 .. Len(sent'[c]) :
        (sent'[c][i].type = "REQUEST" => sent'[c][i].ciaddr # None)
            => sent'[c][i].xid \notin XidsInUse(c)

\* a step of client c that may send
ClientSends(c) ==
    /\ FreshXid(c)
    /\ toServer' = [toServer EXCEPT ![c] = Enqueue(@, sent'[c])]
    /\ UNCHANGED <<serverVars, toClient, losses>>

\* one more of n, of which at most max are allowed
Count(n, max, next) ==
    /\ max = Unlimited \/ n < max
    /\ next = IF max = Unlimited THEN n ELSE n + 1

Quiet(c) == toServer[c] = <<>> /\ toClient[c] = <<>>

Timer(c, t) ==
    /\ c \in Slow \/ Quiet(c)
    /\ run_timer(c, t)
    /\ ClientSends(c)
    /\ UNCHANGED writes

Receive(c) ==
    /\ toClient[c] # <<>>
    /\ push(c, Head(toClient[c]))
    /\ toClient' = [toClient EXCEPT ![c] = Tail(@)]
    /\ UNCHANGED <<serverVars, toServer, losses, writes>>

Serve(c) ==
    /\ toServer[c] # <<>>
    /\ serve(Head(toServer[c]))
    /\ toServer' = [toServer EXCEPT ![c] = Tail(@)]
    /\ toClient' = [toClient EXCEPT ![c] = Enqueue(@, reply')]
    /\ UNCHANGED <<clientVars, losses, writes>>

Lose(c) ==
    /\ Count(losses, MaxLoss, losses')
    /\ UNCHANGED writes
    /\ \/ toServer[c] # <<>> /\ toServer' = [toServer EXCEPT ![c] = Tail(@)] /\ UNCHANGED toClient
       \/ toClient[c] # <<>> /\ toClient' = [toClient EXCEPT ![c] = Tail(@)] /\ UNCHANGED toServer
    /\ UNCHANGED <<clientVars, serverVars>>

Expire == ServerClock /\ ServerTick /\ UNCHANGED <<clientVars, netVars>>

-----------------------------------------------------------------------------
(* Operators and scripts.  "release" is the handler as documented;         *)
(* "release_inactive" only after lease "false" was written.                *)
Write == Count(writes, MaxWrites, writes')

Release(c) ==
    /\ \/ "release" \in Operators[c]
       \/ "release_inactive" \in Operators[c] /\ ~active[c] /\ my_ip[c] # None
    /\ Write
    /\ write_release(c)
    /\ ClientSends(c)

LeaseFalse(c) ==
    /\ "lease_false" \in Operators[c]
    /\ Write
    /\ write_lease_false(c)
    /\ ClientSends(c)

\* Click is restarted; LEASE_CALL had saved the lease
Restart(c) ==
    /\ "restart" \in Operators[c]
    /\ cstate'     = [cstate EXCEPT ![c] = "INIT"]
    /\ \E ip \in Configured : my_ip' = [my_ip EXCEPT ![c] = ip]
    /\ server_ip'  = [server_ip EXCEPT ![c] = None]
    /\ active'     = [active EXCEPT ![c] = FALSE]
    /\ xid'        = [xid EXCEPT ![c] = 0]
    /\ timers'     = [timers EXCEPT ![c] = {"TIMEOUT", "RESEND_DISCOVER"}]
    /\ offers'     = [offers EXCEPT ![c] = <<>>]
    /\ best_offer' = [best_offer EXCEPT ![c] = None]
    /\ UNCHANGED told /\ Send(c, <<>>)
    /\ Write
    /\ UNCHANGED <<serverVars, toServer, toClient, losses>>

\* the boot script writes the saved lease back
RestoreLease(c) ==
    /\ "restart" \in Operators[c]
    /\ cstate[c] = "INIT" /\ ~active[c] /\ told[c] # NoLease
    /\ Write
    /\ write_lease_true(c, told[c], TRUE)
    /\ ClientSends(c)

\* a step that concerns c
About(c) ==
    \/ (\E t \in Timers : Timer(c, t)) \/ Receive(c) \/ Serve(c) \/ Lose(c)
    \/ Release(c) \/ LeaseFalse(c) \/ Restart(c) \/ RestoreLease(c)

DHCPNext == (\E c \in Eth : About(c)) \/ Expire

DHCPSpec == DHCPInit /\ [][DHCPNext]_dhcpVars

-----------------------------------------------------------------------------
\* A client that reports an active lease has it: the server's table gives
\* the address to this client and to nobody else.  Late and reordered
\* acknowledgements, retransmissions, expiry on the client's side, releases
\* and re-allocation must all agree.
ActiveIsLeased ==
    \A c \in Eth : active[c] => my_ip[c] \in Pool /\ leases[my_ip[c]] = c

\* "When written, releases the currently active DHCP lease, if any"
\* (dhcpclient.hh, release handler): the address may then be given to others,
\* so no two clients may report an active lease of it.
NoSharedAddress ==
    \A c, d \in Eth : active[c] /\ active[d] /\ c # d => my_ip[c] # my_ip[d]
=============================================================================
