----------------------------- MODULE DHCPClient -----------------------------
(***************************************************************************)
(* DHCPClient: one state machine per member of Eth, its seven timers, the  *)
(* offers it collects and its lease.  What an invocation pushes is left in *)
(* `sent'; `told' is the argument of the last LEASE_CALL.  In this module  *)
(* the server may send any reply at any time.                              *)
(*                                                                         *)
(* Time is abstract: a timer that is scheduled may fire.  The durations    *)
(* (_curr_backoff and the time stamps) therefore do not appear; whether    *)
(* enter_renew_state() and enter_rebind_state() schedule their timer again *)
(* depends on them (more than 60 s left) and is a choice if LongLeases.    *)
(***************************************************************************)
EXTENDS DHCPCommon

CONSTANTS Configured,   \* values of the argument IP
          LongLeases,   \* some leases are long enough to renew twice
          MaxOffers     \* bound: offers a client collects

ASSUME ClientAssumption ==
    /\ Configured # {} /\ Configured \subseteq Option(Addr)
    /\ LongLeases \in BOOLEAN /\ MaxOffers \in Nat

VARIABLES cstate,       \* _state
          my_ip,        \* _my_ip
          server_ip,    \* _server_ip
          active,       \* _lease_duration # 0: unparse_lease() says "true"
          xid,          \* _curr_xid
          timers,       \* the timers that are scheduled
          offers,       \* _offers, newest first
          best_offer,   \* _best_offer
          told,         \* the lease LEASE_CALL was last called with
          sent          \* requests pushed by the last invocation

clientVars == <<cstate, my_ip, server_ip, active, xid, timers, offers,
                best_offer, told, sent>>

CStates   == {"INIT", "SELECTING", "REQUESTING", "REBOOTING", "BOUND"}
LeaseTimers == {"RENEW", "REBIND", "LEASE_EXPIRED"}
Timers    == {"TIMEOUT", "SELECT", "RESEND_DISCOVER", "RESEND_REQUEST"} \cup LeaseTimers

NoLease == [ip |-> None, server |-> None]

\* configure() and initialize(), which ends in enter_init_state()
ClientInit ==
    /\ cstate     = [c \in Eth |-> "INIT"]
    /\ my_ip      \in [Eth -> Configured]
    /\ server_ip  = [c \in Eth |-> None]
    /\ active     = [c \in Eth |-> FALSE]
    /\ xid        = [c \in Eth |-> 0]
    /\ timers     = [c \in Eth |-> {"TIMEOUT", "RESEND_DISCOVER"}]
    /\ offers     = [c \in Eth |-> <<>>]
    /\ best_offer = [c \in Eth |-> None]
    /\ told       = [c \in Eth |-> NoLease]
    /\ sent       = [c \in Eth |-> <<>>]

-----------------------------------------------------------------------------
Become(c, s)     == cstate' = [cstate EXCEPT ![c] = s]
SetTimers(c, ts) == timers' = [timers EXCEPT ![c] = ts]
Send(c, msgs)    == sent' = [sent EXCEPT ![c] = msgs]
NewXid(c, x)     == xid' = [xid EXCEPT ![c] = x]        \* click_random()

\* what most steps leave alone
SameLease  == UNCHANGED <<my_ip, server_ip, active, told>>
SameOffers == UNCHANGED <<offers, best_offer>>

bootrequest(c, type, x, ciaddr, requested, server) ==
    [type |-> type, eth |-> c, xid |-> x, ciaddr |-> ciaddr,
     requested |-> requested, server |-> server]

make_discovery(c, x)           == bootrequest(c, "DISCOVER", x, None, my_ip[c], None)
make_request_with_ciaddr(c, x) == bootrequest(c, "REQUEST", x, my_ip[c], None, None)
make_release(c, x)             == bootrequest(c, "RELEASE", x, my_ip[c], None, server_ip[c])

\* the options depend on the state the client is in before it moves on
make_request(c, o) ==
    bootrequest(c, "REQUEST", o.xid, None,
                IF cstate[c] \in {"SELECTING", "REBOOTING"} THEN o.yiaddr ELSE None,
                IF cstate[c] = "SELECTING" THEN o.server ELSE None)

\* Mutant of enter_init_state(): no DISCOVER is scheduled.
enter_init_state_unscheduled(c) ==
    /\ Become(c, "INIT")
    /\ SetTimers(c, {"TIMEOUT"})

\* enter_init_state(): every timer is unscheduled, then two are started; the
\* offers collected so far stay
enter_init_state(c) ==
    /\ Become(c, "INIT")
    /\ SetTimers(c, {"TIMEOUT", "RESEND_DISCOVER"})

-----------------------------------------------------------------------------
(* push(): a reply with the right xid and hardware address.                *)

recv_offer(c, m) ==
    /\ SetTimers(c, (timers[c] \ {"RESEND_DISCOVER"}) \cup {"SELECT"})
    /\ Len(offers[c]) < MaxOffers
    /\ offers' = [offers EXCEPT ![c] = <<m>> \o @]
    /\ UNCHANGED <<cstate, xid, best_offer>> /\ SameLease
    /\ Send(c, <<>>)

\* with save_lease(): an acknowledgement without a lease time never expires;
\* one for no time at all is reported to LEASE_CALL as the end of the lease
recv_ack(c, m) ==
    /\ Become(c, "BOUND")
    /\ LET rest == timers[c] \ {"TIMEOUT", "RESEND_REQUEST"}
       IN  SetTimers(c, IF m.ltime # None THEN rest \cup LeaseTimers ELSE rest \ LeaseTimers)
    /\ best_offer' = [best_offer EXCEPT ![c] = None]
    /\ my_ip'      = [my_ip EXCEPT ![c] = m.yiaddr]
    /\ server_ip'  = [server_ip EXCEPT ![c] = m.server]
    /\ active'     = [active EXCEPT ![c] = m.ltime # 0]
    /\ told'       = [told EXCEPT ![c] = IF m.ltime = 0 THEN NoLease
                                         ELSE [ip |-> m.yiaddr, server |-> m.server]]
    /\ UNCHANGED <<xid, offers>>
    /\ Send(c, <<>>)

recv_nack(c, m) ==
    /\ IF cstate[c] = "BOUND"
         THEN UNCHANGED <<cstate, timers>>
         ELSE enter_init_state(c)
    /\ UNCHANGED xid /\ SameOffers /\ SameLease
    /\ Send(c, <<>>)

\* other packets go to output 2
ignore(c) == UNCHANGED <<cstate, timers, xid>> /\ SameOffers /\ SameLease /\ Send(c, <<>>)

\* Mutant of push(): the reply may belong to another transaction.
push_any_xid(c, m) ==
    IF m.eth # c
      THEN ignore(c)
      ELSE CASE m.type = "OFFER" -> recv_offer(c, m)
             [] m.type = "ACK"   -> recv_ack(c, m)
             [] m.type = "NACK"  -> recv_nack(c, m)

push(c, m) ==
    IF m.eth # c \/ m.xid # xid[c]
      THEN ignore(c)
      ELSE CASE m.type = "OFFER" -> recv_offer(c, m)
             [] m.type = "ACK"   -> recv_ack(c, m)
             [] m.type = "NACK"  -> recv_nack(c, m)

-----------------------------------------------------------------------------
(* choose_offer(): one pass over the offers, newest first.  `overall' is   *)
(* the best offer so far, `mine' the best for the address the client had,  *)
(* `ltime' the lease time to beat.                                         *)

\* Mutant of the loop: an offer with the same lease time replaces the choice.
Consider_last(acc, p, ip) ==
    LET better  == p.ltime # None /\ (acc.overall = None \/ p.ltime >= acc.ltime)
    IN  IF better THEN [overall |-> p, mine |-> acc.mine, ltime |-> p.ltime] ELSE acc

Consider(acc, p, ip) ==
    IF p.ltime = None THEN acc
    ELSE LET first == acc.overall = None \/ (acc.mine = None /\ p.ltime > acc.ltime)
             best1 == IF first THEN p.ltime ELSE acc.ltime
             same  == ip # None /\ p.yiaddr = ip /\ (acc.mine = None \/ p.ltime > best1)
         IN  [overall |-> IF first THEN p ELSE acc.overall,
              mine    |-> IF same THEN p ELSE acc.mine,
              ltime   |-> IF first \/ same THEN p.ltime ELSE acc.ltime]

\* the choice after each offer
Scan(s, ip) ==
    LET scan[k \in 0 .. Len(s)] ==
            IF k = 0 THEN [overall |-> None, mine |-> None, ltime |-> 0]
            ELSE Consider(scan[k - 1], s[k], ip)
    IN  scan

choose_offer(s, ip) ==
    LET end == Scan(s, ip)[Len(s)]
    IN  IF end.mine # None THEN end.mine ELSE end.overall

-----------------------------------------------------------------------------
(* run_timer(): the timer that fired is no longer scheduled unless the     *)
(* case schedules it again.                                                *)
Fired(c, t)  == timers[c] \ {t}

run_TIMEOUT(c) ==
    /\ "TIMEOUT" \in timers[c]
    /\ ignore(c)

run_SELECT(c) ==
    /\ "SELECT" \in timers[c]
    /\ LET o == choose_offer(offers[c], my_ip[c])
       IN  /\ best_offer' = [best_offer EXCEPT ![c] = o]
           /\ IF o = None
                THEN /\ SetTimers(c, Fired(c, "SELECT"))
                     /\ UNCHANGED cstate
                     /\ Send(c, <<>>)
                ELSE /\ SetTimers(c, Fired(c, "SELECT") \cup {"RESEND_REQUEST"})
                     /\ Become(c, "REQUESTING")
                     /\ Send(c, <<make_request(c, o)>>)
    /\ offers' = [offers EXCEPT ![c] = <<>>]
    /\ UNCHANGED xid /\ SameLease

run_RESEND_DISCOVER(c) ==
    /\ "RESEND_DISCOVER" \in timers[c]
    /\ \E x \in Xid : NewXid(c, x) /\ Send(c, <<make_discovery(c, x)>>)
    /\ Become(c, IF cstate[c] = "INIT" THEN "SELECTING" ELSE cstate[c])
    /\ UNCHANGED timers /\ SameOffers /\ SameLease

\* the offer is dereferenced unseen (see ResendHasOffer)
run_RESEND_REQUEST(c) ==
    /\ "RESEND_REQUEST" \in timers[c]
    /\ Send(c, <<make_request(c, best_offer[c])>>)
    /\ UNCHANGED <<cstate, timers, xid>> /\ SameOffers /\ SameLease

\* Mutant of enter_renew_state(): _state becomes the state of RFC 2131.
run_RENEW_or_REBIND_enters(c, t) ==
    /\ t \in timers[c]
    /\ \E x \in Xid : NewXid(c, x) /\ Send(c, <<make_request_with_ciaddr(c, x)>>)
    /\ SetTimers(c, Fired(c, t))
    /\ Become(c, "RENEWING") /\ SameOffers /\ SameLease

\* enter_renew_state() and enter_rebind_state(); _state stays as it is
run_RENEW_or_REBIND(c, t) ==
    /\ t \in timers[c]
    /\ \E x \in Xid : NewXid(c, x) /\ Send(c, <<make_request_with_ciaddr(c, x)>>)
    /\ \E again \in {FALSE, LongLeases} :
           SetTimers(c, IF again THEN timers[c] ELSE Fired(c, t))
    /\ UNCHANGED cstate /\ SameOffers /\ SameLease

run_LEASE_EXPIRED(c) ==
    /\ "LEASE_EXPIRED" \in timers[c]
    /\ active' = [active EXCEPT ![c] = FALSE]
    /\ enter_init_state(c)
    /\ UNCHANGED <<my_ip, server_ip, told, xid>> /\ SameOffers
    /\ Send(c, <<>>)

run_timer(c, t) ==
    \/ t = "TIMEOUT"         /\ run_TIMEOUT(c)
    \/ t = "SELECT"          /\ run_SELECT(c)
    \/ t = "RESEND_DISCOVER" /\ run_RESEND_DISCOVER(c)
    \/ t = "RESEND_REQUEST"  /\ run_RESEND_REQUEST(c)
    \/ t \in {"RENEW", "REBIND"} /\ run_RENEW_or_REBIND(c, t)
    \/ t = "LEASE_EXPIRED"   /\ run_LEASE_EXPIRED(c)

-----------------------------------------------------------------------------
(* write_handler(): the operator or a script.                              *)

\* write lease "false"
write_lease_false(c) ==
    /\ active' = [active EXCEPT ![c] = FALSE]
    /\ enter_init_state(c)
    /\ UNCHANGED <<my_ip, server_ip, told, xid>> /\ SameOffers
    /\ Send(c, <<>>)

\* write lease "true IP SERVERIP START END": enter_init_reboot_state(); a lease
\* that does not last ends when it starts
write_lease_true(c, l, lasts) ==
    /\ my_ip'     = [my_ip EXCEPT ![c] = l.ip]
    /\ server_ip' = [server_ip EXCEPT ![c] = l.server]
    /\ active'    = [active EXCEPT ![c] = lasts]
    /\ \E x \in Xid : /\ NewXid(c, x)
                      /\ Send(c, <<bootrequest(c, "REQUEST", x, l.ip, None, None)>>)
    /\ SetTimers(c, (timers[c] \ {"RESEND_DISCOVER"}) \cup {"LEASE_EXPIRED"})
    /\ Become(c, "REBOOTING")
    /\ UNCHANGED told /\ SameOffers

\* write release: send_dhcp_lease()
write_release(c) ==
    /\ \E x \in Xid : NewXid(c, x) /\ Send(c, <<make_release(c, x)>>)
    /\ UNCHANGED <<cstate, timers>> /\ SameOffers /\ SameLease

\* A server that follows RFC 2131: offers and acknowledgements name an
\* address, the server and a lease time.
Granting ==
    [type : {"OFFER", "ACK"}, eth : Eth, xid : Xid,
     yiaddr : Addr, server : ServerId, ltime : LTime]
Refusing ==
    [type : {"NACK"}, eth : Eth, xid : Xid,
     yiaddr : {None}, server : ServerId, ltime : {None}]
Conforming == Granting \cup Refusing

ClientNext ==
    \E c \in Eth :
        \/ \E m \in Conforming : push(c, m)
        \/ \E t \in Timers : run_timer(c, t)
        \/ write_lease_false(c)
        \/ \E ip \in Addr, server \in ServerId, lasts \in BOOLEAN :
               write_lease_true(c, [ip |-> ip, server |-> server], lasts)
        \/ write_release(c)

ClientSpec == ClientInit /\ [][ClientNext]_clientVars

-----------------------------------------------------------------------------
ClientTypeOK ==
    /\ cstate     \in [Eth -> CStates]
    /\ my_ip      \in [Eth -> Option(Addr)]
    /\ server_ip  \in [Eth -> Option(Addr)]
    /\ active     \in [Eth -> BOOLEAN]
    /\ xid        \in [Eth -> Xid]
    /\ timers     \in [Eth -> SUBSET Timers]
    /\ offers     \in [Eth -> Seq(Reply)]
    /\ best_offer \in [Eth -> Option(Reply)]
    /\ told       \in [Eth -> [ip : Option(Addr), server : Option(Addr)]]
    /\ sent       \in [Eth -> Seq(Request)]

\* run_timer() dereferences _best_offer without looking when RESEND_REQUEST
\* fires.  push(), choose_offer(), enter_init_state() and the handlers clear
\* the offer, the offers and the timers one by one and never all of them; no
\* order of replies, expirations and handler writes makes it a null pointer.
ResendHasOffer ==
    \A c \in Eth :
        /\ "RESEND_REQUEST" \in timers[c] => best_offer[c] # None
        /\ "SELECT" \in timers[c] => offers[c] # <<>>

\* In every state some timer is running that moves the client on, so that a
\* lost message never leaves it waiting for ever (T_TIMEOUT does not count:
\* it only schedules itself).
KeepsTrying ==
    \A c \in Eth :
        /\ cstate[c] \in {"INIT", "SELECTING"} =>
               "RESEND_DISCOVER" \in timers[c] \/ "SELECT" \in timers[c]
        /\ cstate[c] = "REQUESTING" => "RESEND_REQUEST" \in timers[c]
        /\ cstate[c] \in {"REBOOTING", "BOUND"} => "LEASE_EXPIRED" \in timers[c]

\* The timers of a client always move it on, and never by way of a null pointer.
RetriesSound == ResendHasOffer /\ KeepsTrying

\* The offer chosen is the one with the longest lease among those for the
\* address the client had, or among all if there are none; of equal ones the
\* latest.  The loop compares with one `best_ltime' for both purposes.
Candidates(c) ==
    LET timed == {k \in 1 .. Len(offers[c]) : offers[c][k].ltime # None}
        mine  == {k \in timed : my_ip[c] # None /\ offers[c][k].yiaddr = my_ip[c]}
    IN  IF mine # {} THEN mine ELSE timed

LongestLease(c) ==
    \E k \in Candidates(c) :
        /\ best_offer'[c] = offers[c][k]
        /\ \A j \in Candidates(c) :
              \/ offers[c][j].ltime < offers[c][k].ltime
              \/ offers[c][j].ltime = offers[c][k].ltime /\ k <= j

ChoosesLongest ==
    [][\A c \in Eth : best_offer'[c] # best_offer[c] =>
            best_offer'[c] = None \/ LongestLease(c)]_clientVars
=============================================================================
