----------------------------- MODULE DHCPCommon -----------------------------
(***************************************************************************)
(* What the DHCP elements have in common: addresses, transaction ids and   *)
(* the parts of a dhcpMessage that they read or write.  A field or option  *)
(* that is zero or missing is None.                                        *)
(***************************************************************************)
EXTENDS Integers, Sequences

CONSTANTS Eth,      \* hardware addresses of the clients (chaddr)
          Addr,     \* IP addresses
          ServerId, \* the addresses servers identify themselves with
          None,     \* IPAddress(), or a missing option
          Xid,      \* transaction ids
          LTime     \* values of the lease time option

ASSUME CommonAssumption ==
    /\ None \notin Eth
    /\ None \notin Addr
    /\ ServerId \subseteq Addr
    /\ 0 \in Xid
    /\ LTime \subseteq Nat

Option(S) == S \cup {None}

\* BOOTREQUEST: make_bootrequest() and the options the client appends
Request == [type      : {"DISCOVER", "REQUEST", "RELEASE"},
            eth       : Eth,
            xid       : Xid,
            ciaddr    : Option(Addr),
            requested : Option(Addr),
            server    : Option(Addr)]

\* BOOTREPLY
Reply == [type   : {"OFFER", "ACK", "NACK"},
          eth    : Option(Eth),
          xid    : Option(Xid),
          yiaddr : Option(Addr),
          server : Option(Addr),
          ltime  : Option(LTime)]

\* a null pointer is no message, and a missing lease time is none
ASSUME NoneAssumption == None \notin Reply /\ None \notin LTime
=============================================================================
