# TLA+ models of click-packages

The repository is a collection of packages of elements for the Click modular
router. An element is a C++ object with ports; packets are pushed into or pulled
from it, timers call it back, and handlers let an operator read and write it. One
Click thread runs one of these at a time, so the step of a model is one
invocation of an element: a `push` or `pull` with everything downstream that runs
inside it, one timer callback, or one handler. (`SNMPTrapSource` is the exception,
see `SNMP`.) What makes these programs hard is not shared memory but the network:
the two sides of a protocol are in different routers, packets are lost, late,
duplicated or overtaken, timers race with answers, tables are full, and operators
write handlers at any moment.

The packages are independent of each other, so the modules form groups. Four are
protocols with both of their sides: PPP negotiation, DHCP, fragments with
acknowledgements, and source routing. The others are elements that keep state of
their own in an environment that may do what a network does.

## Inventory

| Package | Elements and their state | What is hard | Modules |
|---|---|---|---|
| `iias/ppp` | `PPPControlProtocol` with `LCP` and `IPCP`: state, ids, answered flag, retransmissions left, timer | timers that fire while an answer travels, old answers, restart of one side | `PPPControlProtocol`, `PPPLink` |
| `iias/ppp`, `iias/gre` | `PPTPServer`: control connections, calls, inputs, GRE numbers. `GREEncap`, `CheckGREHeader`: one number | pointers between connections while messages, timers and failing writes end them in any order; numbers that wrap | `Tunnels` |
| `dhcp` | `DHCPLeaseTable`, `LeasePool`: two maps, free set, free list. Server elements without state. `DHCPClient`: five states, seven timers, offers, lease. `LeaseHash` | lost and late replies, expiry on both sides, restarts, retransmissions that take another branch, addresses that collide | `DHCPLeasePool`, `AddressAllocation`, `DHCPServer`, `DHCPClient`, `DHCP`; `FlowTables` |
| `roofnet/frag` | `FragmentResender`: outstanding list, window, retry counts, timer. `FragmentAck`, `FragmentDupeFilter`, `Defragment` | duplicates, partial loss, window at its limit, giving up | `Frag` |
| `roofnet/sr`, `sr2` | `SRQuerier`: cached paths. `MetricFlood`, `SRQueryResponder`: tables of queries seen. `SRForwarder`. `LinkTable` (in Click) shared by all | stale tables and paths, loss, links that break, floods that multiply | `SRRouting` |
| `roofnet/sr`, `sr2` gateways | `GatewaySelector`: advertisements with timers. `SetGateway`: table of flows | timers of entries that were dropped, flows that must not move | `Gateways` |
| `roofnet/sr`, `sr2` metrics | `ETTStat`: probes heard and sent, windows, a timer with jitter | probes that jitter moves out of a window; resets, other periods and lists of types at one end | `ETTStat` |
| `roofnet/sr`, `sr2` tables | `CounterFlood`, `PFlood`; `DupeFilter`, `FloodTracker`, `LocalBroadcast`, `SRDestCache`, `SRQueryForwarder`, `TXStat`, `LinkFailureDetection` | repeated and reordered packets, tables that are full, timers at the exact time of an entry | `Flooding`, `SRTables` |
| `roofnet/dhcp` | older `DHCPServer`: two maps, free map, list; `SnoopDHCPReplies` | addresses taken from the middle of the list | `RoofnetDHCP` |
| `bp` | queues per destination or neighbour, what neighbours told; tables of paths | stale lengths, service beyond its period, everybody waiting, queries that overlap | `BackPressure`, `Queues` |
| `multicast`, `multicast6` | receivers of groups (IGMP, MLD), joined channels (PIM) | two tables that must be asked for each other before a prune | `Multicast`, `Multicast6` |
| `ip6_natpt` | mapping, old and new difference of numbers per direction | retransmissions across a change of length | `NATPT` |
| `netflow` | flows counted, template cache | reports between packets, templates withdrawn and replaced, same ids of several exporters | `Netflow` |
| `snmp` | encoder with open sequences, tree of identifiers, ring of traps | lengths not known in advance, ring at its limit, task that sleeps | `SNMP` |
| `models` | `CalculateFlows`, `TCPScoreboard`, `TCPCollector`, `TCPMystery`: packets of a connection; `IPAddrColors` | reordering and loss on both sides of the trace; colors joined while in use | `TCPTrace`, `TCPCollector`, `AddrColors` |
| `security` | `MapTRW`: connection and address tables | counts that age in a byte, eviction | `MapTRW` |
| `others`, `unibo_qos` | `PriorityQueue`; `RTPClassifier` | one pointer for turn and count; rows used again | `Queues`, `FlowTables` |

`PROJECT.json` lists every component with the reason when it, or a part of it, is
not modelled, and every hazard with the line at which it bites and the properties
that watch it.

## Modules

### PPP: `PPPControlProtocol`, `PPPLink`

`PPPControlProtocol` is the state machine of `iias/ppp/pppcontrolprotocol.cc`. The
variables are the members `state`, `id`, `reqid`, `seen_ack`, `retransmits` and
whether `timer` is scheduled; `out` is what the invocation pushed on output 0.
There is one action per packet code (`rconfreq`, `rconfack`, `rconfnakrej`,
`rtermreq`, ...) and one for `timeout`; each pushes, changes state and arms the
timer as its C++ function does, including the calls of `sconfreq`. The virtual
functions of the derived classes appear as constants: what an element asks for
(`Addci`) and its verdict on a list of options (`Reqci`). In this module the peer
is any implementation and may send any packet at any time. Ids are `u_char` and
wrap at `IdMod`.

`PPPLink` connects two such elements by a tunnel that loses packets and lets a
packet overtake up to `Window` - 1 others. `Open` is the remote PPP daemon
bringing its side up, because the elements here only answer. The timer (3 s) is
longer than a round trip, except that it fires early `MaxEarly` times.

### DHCP: `DHCPCommon`, `DHCPLeasePool`, `AddressAllocation`, `DHCPServer`, `DHCPClient`, `DHCP`

`DHCPCommon` has the fields of a message that some element reads. `DHCPLeasePool`
is `DHCPLeaseTable` and `LeasePool`: the maps by hardware address and by IP
address, the end of each lease, `_free` and `_free_list`, with `new_lease`,
`new_lease_any`, `remove` and `extend`. `AddressAllocation` is what such a
database promises: an address has at most one owner and a client at most one
address. `DHCPServer` has the branches of the three server elements behind
`DHCPClassifier`, and the fields of the replies that they build; `DHCPClient` has
the client's states, timers, offers and handlers, against any server that
follows RFC 2131. `DHCP` puts clients and one server on a lossy network with
bounded queues and adds operators, restarts (the lease was saved by `LEASE_CALL`
and is written back by a boot script) and expiry on the server's clock. A client starts with any
address its configuration may name (`Configured`).

Time is abstract: a scheduled timer may fire. Two consequences are worth knowing.
The end of a lease on the server is "running", "past" or, after `extend()`, which
sets it to twice the current time in the code, "extended" and endless. `LongLeases`
says whether there may be more than 60 s left when the renew or rebind timer
fires, on which it depends whether it is scheduled again.

### Fragments: `Frag`

Sender (`FragmentEncap`, `FragmentResender`) and receiver (`CheckFragment`,
`FragmentAck`, `Fragment`, `FragmentDupeFilter`, `Defragment`) with a medium that
loses frames, single fragments of a frame and acknowledgements, and duplicates
frames. `fix`, `do_resend`, `ack_request`, `process_ack` and the two sides of
`pull` keep their names. Packets have different lengths. Two history variables say where
the code itself loses track: `misled` are the packets of which fragments were sent behind
the header of a packet of another length, `evicted` the fragments that `FragmentDupeFilter`
has let go of. Packet numbers do not wrap in the bounded runs.

### Source routing: `SRRouting`

Each node runs `SRQuerier`, `MetricFlood`, `SRQueryResponder` and `SRForwarder`
around one `LinkTable`. `LinkTable` is part of Click, not of this repository, and
is modelled from how it is used: the set of links that have a metric, the best
route over them, computed when `dijkstra()` was last called, and a timer that drops
links that are measured no longer. `push` is a data packet offered by the user,
`Receive` a packet from the air (a query, a reply or data), `Hook` the timer that
passes a query on after a random delay. Metrics do not change and are the same in
both directions; the age of a link is not modelled, so that a broken link may
come back to a node whenever some packet lists it. The last section of the module,
with `SR2Spec`, is the version of `roofnet/sr2`: the same steps, except that
`SR2Forwarder` learns nothing from data. The run takes either.

### Other elements of roofnet and bp, together in `MCRoofnet`

- `Gateways`, first part: `GatewaySelector` of one node: advertisements that wait, their timers (a timer
  outlives its entry), the handlers, and the metric of each gateway, which
  `LinkTable` may change at any time. The second part is the flow table of
  `SR2SetGateway`. It has the elements of both versions; the push
  functions of `SetGateway` in `sr` return before they look at the table.
- `ETTStat` has both ends of a link. A step is the next timer that expires: its slot is
  `_period` over the number of types, and `add_jitter()` moves it by up to a tenth
  either way, which adds up because `_next` is counted from the last one. An end is reset, given
  another averaging time, period or list of types, or hot-swapped at any moment, and
  probes are lost; the metrics that the two metric elements would hand to `LinkTable`
  are part of the state.
- `Flooding`: three stations in a row, `CounterFlood` with counts 0 and 2, or
  `PFlood`.
- `RoofnetDHCP`: the older server. A REQUEST is answered without a look at the
  requested address, because the code parses it into a variable of an inner block.
- `BackPressure`: queues, probes that tell their lengths, choice of queue and
  neighbour once per period, the guard packet that ends the service of a queue. Only a
  neighbour whose probe was heard is chosen. The second part of the module is the discovery of all
  paths without a circle, with the handlers of `BPQuerier` and `BPMetricFlood`.
- `SRTables`: the small tables of source routing in the order a packet meets them.

### Elements of other packages, together in `MCServices`

- `NATPT`: an FTP control connection whose texts change their length.
- `Multicast`, `Multicast6`: one router between hosts, routers downstream and
  routers upstream. Addresses are pairs (source, byte order), because the tables
  keep them in different orders.
- `MapTRW`: clients, servers and scanners on one LAN; counts age by a clock that
  wraps.
- `Tunnels`: `PPTPServer`, whose connections are known by their descriptor, and
  the numbers of GRE.
- `Netflow`: `NetflowExport` under `AggregateIPFlows`, and `NetflowPrint` with the
  templates of exporters that announce, withdraw and replace them.
- `TCPTrace`: `CalculateFlows` and `TCPScoreboard`. `TCPCollector`: the records of
  a connection and what `TCPMystery` makes of them when it is killed.
- `AddrColors`: the tree of addresses, inference, compaction and files.
- `SNMP`: the BER encoder octet by octet; the tree with names and variables; the
  ring. A trap is made by a write handler and sent by a task, which
  may run in different threads, so that the handler takes three steps.
- `Queues`: `PriorityQueue` and the multicast queues of `bp`. `FlowTables`:
  `RTPClassifier` and `LeaseHash`.

In both MC modules the variable `focus` says which element runs; the others stay
as they were made, so that the run is the sum of the elements and not their
product. The properties of elements that are proved about are those of their modules;
the others are stated for the states of their focus.

`FiniteMaps` has the two operations on finite functions that these modules share.

Undefined behaviour is a choice or a stop: values that the code never initializes
(`Seen::_forwarded`, `_outstanding_syns`, modes of receivers, `source_connected`)
are any value in Init or at the step that makes them; where the code goes on with
memory it has freed or beyond an array the model marks the state (`halted`,
`wild`, `stuck`) and follows it no further.

## Runs

| Run | Question | Bounds |
|---|---|---|
| `ppp` | Do the assertions of the state machine hold against any peer? Do two elements come up over a lossy link, and is OPENED always based on the acknowledgement of the current request? | ids modulo 12 (ids of older, current and future requests); timely: 3 losses and 4 transmissions (one more loss and they give up, so the bound is tight), 2 opens, one per side; `slow`: a loss, overtaking by one, one early timer |
| `dhcp_server` | Is the lease database consistent and does it implement an allocation? Does a client get a lease, and get it back? | 3 clients for 2 addresses, every combination of fields, `_free_list` up to twice the pool; 1 client on a network with 2 losses, 5 transaction ids |
| `dhcp_client` | Does the client survive any order of replies, timers and handler writes? | 2 addresses, 2 transaction ids, 2 offers, 2 lease times (zero included), which gives late, repeated and foreign replies and a choice between offers |
| `dhcp_network` | Does a client that reports a lease have it? | 2 clients for 1 address; unlimited losses and handler writes; queues of 2; a client with early timers and restarts, and one that gives its lease up and releases it |
| `dhcp_nak` | (violation) Does a reply carry the id of its request? | the server of `dhcp_server` |
| `dhcp_release_active` | (violation) May two clients report the same address after a release? | 2 clients, 1 address |
| `frag` | Is a packet delivered once and whole, nothing forgotten, and on a calm network every packet delivered? | a packet of 2 fragments and one of 1, window 1, 1 retry, frames of 2, dupe window 2, 4 losses, 2 duplicates: resends take more than one frame, wrap around and mix packets of different lengths, and the dupe filter forgets; calm: as many losses as retries, none of acknowledgements |
| `sr_routing` | Do floods stay single and end, does a reply give a route, does data keep arriving? | both versions; 4 nodes, a kite with two disjoint ways; the far link of the best way breaks or one packet is lost; tables of one entry, sequence numbers modulo 2 |
| `roofnet` | Are the elements of `MCRoofnet` sound, each in any environment? | tables of one or two entries, so that entries are dropped while their timers run; one or two losses; 3 nodes; two types of probes, windows of two periods of which jitter stretches each to one and a half, other periods and windows written at either end |
| `services` | The same for the elements of `MCServices` | two or three hosts, flows, sources or clients; two sources in a record; tables and rings of two; numbers modulo 4 to 6, so that they wrap; 3-bit addresses; lengths around 127 and 255, where BER changes its form, and traps with strings of 121 octets, which outgrow their length, and of 122; two rows of RTP flows; 4 commands and replies, of which any may be rewritten or repeated; 3 data packets and 2 acknowledgements in a trace, lost, repeated and overtaken at either side |
| `snmp_trap` | (violation) Does every trap say what it was made of? | strings of 121 and 255 octets |
| `rtp_sixth` | (violation) Do six packets make a flow RTP? | 1 flow |

In `dhcp_network` and `dhcp_release_active` a `VIEW` leaves out the variables that
hold what the last step pushed: the packets are already in the queues.

### Invariants and action properties

- PPP: `TimerArmed` (an element that waits has its timer scheduled, which the
  code asserts in three places), `AnsweredOnce` (in the states after an
  acknowledgement `seen_ack` is set and the transmissions are reloaded), `OpenedIsAgreed`, `TimelyNobodyGivesUp`.
- DHCP: `PoolSound` (`MapsAgree`, `FreeOrLeased`, and `FreeIsListed`, so that
  `new_lease_any()` finds an address if there is one), `AckedIsLeased`,
  `ImplementsAllocation`; `RetriesSound` (no null `_best_offer` is dereferenced, and
  some timer is always running), `ChoosesLongest` (the loop of `choose_offer`
  against its definition); `ActiveIsLeased` for the whole network.
- Fragments: `DeliveredWhole` (whole, and once unless the dupe filter has let go of all of
  the packet), `KeptUntilDone` (what is acknowledged was received, what was not is still
  held, and giving up comes after the retries). Both leave out the packets in `misled`.
- Source routing: `OneCopy` (a flood does not multiply), `ReplyMeansRoute`.
- Roofnet and bp: `GatewaysSound` (an advertisement that waits has a timer; a flow
  keeps the gateway of its SYN-ACK), `ProbesSound` (on a link that loses
  nothing, one probe at most is counted as lost), `FloodSound` (once as long as the table holds all broadcasts and is not cleared, and
  everywhere when the network is connected and nothing is lost), `LeasesSound`,
  `BackPressureSound` (only packets of this period are served; not everybody waits
  while some queue is longer than the threshold and every node has heard what its neighbours
  have; all paths are found),
  `SRTablesSound` (`DupeFilter` passes no packet twice without a long silence or a
  packet numbered 0 between; floods are counted, and queries passed, once per entry).
- Other packages: `StreamsContiguous` (both hosts see one contiguous stream),
  `PruneSparesOthers` (hosts and routers do not prune each other's channels),
  `PortScanSound` (an answered client is never dropped, with one ARP reply at most
  that nobody has asked for), `TunnelsSound` (no deleted
  connection is used; GRE passes in order and once),
  `MeasurementsSound` (every packet of a flow is reported, each record is read with its
  own template; loss events are counted once; the scoreboard is the set of
  what it was told; records are free or used once; categories of
  packets are what happened; delivered is what was acknowledged; the ends of
  each packet have complementary colors, in files as well), `SNMPTrapsSound` (the
  octets decode to what was told; names and variables are found; the ring
  sends in order and never sleeps on a trap), `QueuesSound` (counts are those of the
  queue, nobody starves, no packet of the next period is served), `FlowTablesSound`
  (flows are told apart and earn their class; a lease is of the hashed address).

A property of `roofnet` or `services` is a conjunction over the elements of one
kind; its parts are named and explained in the modules.

### Liveness and the fairness it rests on

- `TimelyConverges`: `WF` of delivery, because what is not lost arrives; `SF` of the
  timer, because a scheduled Click timer fires, and the model interrupts its being
  enabled only while packets travel.
- `GetsLease` (in `MCDHCPServer`): the same for client and server; nobody is obliged to write a
  handler, to restart or to lose a packet. Losses are finite.
- `CalmDelivers`: every packet but those in `misled`. The device pulls from both outputs. Output 1 (new packets and
  resends) needs strong fairness: with more than `WINDOW` fragments outstanding
  every acknowledgement makes another request on output 0 possible, and a device
  that always prefers output 0 would do nothing else.
- `KeepsDelivering`, `FloodsEnd`: the user goes on sending, what is not lost
  arrives, the timers of `MetricFlood` fire and time passes. A flood is shorter than
  the 5 s of `_query_wait` (a node delays a query by at most 1.75 s, and at most two
  pass it on). Both assume `Forgotten`: that the tables end up without the broken
  link. The assumption is needed. Without it, and with fair timers of the
  `LinkTable`, TLC finds nodes that drop the link in turn and teach it to each
  other again. In the code the age of a link travels in queries and data, but
  `SRQueryResponder::update_link` enters links with age 0.

`roofnet` and `services` have no fairness; that nobody is left waiting is stated
there as invariants (`WaitingAdHasTimer`, `SomebodySends`, the last part of
`RingSound`).

## Findings

- `dhcp_nak`: `make_nak_packet()` (`dhcpserverack.cc:175`) forgets the Ethernet header,
  so a DHCPNAK carries neither the transaction id nor the address of its client,
  which therefore ignores it and goes on asking.
- `dhcp_release_active`: the `release` handler (`dhcpclient.cc:526`) sends a DHCPRELEASE but
  the client stays BOUND and reports the lease, although the documentation says
  that it "releases the currently active DHCP lease". `dhcp_network` shows that
  writing `lease false` first is safe.
- `snmp_trap`: `SNMPVariableInfo::encode_binding()` keeps one octet for the length of a
  binding (`snmpvarinfo.cc:198`). When the binding is longer than 127 octets, `pop_sequence()`
  moves its contents by one octet too few (`snmpber.cc:113`), and the length overwrites the
  first of them. A DisplayString may have 255 characters (`snmpvarinfo.hh:43`);
  about 120 are enough.
- `rtp_sixth`: `ins_flow()` counts the first packet as 1 and asks for more than 6
  (`rtpclassifier.cc:145`), so the seventh packet in a row makes a flow RTP, and not the sixth
  as `rtpclassifier.hh:24` and the comment in the line say.

Seen while modelling, without a run; the models follow the code:

- DHCP: the lease time of an offer is in the order of the host (`dhcpserveroffer.cc:114`), in
  an acknowledgement in that of the network; clients compare offers only with each other.
  A `release` written before there is a lease draws a new transaction id, so
  the answers on their way are ignored (`dhcpclient.cc:353`). `LEASE_CALL` is not
  called when a lease expires (`dhcpclient.cc:262`), although `dhcpclient.hh:36` says
  that it is when the lease is lost. Nor is it told of a release, so that a boot
  script restores a lease that was released and TLC finds two clients with one
  address when an operator both restarts and writes `release` to an inactive client.
- PPP: with packets that overtake each other and one premature timer both sides
  can restart each other for ever, so convergence is checked for a tunnel that
  keeps the order.
- Fragments: when an acknowledgement is lost, `_wait_for_ack` stays true and
  nothing is sent until another acknowledgement arrives (`fragmentresender.cc:425`);
  the calm network therefore loses none. A resent frame carries the
  `num_frags_packet` of the first packet in it for all of them: a packet of another
  length behind it comes out of `Defragment` with fragments missing, or never. `misled` collects
  these packets. `frag > frag_status.size()` lets one index too many through.
- Probes: with N = `_tau` / `_period` up to 11 (10 by default) jitter of a tenth hides one
  probe of N, so that a perfect link may be reported as one that loses a tenth; with
  more periods in the window it hides more. For the metric at the receiver of a
  probe, the rate of the same direction is taken twice. After `probes` has dropped a type the first
  type that was heard may be one that is no longer sent, and its ETX is 9999 for ever; a
  list that became shorter than the position in it fails an assertion of `Vector`.
  `tau` runs into the next case and sets the period to the same number.
- Source routing: nothing in the repository sends the `PT_QUERY` packets that
  `SRQueryForwarder` acts on; the reverse metric of a link is overwritten by the
  forward one (`rev_m = get_link_fwd(i)`). When more sources flood at once than
  `_seen` has entries, a node forgets floods that still travel and passes them on
  again (two sources and one entry are enough). `SRForwarder::encap()` numbers no packet, so
  `DupeFilter` is emptied by each.
- Gateways and floods: `_when` of an advertisement is never assigned, and `_to_send` of `PFlood`,
  so the first timer passes on everything that waits. A timer that runs at the very
  microsecond of `_to_send` passes nothing on.
- NAT-PT: when texts of the IPv4 host become shorter, `delta_for()` compares a
  number of the new text with one of the old; the property is stated for texts that grow.
- Multicast: `delsource()` goes on with an erased iterator; `noPIMreceivers()` of
  `multicast6` is true when there are receivers (`ip6pimcontrol.cc:229`).
- Scan detection: a reply to an ARP request that nobody has made is taken off the
  count of the host it is sent to (`map_trw.cc:201`). This negative count ages back
  to zero, the host's request is counted, and its answer is not, because the
  connection already has the flag of an answer. When two neighbours announce
  themselves in this way and both are then asked and answer, the count stands at 2:
  with `block_count` 2 the next connection of this host is dropped, although it was
  always answered. `PortScanSound` is checked with one request or one reply that
  nobody has asked for (`MaxArps = 1`; the answers of a request are not bounded).
- NetFlow: the first packet of a flow is counted twice; short records are taken
  for padding.
- Back-pressure: with video, `back()` looks at the wrong queue (`dataqueue.hh:66`).
- Traces: `process_ack()` of `TCPCollector` reads `k->prev` before `attach_packet()`
  sets it, so that no packet is ever marked as a window probe or a reordered
  acknowledgement (`tcpcollector.cc:219`). `find_true_caused_acks()`, whose latencies
  are to be "definitely correct" (`tcpmystery.cc:85`), does not notice a plain
  retransmission, because only packets after the original are marked; `CausedSound`
  leaves these out. It also compares flags of a record with `TH_SYN` and `TH_FIN`.

## Proofs

TLAPS proves the following for every value of the constants that satisfies the
named `ASSUME`s of the modules: any number of nodes, addresses, packets and losses,
and any size of tables and queues. A bound that the model needs for TLC, such as
`MaxLoss`, is a constant like the others, so that a theorem holds for every bound.
Where a theorem has a hypothesis of its own it is named below, with the reason.
`Lemmas` has what several proofs need: the least element of a set of numbers
(`LeastNat`), induction up to a bound (`UpTo`), the existence of loops and maxima
that are written as recursive functions (`LoopExists`, `MaxExists`), and that a
sequence of distinct elements of a finite set is not longer than the set
(`DistinctFits`).

### PPP: `PPPControlProtocol_proofs`

`TypeCorrect`, `TimerArmedAlways`, `AnsweredOnceAlways` and `NeverTermReqAlways`, for
any peer. The inductive invariant is `TypeOK` and, for each element, `Good(n)`: the
timer is scheduled exactly in the states that wait, an element in a state after the
acknowledgement has `seen_ack` set and its full number of transmissions, STOPPING
has none left, and no Terminate Request was pushed. The properties are not
inductive alone: that a timeout in STOPPING does not send a Terminate Request, and
that `retransmits` stays a natural number, both depend on how many transmissions
a state can have left.

`OpenedIsAgreedAlways` is about two elements and the tunnel, for any number of
losses, overtakings, early timers and openings. `LinkInv` adds `Given(n)`: every
acknowledgement on its way was given by the other side, and an element that is
ACKRCVD or OPENED has the acknowledgement of the request that is outstanding. That
needs, of every handler, that it either leaves state and request alone or moves
to a state without an acknowledgement (`Keeps`).

### DHCP: `DHCPServer_proofs`, `DHCP_proofs`

`DHCPServer_proofs`: `PoolTypeCorrect`, `PoolAlwaysSound` and
`PoolImplementsAllocation` are about the pool. The inductive invariant is
`PoolInv`: the types, `MapsAgree` and `FreeOrLeased` together, since an insertion keeps
the maps inverse only if the address had no owner, which is what being free
means. `FreeIsListed` is proved on top of it. `new_lease_any()` takes the first
entry of the list that is still free; that there is a first one rests on
`LeastNat`. The refinement maps `owner` to the map `leases`: every call is an
`Assign`, a `GiveBack` or a stutter. `ServerUsesPool` says that every handler
changes the pool by one call of it, so that all theorems about the pool hold for the
server, and `AckedAlwaysLeased` is proved by cases of the branches.

The first part of `DHCP_proofs` is the client alone: `ClientTypeCorrect`,
`ClientRetriesSound` and `ClientChoosesLongest`, against any server. `ClientInv` adds to the types and
`RetriesSound` that the offers, and the best one, are whole messages: `run_timer()`
leaves RESEND_REQUEST scheduled when `choose_offer()` finds nothing, which it then
never does. `choose_offer` is a loop
over the offers, written as a recursive function; that it has a value is
`LoopExists`, and its result is found by `UpTo` on the offers it has looked at.

The second part: `ActiveAlwaysLeased` and `CarefulNeverShare`, for clients and server
on a network that loses and delays, with operators and restarts. `DHCPInv` follows a lease through the
network: an acknowledgement that its client would still take is of an address
that is leased to it. The server takes an address back only for a release, and a
client that sends one has drawn a new transaction id, so that it ignores every
answer to an older question. The hypothesis `CarefulOperators` is that nobody
releases a lease that is in use, and that nobody whose lease is restored after a
restart releases at all. Both parts are needed: `dhcp_release_active` violates the
property without the first, and TLC finds a violation without the second (see
Findings).

### Fragments: `Frag_proofs`

`FragTypeCorrect`, `SenderPersists`, `KeptUntilItIsDone` and `DeliveredWholeOnce`. The
network and the device are those of `FragSpec`; the calm network of `MCFrag` is the
same module with other constants. `FragInv` is the sender (`SenderFits`:
each fragment of a live packet is acknowledged or outstanding, and a packet that
is live no more was acknowledged whole or has a fragment that was sent
`_max_retries` + 1 times), the air (`AirInv`) and the receiver
(`ReceiverInv`). `SenderPersists` follows from it for packets of any length.

`KeptUntilItIsDone` adds `HeldInv`: what is acknowledged, or in an acknowledgement
on its way, is held by `Defragment` or was delivered, unless its packet is in `misled`. A frame
on the air is as long as the packets in it say, but for those (`GoodFrame`); new
frames have one packet each, and `do_resend()` adds to `misled` what it puts behind
another length. `DeliveredWholeOnce` adds `OnceFits`: of a packet that was delivered, each
fragment is still remembered by `FragmentDupeFilter` or was let go of, so that only a packet
of which everything was let go of can be built a second time. Neither theorem
has a hypothesis: packets have any lengths, and the window of the dupe filter any size.

### Source routing: `SRRouting_proofs`

`SRTypeCorrect`, `RepliesMeanRoutes` and `OneCopyAlways`, for both versions and every
network. `SRInv` says that tables have links of the network, that a cached path
is a path to the target, and that a packet follows a path of the network.
`RepliesMeanRoutes` uses that the reply brings every link of its path, so that the
node which asked has a route when it computes one. `FloodInv` is for `OneCopyAlways`:
the copies on the air are of the current question of their source, whoever sent
one has an entry of `_seen` that says so (`SentBy`), and what was added since
belongs to other floods that are not over (`Recent`). With the hypothesis `Room`,
that `_seen` has room for the floods of all sources at once, that entry is
therefore never dropped too early. Without `Room` TLC finds two copies.

### Other elements of roofnet and bp: `Roofnet_proofs`

The theorems are about `MCSpec`, whose steps are steps of the element in focus;
each element has its own invariant.

- `LeasesStaySound`: the property is inductive once the list is taken for what it
  has besides the address that is used.
- `GatewaysStaySound`: `WaitingAdHasTimer` is inductive with the types;
  `SetGatewayInv` adds that the replies of an agreed flow are not over, which is
  why `cleanup()` leaves its entry.
- `FloodsStaySound`: `FloodInv` relates each entry of the table to what was sent and
  passed up, and says for each neighbour of a station that has sent that the copy
  is in the air or the neighbour has an entry. That all stations hear is then
  shown with the paths of the network.
- `BackPressureStaysSound`: a neighbour is a candidate only when it was heard, so that the
  theorem has to find, of all nodes whose neighbours were heard, one that may send: the one with the
  least distance among those with more than the threshold queued for their distance. `BPInv` says that a queue which may be pulled still has
  its guard, and before it only packets that were there when the period began. For the flood, `BPFloodInv` says of each
  path without a circle that a query which follows it, or the answer, is under
  way, unless something was lost or a table dropped it.
- `SRTablesStaySound`: `SRDataInv` relates the window of `DupeFilter` to what was passed,
  and the other two count entries: what was counted is in the list or was dropped,
  and an entry that was not sent stands for one that may be.
- `RoofnetTypeCorrect` collects the types of all of them; the percentages of `ETTStat` need that
  its counters are natural numbers, whatever is written to its handlers.

### Elements of other packages: `Services_proofs`

Each theorem is about the specification of one module; in the run `services` the
steps of an element are the steps of its module.

- `ChannelsAreSpared` (`Multicast`): `Sparing` is a set of routers, closed under every
  function the handlers are composed of (`addsource`, `delsource`, `addgroup`,
  `joingroup`, `leavegroup` and the joins and prunes of routers). A router in it has
  told upstream of each source what its hosts and routers want: a source that
  somebody wants was asked for and not pruned since. A report runs these functions
  in loops, over the sources of each record, so the invariant must hold after
  every round and not only after the report (`LoopExists`, `UpTo`).
- `StreamsAreContiguous` (`NATPT`): `Contiguous` says of each direction what the last
  text was, in the numbers of its host (`From46`, `From64`), where it lies in the numbers of
  the other one (`InPlace`), that an acknowledgement on its way is of text that was
  received (`Received`), and which offsets the mapping has, before and after the last text
  that changed its length (`OfLastText`). The offset of a number depends on whether it
  lies behind the last change, and a text that was lost is translated again: the
  second time the offset of the text itself must be the old one. Hypothesis
  `NATPTAssumption`: texts are not empty, and no text is taken for the absence of one.
- `TunnelsAreSound` (`Tunnels`): `PPTPInv` relates each connection to the descriptors of
  its control and GRE sockets, which the system gives again once they are closed, and
  to the calls of the outputs. `GREInv` bounds how far the sender is ahead of the
  receiver by the room in the numbers, so that the comparison of numbers that
  wrap is that of the packets; `NumberMod > 3` is needed, the code has 2^32.
- `FlowTablesAreSound` (`FlowTables`): `RTPInv` says that the numbers of flows in both
  tables are different and were all given, and that a row counts what it has seen;
  `HashInv` that a lease is of an address that its client hashes to and that both maps
  have it.
- `QueuesAreSound` (`Queues`): `PrioInv` bounds how often a queue with packets was passed
  over by how far `_pull_q` has moved since it was behind that queue (`Turns`), which gives that
  no queue is passed over `QueuesNumber` times, and follows the count of each paint
  through `Append` and `Tail` of the long queue. `MQInv` says that, while
  packets may be pulled, the guard is in the queue that was chosen and everything
  before it was there when the period began; drops of packets (`pop_fronts`) come
  before the guard is chosen.

### What is only model-checked

- Liveness, which needs ENABLED: `TimelyConverges`, `GetsLease`, `CalmDelivers`,
  `KeepsDelivering`, `FloodsEnd`; and `TimelyNobodyGivesUp`, which counts losses
  against transmissions of the timely tunnel.
- `ProbesSound`: the number of probes that were counted in a window is a
  cardinality over a sequence whose entries age together.
- `PortScanSound`, `MeasurementsSound` and `SNMPTrapsSound`: `MapTRW`, `TCPTrace`,
  `AddrColors` and `SNMP` have recursive operators, which the prover cannot use.
  `CollectorSound` is about a computation on the records of a whole trace.
  In `Netflow`, keys and layouts are sets of names of fields that are folded over
  and joined, which is induction over data.
- `ServicesTypeOK`: the types of `Multicast`, `NATPT`, `Tunnels`, `FlowTables` and `Queues` are
  proved with their theorems; those of the other modules are not.

## Not modelled

- Parsing and building of headers, checksums and options, except where a property
  depends on a field; durations, where only the order of events matters; memory
  exhaustion (`Packet::make` returning null).
- `CheckDHCPMsg`, `DHCPICMPEncap` and `DHCPOptionUtil`; `PPPEncap`; `PrintSR` and the
  checksum elements; `WifiQoSEncap`: functions of one packet, without state.
- `DNSAlg` and `DNSMessage` of `ip6_natpt` rewrite one message at a time.
- `CalculateCapacity`, `MultiQ`, `GapRate` and the virtual queue of the policy MMU
  are arithmetic in floating point.
- `RC5` is taken for a permutation; the OML elements and `roofnet/analysis` report
  numbers; `TXFeedbackStats` is in no build.
- The part of `tcpmystery.cc` from line 288 on is not compiled (`#if 0`).
- The age and the reverse direction of link metrics in `SRRouting`.

## Plan

1. Proofs: the tables of `MapTRW` and `Multicast6`; then `ProbesSound`.
2. A second implementation of `AddressAllocation` by `RoofnetDHCP`.
3. Source routing with two sources, restarts of a node and gateways in the same
   network; PPTP with the PPP modules on top of `Tunnels`.
4. Liveness of `GatewaySelector` and `BackPressure` under fair timers.

## How to run

    tlc -workers 2 -config MCDHCP.cfg MCDHCP
    tlapm DHCPServer_proofs.tla

The first checks a run of the table above; `PROJECT.json` has the module and the
configuration of each. The second checks the proofs of a module; the others are
`DHCP_proofs`, `PPPControlProtocol_proofs`, `Frag_proofs`, `SRRouting_proofs`,
`Roofnet_proofs`, `Services_proofs` and `Lemmas`. `Roofnet_proofs` and
`Services_proofs` take some minutes each.
