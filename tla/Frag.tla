-------------------------------- MODULE Frag --------------------------------
(***************************************************************************)
(* roofnet/frag: packets cut into fragments that are acknowledged one by   *)
(* one.  The sender is FragmentEncap followed by FragmentResender, the     *)
(* receiver CheckFragment (HEADER_ONLY), FragmentAck, Fragment,            *)
(* FragmentDupeFilter and Defragment, which handle a frame in one push.    *)
(* Frames keep their order; whole frames or single fragments of a frame    *)
(* are lost (their checksum fails), and frames arrive twice.               *)
(*                                                                         *)
(* A fragid is <<packet_num, frag_num>>.  Packet numbers do not wrap here. *)
(***************************************************************************)
EXTENDS Integers, Sequences, FiniteSets

CONSTANTS NumPackets,   \* bound: packets that are sent
          NumFrags,     \* fragments of a packet (FragmentEncap: its length / LENGTH)
          WindowSize,   \* _window_size of the sender
          MaxRetries,   \* _max_retries
          MaxFit,       \* fragments that fit into a frame of 1600 bytes
          DupeWindow,   \* _window_size of FragmentDupeFilter
          MaxLoss,      \* bound: frames and fragments lost
          MaxDup,       \* bound: frames that arrive twice
          LoseAcks      \* acknowledgements and requests for them are lost too

PacketNums == 0 .. NumPackets - 1

ASSUME FragAssumption ==
    /\ NumPackets \in Nat /\ WindowSize \in Nat /\ MaxRetries \in Nat
    /\ MaxFit \in Nat \ {0} /\ DupeWindow \in Nat
    /\ MaxLoss \in Nat /\ MaxDup \in Nat /\ LoseAcks \in BOOLEAN
    /\ NumFrags \in [PacketNums -> Nat \ {0}]

FragNums(p) == 0 .. NumFrags[p] - 1
FragIds     == UNION {{p} \X FragNums(p) : p \in PacketNums}
Invalid     == <<-1, -1>>       \* mark_invalid()

VARIABLES next,             \* FragmentEncap::_packet_num
          live,             \* the keys of FragmentResender::_packets
          acked,            \* fragments whose frag_status is 1
          sends,            \* frag_sends
          outstanding, resend_index, resend_limit,
          wait_for_ack, send_ack,
          timer,            \* _timer is scheduled
          frames, acks,     \* on the air
          frags_rx,         \* FragmentAck: fragments to be acknowledged
          dupes,            \* FragmentDupeFilter: the last fragments seen
          defrag,           \* Defragment::_packets
          delivered,        \* what Defragment has pushed
          misled,           \* history: packets sent again under the header of one of another length
          evicted,          \* history: fragments that left the window of FragmentDupeFilter
          losses, dups

sender   == <<next, live, acked, sends, outstanding, resend_index, resend_limit,
              wait_for_ack, send_ack, timer, misled>>
receiver == <<frags_rx, dupes, defrag, delivered, evicted>>
medium   == <<frames, acks, losses, dups>>
fragVars == <<sender, receiver, medium>>

NoEntry == [num |-> 0, got |-> {}]

FragInit ==
    /\ next = 0 /\ live = {} /\ acked = {} /\ sends = [id \in FragIds |-> 0]
    /\ outstanding = <<>> /\ resend_index = 0 /\ resend_limit = 0
    /\ wait_for_ack = FALSE /\ send_ack = FALSE /\ timer = FALSE
    /\ frames = <<>> /\ acks = <<>>
    /\ frags_rx = {} /\ dupes = <<>> /\ delivered = <<>> /\ misled = {} /\ evicted = {}
    /\ defrag = [p \in PacketNums |-> NoEntry]
    /\ losses = 0 /\ dups = 0

Ids(s) == {s[i] : i \in 1 .. Len(s)}

-----------------------------------------------------------------------------
(* FragmentResender.                                                       *)

Valid(id) == id # Invalid

\* operator<() and operator>(): valid ids come first, in order
Before(a, b) == a[1] < b[1] \/ (a[1] = b[1] /\ a[2] < b[2])

\* Mutant of fix(): the list is cut at the first invalid id without sorting.
Fixed_unsorted(s) ==
    LET bad == {i \in 1 .. Len(s) : ~Valid(s[i])}
    IN  IF bad = {} THEN s
        ELSE SubSeq(s, 1, (CHOOSE i \in bad : \A j \in bad : i <= j) - 1)

\* the place of an id among others
Rank(ids, id) == Cardinality({k \in ids : Before(k, id)}) + 1

\* fix(): a bubble sort that moves the invalid ids to the end, where they are
\* cut off.  No valid id is in the list twice.
Fixed(s) ==
    LET ids == {id \in Ids(s) : Valid(id)}
    IN  [r \in 1 .. Cardinality(ids) |-> CHOOSE id \in ids : Rank(ids, id) = r]

fix(s) ==
    /\ outstanding'  = Fixed(s)
    /\ resend_limit' = Len(Fixed(s))
    /\ resend_index' = 0

invalidate(s, ids) == [i \in 1 .. Len(s) |-> IF s[i] \in ids THEN Invalid ELSE s[i]]
FragsOf(p)         == {id \in FragIds : id[1] = p}
FragSeq(p)         == [i \in 1 .. NumFrags[p] |-> <<p, i - 1>>]

Frame(ackme, num, ids) == [ackme |-> ackme, num |-> num, frags |-> ids]

\* Mutant of do_resend(): one retransmission less.
Round_impatient(st, x) ==
    LET id == st.out[1 + ((resend_index + x) % Len(st.out))]
    IN  IF Len(st.frags) = MaxFit THEN st
        ELSE IF ~Valid(id) \/ id[1] \notin st.live THEN [st EXCEPT !.change = @ + 1]
        ELSE IF st.sends[id] >= MaxRetries
          THEN [st EXCEPT !.change = @ + 1, !.live = @ \ {id[1]},
                          !.out = invalidate(@, FragsOf(id[1]))]
        ELSE [st EXCEPT !.change = @ + 1, !.sends[id] = @ + 1, !.frags = Append(@, id)]

\* Mutant of do_resend(): no limit.
Round_stubborn(st, x) ==
    LET id == st.out[1 + ((resend_index + x) % Len(st.out))]
    IN  IF Len(st.frags) = MaxFit THEN st
        ELSE IF ~Valid(id) \/ id[1] \notin st.live THEN [st EXCEPT !.change = @ + 1]
        ELSE [st EXCEPT !.change = @ + 1, !.sends[id] = @ + 1, !.frags = Append(@, id)]

\* One round of the loop in do_resend() over the outstanding fragments,
\* starting at resend_index and wrapping around.
Round(st, x) ==
    LET id == st.out[1 + ((resend_index + x) % Len(st.out))]
    IN  IF Len(st.frags) = MaxFit                       \* goto done
          THEN st
        ELSE IF ~Valid(id) \/ id[1] \notin st.live      \* no PacketInfo
          THEN [st EXCEPT !.change = @ + 1]
        ELSE IF st.sends[id] > MaxRetries               \* the packet is dropped
          THEN [st EXCEPT !.change = @ + 1, !.live = @ \ {id[1]},
                          !.out = invalidate(@, FragsOf(id[1]))]
        ELSE [st EXCEPT !.change = @ + 1, !.sends[id] = @ + 1,
                        !.frags = Append(@, id)]

Rounds ==
    LET loop[x \in 0 .. Len(outstanding)] ==
            IF x = 0
              THEN [out |-> outstanding, live |-> live, sends |-> sends,
                    frags |-> <<>>, change |-> 0]
              ELSE Round(loop[x - 1], x - 1)
    IN  loop

do_resend ==
    LET end == Rounds[Len(outstanding)]
        num == IF end.frags = <<>> THEN 0 ELSE NumFrags[end.frags[1][1]]
    IN  /\ outstanding'  = end.out
        /\ live'         = end.live
        /\ sends'        = end.sends
        /\ resend_index' = resend_index + end.change
        \* the header, with the number of fragments, is the one of the first packet
        /\ frames' = Append(frames, Frame(FALSE, num, end.frags))
        /\ misled' = misled \cup {p \in {id[1] : id \in Ids(end.frags)} : NumFrags[p] # num}

\* pull(1) with fragments to send again
PullResend ==
    /\ ~wait_for_ack /\ resend_index < resend_limit
    /\ do_resend
    /\ UNCHANGED <<next, acked, resend_limit, wait_for_ack, send_ack, timer,
                   acks, losses, dups, receiver>>

\* pull(1) with a new packet at the input
PullNew ==
    /\ ~wait_for_ack /\ resend_index >= resend_limit
    /\ next < NumPackets
    /\ next'        = next + 1
    /\ live'        = live \cup {next}
    /\ sends'       = [id \in FragIds |-> IF id[1] = next THEN 1 ELSE sends[id]]
    /\ outstanding' = outstanding \o FragSeq(next)
    /\ frames'      = Append(frames, Frame(FALSE, NumFrags[next], FragSeq(next)))
    /\ UNCHANGED <<acked, resend_index, resend_limit, wait_for_ack, send_ack, timer,
                   acks, losses, dups, misled, receiver>>

\* pull(1) with nothing at the input
PullNothing ==
    /\ ~wait_for_ack /\ resend_index >= resend_limit
    /\ outstanding # <<>>
    /\ send_ack' = TRUE
    /\ UNCHANGED <<next, live, acked, sends, outstanding, resend_index, resend_limit,
                   wait_for_ack, timer, medium, misled, receiver>>

\* ack_request().  Without a packet to take the header from, the frame is not
\* initialised and CheckFragment drops it.
ack_request ==
    IF outstanding = <<>>
      THEN /\ timer' = FALSE
           /\ UNCHANGED <<outstanding, resend_index, resend_limit, wait_for_ack, send_ack, frames>>
      ELSE /\ wait_for_ack' = TRUE /\ send_ack' = FALSE
           /\ IF \E id \in Ids(outstanding) : id[1] \in live
                THEN /\ timer' = TRUE
                     /\ frames' = Append(frames, Frame(TRUE, 0, <<>>))
                     /\ UNCHANGED <<outstanding, resend_index, resend_limit>>
                ELSE fix(outstanding) /\ timer' = FALSE /\ UNCHANGED frames

\* pull(0)
PullAckRequest ==
    /\ ~wait_for_ack
    /\ send_ack \/ Len(outstanding) > WindowSize
    /\ ack_request
    /\ UNCHANGED <<next, live, acked, sends, acks, losses, dups, misled, receiver>>

run_timer ==
    /\ timer
    /\ timer' = FALSE /\ send_ack' = TRUE
    /\ UNCHANGED <<next, live, acked, sends, outstanding, resend_index, resend_limit,
                   wait_for_ack, medium, misled, receiver>>

\* PacketInfo::done()
Done(p, a) == \A id \in FragsOf(p) : id \in a

process_ack ==
    /\ acks # <<>>
    /\ LET known == {id \in Head(acks) : id[1] \in live}
       IN  /\ acked' = acked \cup known
           /\ live'  = live \ {id[1] : id \in {k \in known : Done(k[1], acked \cup known)}}
    /\ fix(invalidate(outstanding, Head(acks)))
    /\ timer' = FALSE /\ send_ack' = FALSE /\ wait_for_ack' = FALSE
    /\ acks' = Tail(acks)
    /\ UNCHANGED <<next, sends, frames, losses, dups, misled, receiver>>

-----------------------------------------------------------------------------
(* The receiver.                                                           *)

Last(s, n) == IF Len(s) <= n THEN s ELSE SubSeq(s, Len(s) - n + 1, Len(s))

\* Mutant of FragmentDupeFilter: nothing is remembered.
Accept_all(st, id, num) ==
    LET p     == id[1]
        entry == IF st.defrag[p] = NoEntry THEN [num |-> num, got |-> {}] ELSE st.defrag[p]
        whole == [entry EXCEPT !.got = @ \cup {id[2]}]
    IN  IF Cardinality(whole.got) = whole.num
          THEN [st EXCEPT !.defrag[p] = NoEntry,
                          !.delivered = Append(@, [packet |-> p, frags |-> whole.got])]
          ELSE [st EXCEPT !.defrag[p] = whole]

\* FragmentDupeFilter on a fragment that it has not seen
Filter(st, id) ==
    LET seen == Last(Append(st.dupes, id), DupeWindow)
    IN  [st EXCEPT !.dupes = seen, !.evicted = @ \cup ((Ids(st.dupes) \cup {id}) \ Ids(seen))]

\* FragmentDupeFilter and Defragment on one fragment
Accept(st, id, num) ==
    LET p     == id[1]
        entry == IF st.defrag[p] = NoEntry THEN [num |-> num, got |-> {}] ELSE st.defrag[p]
        whole == [entry EXCEPT !.got = @ \cup {id[2]}]
        seen  == Filter(st, id)
    IN  IF id \in Ids(st.dupes)                                 \* a duplicate
          THEN st
        ELSE IF id[2] >= entry.num \/ id[2] \in entry.got
          THEN [seen EXCEPT !.defrag[p] = entry]
        ELSE IF Cardinality(whole.got) # whole.num
          THEN [seen EXCEPT !.defrag[p] = whole]
        ELSE [seen EXCEPT !.defrag[p] = NoEntry,
                          !.delivered = Append(@, [packet |-> p, frags |-> whole.got])]

\* Fragment pushes the fragments of a frame one by one
Accepts(f) ==
    LET each[k \in 0 .. Len(f.frags)] ==
            IF k = 0 THEN [dupes |-> dupes, defrag |-> defrag, delivered |-> delivered, evicted |-> evicted]
            ELSE Accept(each[k - 1], f.frags[k], f.num)
    IN  each

\* FragmentAck (send_ack() clears what it sends), then Fragment
Receive ==
    /\ frames # <<>>
    /\ LET f   == Head(frames)
           rx  == frags_rx \cup Ids(f.frags)
           end == Accepts(f)[Len(f.frags)]
       IN  /\ dupes' = end.dupes /\ defrag' = end.defrag
           /\ delivered' = end.delivered /\ evicted' = end.evicted
           /\ IF f.ackme THEN acks' = Append(acks, rx) /\ frags_rx' = {}
                         ELSE UNCHANGED acks /\ frags_rx' = rx
    /\ frames' = Tail(frames)
    /\ UNCHANGED <<sender, losses, dups>>

-----------------------------------------------------------------------------
(* The air.                                                                *)
Remove(s, i) == SubSeq(s, 1, i - 1) \o SubSeq(s, i + 1, Len(s))

Lose ==
    /\ losses < MaxLoss
    /\ losses' = losses + 1
    /\ \/ /\ frames # <<>> /\ (Head(frames).ackme => LoseAcks)
          /\ frames' = Tail(frames) /\ UNCHANGED acks
       \/ /\ acks # <<>> /\ LoseAcks
          /\ acks' = Tail(acks) /\ UNCHANGED frames
       \/ /\ frames # <<>>
          /\ \E i \in 1 .. Len(Head(frames).frags) :
                frames' = [frames EXCEPT ![1].frags = Remove(@, i)]
          /\ UNCHANGED acks
    /\ UNCHANGED <<sender, receiver, dups>>

Duplicate ==
    /\ dups < MaxDup /\ frames # <<>>
    /\ dups' = dups + 1
    /\ frames' = <<Head(frames)>> \o frames
    /\ UNCHANGED <<sender, receiver, acks, losses>>

FragNext ==
    \/ PullNew \/ PullNothing \/ PullResend \/ PullAckRequest \/ run_timer
    \/ process_ack \/ Receive \/ Lose \/ Duplicate

FragSpec == FragInit /\ [][FragNext]_fragVars

(* What is not lost arrives, and the device pulls from output 0 whenever   *)
(* it can send.  For output 1 strong fairness is needed: with more than    *)
(* WindowSize fragments outstanding every acknowledgement makes another    *)
(* request possible, and a device that always prefers output 0 would ask   *)
(* for acknowledgements for ever.                                          *)
FragFair ==
    /\ FragSpec
    /\ SF_fragVars(PullNew) /\ SF_fragVars(PullResend) /\ WF_fragVars(PullNothing)
    /\ WF_fragVars(PullAckRequest) /\ WF_fragVars(process_ack) /\ WF_fragVars(Receive)

-----------------------------------------------------------------------------
FragTypeOK ==
    /\ next \in 0 .. NumPackets
    /\ live \subseteq PacketNums
    /\ acked \subseteq FragIds
    /\ sends \in [FragIds -> 0 .. MaxRetries + 1]
    /\ Ids(outstanding) \subseteq FragIds \cup {Invalid}
    /\ resend_limit \in Nat /\ resend_index \in Nat
    /\ \A p \in PacketNums : defrag[p].got \subseteq FragNums(p)

\* A packet comes out of Defragment with all of its fragments, whatever was lost, sent
\* again (do_resend() wraps around and sends some fragments twice) or duplicated on the
\* air, unless do_resend() sent some of it behind one of another length: Defragment then
\* takes the length from the wrong header.  And it comes out once, unless the window of
\* FragmentDupeFilter has let go of each of its fragments.
DeliveredWhole ==
    /\ \A i \in 1 .. Len(delivered) :
          delivered[i].packet \in misled \/ delivered[i].frags = FragNums(delivered[i].packet)
    /\ \A i, j \in 1 .. Len(delivered) : delivered[i].packet = delivered[j].packet /\ i # j =>
          delivered[i].packet \in misled \/ FragsOf(delivered[i].packet) \subseteq evicted

\* The sender forgets a fragment only when Defragment has it, or has had the whole
\* packet, but for those packets.
AckedIsHeld ==
    \A id \in acked :
        \/ id[1] \in misled
        \/ id[2] \in defrag[id[1]].got
        \/ \E i \in 1 .. Len(delivered) : delivered[i].packet = id[1]

\* A fragment that is neither acknowledged nor given up will be sent again:
\* fix(), which sorts the list and cuts it, never cuts off one of those.
NothingForgotten ==
    \A p \in live : \A id \in FragsOf(p) : id \in acked \/ id \in Ids(outstanding)

\* A packet is given up only after one of its fragments was sent
\* _max_retries + 1 times.
GivesUpLate ==
    \A p \in 0 .. next - 1 :
        \/ p \in live
        \/ FragsOf(p) \subseteq acked
        \/ \E id \in FragsOf(p) : sends[id] = MaxRetries + 1

\* What is acknowledged was received, what is not is sent again, and nothing is
\* given up early, whatever the link loses, repeats and reorders.
KeptUntilDone == AckedIsHeld /\ NothingForgotten /\ GivesUpLate

\* With no more losses than retries, and none of acknowledgements, every
\* packet is delivered but for those: the two pulls, the window and the
\* retransmissions never wait for each other.
Delivers ==
    <>(\A p \in PacketNums : p \in misled \/ \E i \in 1 .. Len(delivered) : delivered[i].packet = p)
=============================================================================
