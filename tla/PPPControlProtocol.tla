------------------------- MODULE PPPControlProtocol -------------------------
(***************************************************************************)
(* The finite state machine of iias/ppp: PPPControlProtocol and the parts  *)
(* of LCP and IPCP it calls.  Each member of Node is one control-protocol  *)
(* element (an LCP or an IPCP).  What a handler pushes on output 0 is      *)
(* recorded in `out', so that a module that composes two elements can feed *)
(* it to the peer; in this module the peer is any PPP implementation and   *)
(* may send any packet at any time.                                        *)
(*                                                                         *)
(* The virtual functions addci() and reqci() of the derived classes are    *)
(* the constants Addci (the options an element asks for) and Reqci (its    *)
(* verdict on the options of a request, see lcp.cc and ipcp.cc).           *)
(***************************************************************************)
EXTENDS Integers, Sequences

CONSTANTS Node,         \* the control-protocol elements
          Options,      \* option lists a Configure-Request can carry
          Addci,        \* what each element requests
          Reqci,        \* each element's verdict on a list of options
          Protrejecter, \* the elements whose class overrides protreject(): LCP
          MaxConfReqs,  \* maxconfreqtransmits (DEFMAXCONFREQS)
          IdMod         \* ids are u_char: 256

Verdict == {"CONFACK", "CONFNAK", "CONFREJ"}

ASSUME PPPAssumption ==
    /\ IdMod \in Nat \ {0}
    /\ MaxConfReqs \in Nat \ {0}
    /\ Addci \in [Node -> Options]
    /\ Reqci \in [Node -> [Options -> Verdict]]
    /\ Protrejecter \subseteq Node

VARIABLES state,        \* state
          id,           \* id: last id used
          reqid,        \* reqid: id of the outstanding request
          seen_ack,     \* seen_ack: the outstanding request was answered
          retransmits,  \* retransmits: transmissions left
          timer,        \* timer->scheduled()
          out           \* what the last invocation of the element pushed

vars == <<state, id, reqid, seen_ack, retransmits, timer, out>>

States == {"STOPPED", "STOPPING", "REQSENT", "ACKRCVD", "ACKSENT", "OPENED"}
Ids    == 0 .. IdMod - 1

Request == [code : {"CONFREQ"}, id : Ids, ci : Options]
Answer  == [code : Verdict \cup {"TERMREQ", "TERMACK", "CODEREJ", "PROTREJ"},
            id   : Ids]
Packet  == Request \cup Answer

Init ==
    /\ state       = [n \in Node |-> "STOPPED"]
    /\ id          = [n \in Node |-> 0]
    /\ reqid       = [n \in Node |-> 0]
    /\ seen_ack    = [n \in Node |-> FALSE]
    /\ retransmits = [n \in Node |-> MaxConfReqs]
    /\ timer       = [n \in Node |-> FALSE]
    /\ out         = [n \in Node |-> <<>>]

-----------------------------------------------------------------------------
NextId(n)     == (id[n] + 1) % IdMod
ConfReq(n, i) == [code |-> "CONFREQ", id |-> i, ci |-> Addci[n]]
Reply(c, i)   == [code |-> c, id |-> i]

\* output(0).push() of the given packets, in order
Push(n, pkts) == out' = [out EXCEPT ![n] = pkts]

Become(n, s)   == state' = [state EXCEPT ![n] = s]
SetTimer(n, b) == timer' = [timer EXCEPT ![n] = b]

\* sconfreq(false): a new request; the packet itself is pushed by the caller.
\* The timer is armed here, and the caller says so with SetTimer.
NewConfReq(n) ==
    /\ id'          = [id EXCEPT ![n] = NextId(n)]
    /\ reqid'       = [reqid EXCEPT ![n] = NextId(n)]
    /\ retransmits' = [retransmits EXCEPT ![n] = MaxConfReqs - 1]
    /\ seen_ack'    = [seen_ack EXCEPT ![n] = FALSE]

\* sconfreq(true): the outstanding request once more
ResendConfReq(n) ==
    /\ retransmits' = [retransmits EXCEPT ![n] = @ - 1]
    /\ seen_ack'    = [seen_ack EXCEPT ![n] = FALSE]
    /\ UNCHANGED <<id, reqid>>

\* what every branch that does not call sconfreq() leaves alone
NoConfReq == UNCHANGED <<id, reqid, retransmits, seen_ack>>

-----------------------------------------------------------------------------
\* Mutant of rconfreq(): an OPENED element does not start over.
rconfreq_no_restart(n, p) ==
    /\ IF state[n] = "STOPPED"
         THEN /\ NewConfReq(n)
              /\ Push(n, <<ConfReq(n, NextId(n)), Reply(Reqci[n][p.ci], p.id)>>)
         ELSE NoConfReq /\ Push(n, <<Reply(Reqci[n][p.ci], p.id)>>)
    /\ SetTimer(n, timer[n] \/ state[n] = "STOPPED")
    /\ Become(n, IF Reqci[n][p.ci] = "CONFACK" THEN "ACKSENT" ELSE "REQSENT")

(* rconfreq(): a Configure-Request arrives.  OPENED and STOPPED start a    *)
(* negotiation of their own first, then the request is judged by reqci()   *)
(* and turned into the answer.                                             *)
rconfreq(n, p) ==
    LET restart == state[n] \in {"OPENED", "STOPPED"}
        verdict == Reqci[n][p.ci]
        opens   == verdict = "CONFACK" /\ state[n] = "ACKRCVD"
        answer  == Reply(verdict, p.id)
    IN  /\ IF restart
             THEN /\ NewConfReq(n)
                  /\ Push(n, <<ConfReq(n, NextId(n)), answer>>)
             ELSE NoConfReq /\ Push(n, <<answer>>)
        /\ SetTimer(n, (timer[n] \/ restart) /\ ~opens)
        /\ Become(n, IF state[n] = "ACKRCVD"
                       THEN IF opens THEN "OPENED" ELSE "ACKRCVD"
                       ELSE IF verdict = "CONFACK" THEN "ACKSENT" ELSE "REQSENT")

\* Mutant of the test in rconfack() and rconfnakrej(): any id answers.
Answers_any_id(n, p) == ~seen_ack[n]

(* A Configure-Ack, -Nak or -Reject answers the outstanding request only   *)
(* once and only by its id; otherwise rconfack() and rconfnakrej() return. *)
Answers(n, p) == p.id = reqid[n] /\ ~seen_ack[n]

IgnoreAnswer(n) ==
    /\ NoConfReq /\ UNCHANGED <<state, timer>>
    /\ Push(n, <<>>)

MarkSeen(n)   == seen_ack' = [seen_ack EXCEPT ![n] = TRUE]

MarkSeenOnly(n, pkts) ==
    /\ MarkSeen(n) /\ UNCHANGED <<state, timer, id, reqid, retransmits>>
    /\ Push(n, pkts)

\* Mutant of "try again": the timer is unscheduled after sconfreq() armed it.
Renegotiate_unscheduled(n) ==
    /\ NewConfReq(n)
    /\ Push(n, <<ConfReq(n, NextId(n))>>)
    /\ SetTimer(n, FALSE)

\* a fresh request; the seen_ack that was just set is cleared by sconfreq()
Renegotiate(n) ==
    /\ NewConfReq(n)
    /\ Push(n, <<ConfReq(n, NextId(n))>>)
    /\ SetTimer(n, TRUE)

Restart(n) == Renegotiate(n) /\ Become(n, "REQSENT")

\* Mutant of rconfack(): the counter is not reloaded.
Accepted_no_reload(n) ==
    /\ MarkSeen(n)
    /\ Become(n, IF state[n] = "REQSENT" THEN "ACKRCVD" ELSE "OPENED")
    /\ SetTimer(n, timer[n] /\ state[n] = "REQSENT")
    /\ Push(n, <<>>)
    /\ UNCHANGED <<id, reqid, retransmits>>

\* our request is accepted: REQSENT leaves the timer running until it sends
\* a Configure-Ack itself, ACKSENT is done
Accepted(n) ==
    /\ MarkSeen(n)
    /\ Become(n, IF state[n] = "REQSENT" THEN "ACKRCVD" ELSE "OPENED")
    /\ SetTimer(n, timer[n] /\ state[n] = "REQSENT")
    /\ retransmits' = [retransmits EXCEPT ![n] = MaxConfReqs]
    /\ UNCHANGED <<id, reqid>>
    /\ Push(n, <<>>)

\* the switch of rconfack() and rconfnakrej(): STOPPING has no case in it
OnAnswer(n, p, Negotiating) ==
    CASE state[n] = "STOPPED"                -> MarkSeenOnly(n, <<Reply("TERMACK", p.id)>>)
      [] state[n] = "STOPPING"               -> MarkSeenOnly(n, <<>>)
      [] state[n] \in {"REQSENT", "ACKSENT"} -> Negotiating
      [] state[n] \in {"ACKRCVD", "OPENED"}  -> Restart(n)

rconfack(n, p) ==
    IF Answers(n, p) THEN OnAnswer(n, p, Accepted(n)) ELSE IgnoreAnswer(n)

rconfnakrej(n, p) ==
    IF Answers(n, p)
      THEN OnAnswer(n, p, Renegotiate(n) /\ UNCHANGED state)     \* try again
      ELSE IgnoreAnswer(n)

rtermreq(n, p) ==
    /\ Become(n, CASE state[n] \in {"ACKRCVD", "ACKSENT"} -> "REQSENT"
                   [] state[n] = "OPENED"                 -> "STOPPING"
                   [] OTHER                               -> state[n])
    /\ retransmits' = [retransmits EXCEPT ![n] = IF state[n] = "OPENED" THEN 0 ELSE @]
    /\ SetTimer(n, timer[n] \/ state[n] = "OPENED")
    /\ UNCHANGED <<id, reqid, seen_ack>>
    /\ Push(n, <<Reply("TERMACK", p.id)>>)

rtermack(n, p) ==
    IF state[n] = "OPENED"
      THEN Restart(n)
      ELSE /\ Become(n, CASE state[n] = "STOPPING" -> "STOPPED"
                          [] state[n] = "ACKRCVD"  -> "REQSENT"
                          [] OTHER                 -> state[n])
           /\ SetTimer(n, timer[n] /\ state[n] # "STOPPING")
           /\ NoConfReq
           /\ Push(n, <<>>)

rcoderej(n, p) ==
    /\ Become(n, IF state[n] = "ACKRCVD" THEN "REQSENT" ELSE state[n])
    /\ NoConfReq /\ UNCHANGED timer
    /\ Push(n, <<>>)

\* a code the switch does not know is logged and dropped
unhandled(n, p) == NoConfReq /\ UNCHANGED <<state, timer>> /\ Push(n, <<>>)

\* LCP::protreject(): a packet of a protocol nobody handles is sent back; the
\* base class (IPCP) drops it
protreject(n) ==
    /\ IF n \in Protrejecter
         THEN /\ id' = [id EXCEPT ![n] = NextId(n)]
              /\ Push(n, <<Reply("PROTREJ", NextId(n))>>)
         ELSE UNCHANGED id /\ Push(n, <<>>)
    /\ UNCHANGED <<state, reqid, seen_ack, retransmits, timer>>

(* timeout(): the retransmission timer fires (and is no longer scheduled   *)
(* unless the handler schedules it again).                                 *)
GiveUp(n) ==
    /\ Become(n, "STOPPED")
    /\ SetTimer(n, FALSE)
    /\ NoConfReq
    /\ Push(n, <<>>)

ResendTermReq(n) ==
    /\ id'    = [id EXCEPT ![n] = NextId(n)]
    /\ reqid' = [reqid EXCEPT ![n] = NextId(n)]
    /\ retransmits' = [retransmits EXCEPT ![n] = @ - 1]
    /\ UNCHANGED <<state, timer, seen_ack>>
    /\ Push(n, <<Reply("TERMREQ", NextId(n))>>)

Resend(n) ==
    /\ ResendConfReq(n)
    /\ Become(n, IF state[n] = "ACKRCVD" THEN "REQSENT" ELSE state[n])
    /\ UNCHANGED timer
    /\ Push(n, <<ConfReq(n, reqid[n])>>)

\* Mutant of timeout(): no limit on the retransmissions.
timeout_unbounded(n) ==
    /\ timer[n] /\ state[n] \in {"REQSENT", "ACKRCVD", "ACKSENT"}
    /\ Resend(n)

timeout(n) ==
    /\ timer[n]
    /\ CASE state[n] = "STOPPING" ->
               IF retransmits[n] <= 0 THEN GiveUp(n) ELSE ResendTermReq(n)
         [] state[n] \in {"REQSENT", "ACKRCVD", "ACKSENT"} ->
               IF retransmits[n] <= 0 THEN GiveUp(n) ELSE Resend(n)
         [] state[n] \in {"STOPPED", "OPENED"} ->
               SetTimer(n, FALSE) /\ NoConfReq /\ UNCHANGED state /\ Push(n, <<>>)

\* simple_action(): dispatch on the code of the packet
simple_action(n, p) ==
    \/ p.code = "CONFREQ" /\ rconfreq(n, p)
    \/ p.code = "CONFACK" /\ rconfack(n, p)
    \/ p.code \in {"CONFNAK", "CONFREJ"} /\ rconfnakrej(n, p)
    \/ p.code = "TERMREQ" /\ rtermreq(n, p)
    \/ p.code = "TERMACK" /\ rtermack(n, p)
    \/ p.code = "CODEREJ" /\ rcoderej(n, p)
    \/ p.code = "PROTREJ" /\ unhandled(n, p)

\* whatever may happen to an element
Step(n) ==
    \/ \E p \in Packet : simple_action(n, p)
    \/ protreject(n)
    \/ timeout(n)

Next == \E n \in Node : Step(n)

Spec == Init /\ [][Next]_vars

-----------------------------------------------------------------------------
\* The fields keep their ranges; in particular the restart counter, a signed
\* int that four places decrement or reload, never goes below zero.
TypeOK ==
    /\ state       \in [Node -> States]
    /\ id          \in [Node -> Ids]
    /\ reqid       \in [Node -> Ids]
    /\ seen_ack    \in [Node -> BOOLEAN]
    /\ retransmits \in [Node -> 0 .. MaxConfReqs]
    /\ timer       \in [Node -> BOOLEAN]
    /\ out         \in [Node -> Seq(Packet)]

\* The restart timer runs exactly while the element waits for its peer.  The
\* four assert(timer->scheduled()) of rconfreq(), rconfack() and timeout()
\* are the direction "waiting => scheduled", from whichever state a packet
\* of any kind finds the element in.
TimerArmed ==
    \A n \in Node :
        timer[n] <=> state[n] \in {"STOPPING", "REQSENT", "ACKRCVD", "ACKSENT"}

\* An element that has its request acknowledged has consumed the answer and
\* reloaded its counter: the "restart negotiation" cases of rconfack() and
\* rconfnakrej() are never reached, whatever the peer sends.
AnsweredOnce ==
    \A n \in Node :
        state[n] \in {"ACKRCVD", "OPENED"} =>
            seen_ack[n] /\ retransmits[n] = MaxConfReqs

\* STOPPING is entered with the counter at zero and nothing reloads it there,
\* so the element never sends a Terminate-Request: the retransmission in
\* timeout() is dead and the next expiry always ends in STOPPED.
NeverTermReq ==
    \A n \in Node :
        /\ state[n] = "STOPPING" => retransmits[n] = 0
        /\ \A i \in 1 .. Len(out[n]) : out[n][i].code # "TERMREQ"
=============================================================================
