--------------------- MODULE PPPControlProtocol_proofs ----------------------
(***************************************************************************)
(* The invariants of PPPControlProtocol hold for every number of elements, *)
(* every option negotiation (Addci, Reqci), every restart limit and every  *)
(* id width, against a peer that sends anything.  The last part is about   *)
(* PPPLink, two elements and the tunnel between them.                      *)
(***************************************************************************)
EXTENDS PPPLink, TLAPS

\* TimerArmed, AnsweredOnce and NeverTermReq support each other: the counter
\* is known to be reloaded in OPENED (AnsweredOnce), hence zero in STOPPING
\* only because rtermreq() clears it, hence no Terminate-Request.
Waiting == {"STOPPING", "REQSENT", "ACKRCVD", "ACKSENT"}

\* What the three invariants say of one element.
Good(n) ==
    /\ timer[n] <=> state[n] \in Waiting
    /\ state[n] \in {"ACKRCVD", "OPENED"} =>
            seen_ack[n] /\ retransmits[n] = MaxConfReqs
    /\ state[n] = "STOPPING" => retransmits[n] = 0
    /\ \A i \in 1 .. Len(out[n]) : out[n][i].code # "TERMREQ"

IInv == TypeOK /\ \A n \in Node : Good(n)

\* Every packet an element builds is a packet of the protocol.
LEMMA PacketsWellFormed ==
    ASSUME NEW n \in Node, TypeOK
    PROVE  /\ NextId(n) \in Ids
           /\ \A i \in Ids : ConfReq(n, i) \in Packet
           /\ \A i \in Ids, c \in Verdict \cup {"TERMACK", "PROTREJ", "TERMREQ"} :
                 Reply(c, i) \in Packet
  <1>1. NextId(n) \in Ids
    BY PPPAssumption DEF NextId, Ids, TypeOK
  <1>2. \A i \in Ids : ConfReq(n, i) \in Packet
    BY PPPAssumption DEF ConfReq, Packet, Request
  <1>3. \A i \in Ids, c \in Verdict \cup {"TERMACK", "PROTREJ", "TERMREQ"} :
            Reply(c, i) \in Packet
    BY DEF Reply, Packet, Answer
  <1> QED BY <1>1, <1>2, <1>3


\* Every handler works on its own element and leaves the others alone.
Others(n) ==
    \A m \in Node \ {n} :
        /\ state'[m] = state[m]       /\ timer'[m] = timer[m]
        /\ seen_ack'[m] = seen_ack[m] /\ retransmits'[m] = retransmits[m]
        /\ out'[m] = out[m]

\* An invariant of each element is kept when one element keeps it and the others do nothing.
LEMMA OneElement ==
    ASSUME IInv, NEW n \in Node, TypeOK', Others(n), Good(n)'
    PROVE  IInv'
  <1>1. ASSUME NEW m \in Node \ {n} PROVE Good(m)'
    BY DEF IInv, Good, Others
  <1> QED BY <1>1 DEF IInv

\* A list of packets an element may push: no Terminate-Request among them.
Sendable(s) == s \in Seq(Packet) /\ \A k \in 1 .. Len(s) : s[k].code # "TERMREQ"

\* What a step leaves behind in `out' when it pushes such a list.
Pushed(n) ==
    /\ out' \in [Node -> Seq(Packet)]
    /\ \A m \in Node \ {n} : out'[m] = out[m]
    /\ Sendable(out'[n])

\* Pushing packets that are no Terminate Requests is all that the invariant needs to know.
LEMMA PushEffect ==
    ASSUME NEW n \in Node, TypeOK, NEW s, Sendable(s), Push(n, s)
    PROVE  Pushed(n)
  BY DEF Push, TypeOK, Sendable, Pushed

\* The lists the handlers push are of that kind.
LEMMA PushedLists ==
    ASSUME NEW n \in Node, TypeOK, NEW i \in Ids, NEW j \in Ids,
           NEW c \in Verdict \cup {"TERMACK", "PROTREJ"}
    PROVE  /\ Sendable(<<>>) /\ Sendable(<<Reply(c, i)>>) /\ Sendable(<<ConfReq(n, j)>>)
           /\ Sendable(<<ConfReq(n, j), Reply(c, i)>>)
  <1>1. ASSUME NEW a \in Packet, NEW b \in Packet, a.code # "TERMREQ", b.code # "TERMREQ"
        PROVE  Sendable(<<>>) /\ Sendable(<<a>>) /\ Sendable(<<b, a>>)
    BY <1>1 DEF Sendable
  <1>2. Reply(c, i) \in Packet /\ ConfReq(n, j) \in Packet
    BY PacketsWellFormed
  <1>3. Reply(c, i).code # "TERMREQ" /\ ConfReq(n, j).code # "TERMREQ"
    BY DEF Reply, ConfReq, Verdict
  <1> QED BY <1>1, <1>2, <1>3

\* A new request, or none, keeps the four fields sconfreq() writes typed.
LEMMA RequestTypes ==
    ASSUME NEW n \in Node, TypeOK, NewConfReq(n) \/ NoConfReq
    PROVE  /\ id' \in [Node -> Ids] /\ reqid' \in [Node -> Ids]
           /\ seen_ack' \in [Node -> BOOLEAN] /\ retransmits' \in [Node -> 0 .. MaxConfReqs]
  <1>1. CASE NewConfReq(n)
    <2>1. NextId(n) \in Ids
      BY PacketsWellFormed
    <2>2. id' \in [Node -> Ids] /\ reqid' \in [Node -> Ids]
      BY <1>1, <2>1 DEF TypeOK, NewConfReq
    <2>3. MaxConfReqs - 1 \in 0 .. MaxConfReqs
      BY PPPAssumption
    <2>4. retransmits' \in [Node -> 0 .. MaxConfReqs]
      BY <1>1, <2>3 DEF TypeOK, NewConfReq
    <2>5. seen_ack' \in [Node -> BOOLEAN]
      BY <1>1 DEF TypeOK, NewConfReq
    <2> QED BY <2>2, <2>4, <2>5
  <1>2. CASE NoConfReq
    BY <1>2 DEF TypeOK, NoConfReq
  <1> QED BY <1>1, <1>2

\* rconfreq() keeps the invariant in every state.
LEMMA RconfreqInv ==
    ASSUME IInv, NEW n \in Node, NEW p \in Request, rconfreq(n, p)
    PROVE  IInv'
  <1> DEFINE v == Reqci[n][p.ci]
  <1>1. v \in Verdict /\ p.id \in Ids
    BY PPPAssumption DEF Request
  <1>2. NextId(n) \in Ids /\ TypeOK
    BY PacketsWellFormed DEF IInv
  <1>3. Pushed(n)
    <2>1. Sendable(<<Reply(v, p.id)>>) /\ Sendable(<<ConfReq(n, NextId(n)), Reply(v, p.id)>>)
      BY <1>1, <1>2, PushedLists
    <2> QED BY <1>2, <2>1, PushEffect DEF rconfreq
  <1>4. TypeOK'
    <2>1. state' \in [Node -> States] /\ timer' \in [Node -> BOOLEAN]
      BY <1>2 DEF TypeOK, rconfreq, SetTimer, Become, States
    <2>2. /\ id' \in [Node -> Ids] /\ reqid' \in [Node -> Ids]
          /\ seen_ack' \in [Node -> BOOLEAN] /\ retransmits' \in [Node -> 0 .. MaxConfReqs]
      BY <1>2, RequestTypes DEF rconfreq
    <2> QED BY <1>3, <2>1, <2>2 DEF Pushed, TypeOK
  <1>5. Good(n)'
    <2>1. \A i \in 1 .. Len(out'[n]) : out'[n][i].code # "TERMREQ"
      BY <1>3 DEF Pushed, Sendable
    <2>2. /\ state[n] \in States /\ state'[n] \in States
          /\ timer'[n] = ((timer[n] \/ state[n] \in {"OPENED", "STOPPED"}) /\ ~(v = "CONFACK" /\ state[n] = "ACKRCVD"))
          /\ state'[n] = IF state[n] = "ACKRCVD"
                           THEN IF v = "CONFACK" THEN "OPENED" ELSE "ACKRCVD"
                           ELSE IF v = "CONFACK" THEN "ACKSENT" ELSE "REQSENT"
      BY <1>2, <1>4 DEF TypeOK, rconfreq, SetTimer, Become
    <2>3. state[n] = "ACKRCVD" => seen_ack'[n] = seen_ack[n] /\ retransmits'[n] = retransmits[n]
      BY DEF rconfreq, NoConfReq
    <2>4. timer[n] \in BOOLEAN /\ Good(n)
      BY <1>2 DEF TypeOK, IInv
    <2> HIDE DEF v
    <2>5. timer'[n] <=> state'[n] \in Waiting
      BY <2>2, <2>4 DEF Good, Waiting, States
    <2> QED BY <2>1, <2>2, <2>3, <2>4, <2>5 DEF Good
  <1>6. Others(n)
    BY <1>2, <1>3 DEF Pushed, TypeOK, Others, rconfreq, NewConfReq, NoConfReq, SetTimer, Become
  <1> QED BY <1>4, <1>5, <1>6, OneElement

\* The common ends of rconfack(), rconfnakrej() and rtermack().
LEMMA RestartInv ==
    ASSUME IInv, NEW n \in Node, Renegotiate(n),
           Become(n, "REQSENT") \/ (state[n] \in {"REQSENT", "ACKSENT"} /\ UNCHANGED state)
    PROVE  IInv'
  <1>1. TypeOK /\ NextId(n) \in Ids
    BY PacketsWellFormed DEF IInv
  <1>2. Pushed(n)
    <2>1. Sendable(<<ConfReq(n, NextId(n))>>)
      BY <1>1, PushedLists
    <2> QED BY <1>1, <2>1, PushEffect DEF Renegotiate
  <1>3. TypeOK'
    <2>1. state' \in [Node -> States] /\ timer' \in [Node -> BOOLEAN]
      BY <1>1 DEF TypeOK, Renegotiate, SetTimer, Become, States
    <2> QED BY <1>1, <1>2, <2>1, RequestTypes DEF Pushed, TypeOK, Renegotiate
  <1>4. Good(n)'
    BY <1>1, <1>2
    DEF Pushed, Sendable, TypeOK, Good, Waiting, Renegotiate, NewConfReq, SetTimer, Become
  <1>5. Others(n)
    BY <1>1, <1>2 DEF Pushed, TypeOK, Others, Renegotiate, NewConfReq, SetTimer, Become
  <1> QED BY <1>3, <1>4, <1>5, OneElement

\* A step that pushes a harmless list and otherwise changes seen_ack at most
\* from FALSE to TRUE.
LEMMA MarkOnlyInv ==
    ASSUME IInv, NEW n \in Node, Pushed(n), MarkSeen(n) \/ UNCHANGED seen_ack,
           UNCHANGED <<state, timer, id, reqid, retransmits>>
    PROVE  IInv'
  <1>1. TypeOK'
    BY DEF IInv, TypeOK, Pushed, MarkSeen
  <1>2. Good(n)'
    BY DEF IInv, TypeOK, Pushed, Sendable, MarkSeen, Good
  <1>3. Others(n)
    BY DEF IInv, TypeOK, Pushed, MarkSeen, Others
  <1> QED BY <1>1, <1>2, <1>3, OneElement

\* The acknowledgement of the current request keeps the invariant.
LEMMA AcceptedInv ==
    ASSUME IInv, NEW n \in Node, state[n] \in {"REQSENT", "ACKSENT"}, Accepted(n)
    PROVE  IInv'
  <1>1. TypeOK /\ Sendable(<<>>)
    BY DEF IInv, Sendable
  <1>2. Pushed(n)
    BY <1>1, PushEffect DEF Accepted
  <1>3. TypeOK'
    <2>1. MaxConfReqs \in 0 .. MaxConfReqs
      BY PPPAssumption
    <2>2. retransmits' \in [Node -> 0 .. MaxConfReqs]
      BY <1>1, <2>1 DEF TypeOK, Accepted
    <2> QED
      BY <1>1, <1>2, <2>2 DEF Pushed, TypeOK, Accepted, MarkSeen, Become, SetTimer, States
  <1>4. Good(n)'
    BY <1>1, <1>2
    DEF IInv, Pushed, Sendable, TypeOK, Good, Waiting, Accepted, MarkSeen, SetTimer, Become
  <1>5. Others(n)
    BY <1>1, <1>2 DEF Pushed, TypeOK, Others, Accepted, MarkSeen, SetTimer, Become
  <1> QED BY <1>3, <1>4, <1>5, OneElement

\* A packet that is ignored keeps the invariant.
LEMMA IgnoreInv ==
    ASSUME IInv, NEW n \in Node, NoConfReq, UNCHANGED <<state, timer>>, Push(n, <<>>)
    PROVE  IInv'
  <1>1. TypeOK /\ Sendable(<<>>)
    BY DEF IInv, Sendable
  <1>2. Pushed(n)
    BY <1>1, PushEffect
  <1> QED BY <1>2, MarkOnlyInv DEF NoConfReq

\* rconfack() and rconfnakrej(), the answer case by case.
LEMMA AnswerInv ==
    ASSUME IInv, NEW n \in Node, NEW p \in Answer, rconfack(n, p) \/ rconfnakrej(n, p)
    PROVE  IInv'
  <1>1. TypeOK /\ p.id \in Ids
    BY DEF IInv, Answer
  <1>2. CASE ~Answers(n, p)
    BY <1>2, IgnoreInv DEF rconfack, rconfnakrej, IgnoreAnswer
  <1>3. CASE Answers(n, p) /\ state[n] \in {"STOPPED", "STOPPING"}
    <2>1. MarkSeenOnly(n, <<Reply("TERMACK", p.id)>>) \/ MarkSeenOnly(n, <<>>)
      BY <1>3 DEF rconfack, rconfnakrej, OnAnswer
    <2>2. Sendable(<<>>) /\ Sendable(<<Reply("TERMACK", p.id)>>)
      BY <1>1, PushedLists
    <2>3. Pushed(n)
      BY <1>1, <2>1, <2>2, PushEffect DEF MarkSeenOnly
    <2> QED BY <2>1, <2>3, MarkOnlyInv DEF MarkSeenOnly
  <1>4. CASE Answers(n, p) /\ state[n] \in {"REQSENT", "ACKSENT"}
    <2>1. Accepted(n) \/ (Renegotiate(n) /\ UNCHANGED state)
      BY <1>4 DEF rconfack, rconfnakrej, OnAnswer
    <2> QED BY <1>4, <2>1, AcceptedInv, RestartInv
  <1>5. CASE Answers(n, p) /\ state[n] \in {"ACKRCVD", "OPENED"}
    <2>1. Restart(n)
      BY <1>5 DEF rconfack, rconfnakrej, OnAnswer
    <2> QED BY <2>1, RestartInv DEF Restart
  <1>6. state[n] \in {"STOPPED", "STOPPING", "REQSENT", "ACKSENT", "ACKRCVD", "OPENED"}
    BY <1>1 DEF TypeOK, States
  <1> QED BY <1>2, <1>3, <1>4, <1>5, <1>6

\* rtermreq() keeps the invariant in every state.
LEMMA RtermreqInv ==
    ASSUME IInv, NEW n \in Node, NEW p \in Answer, rtermreq(n, p)
    PROVE  IInv'
  <1>1. TypeOK /\ p.id \in Ids
    BY DEF IInv, Answer
  <1>2. Pushed(n)
    <2>1. Sendable(<<Reply("TERMACK", p.id)>>)
      BY <1>1, PushedLists
    <2> QED BY <1>1, <2>1, PushEffect DEF rtermreq
  <1>3. TypeOK'
    <2>1. 0 \in 0 .. MaxConfReqs
      BY PPPAssumption
    <2>2. retransmits' \in [Node -> 0 .. MaxConfReqs]
      BY <1>1, <2>1 DEF TypeOK, rtermreq
    <2> QED BY <1>1, <1>2, <2>2 DEF Pushed, TypeOK, rtermreq, Become, SetTimer, States
  <1>4. Good(n)'
    BY <1>1, <1>2
    DEF IInv, Pushed, Sendable, TypeOK, Good, Waiting, rtermreq, SetTimer, Become, States
  <1>5. Others(n)
    BY <1>1, <1>2 DEF Pushed, TypeOK, Others, rtermreq, SetTimer, Become
  <1> QED BY <1>3, <1>4, <1>5, OneElement

\* Steps that move the state and the timer only, to a state that is neither
\* ACKRCVD, OPENED nor STOPPING unless it was so before.
LEMMA MoveInv ==
    ASSUME IInv, NEW n \in Node, NEW s \in States, NEW t \in BOOLEAN,
           s = state[n] \/ s \in {"STOPPED", "REQSENT"}, t <=> s \in Waiting,
           Become(n, s), SetTimer(n, t), NoConfReq, Push(n, <<>>)
    PROVE  IInv'
  <1>1. TypeOK /\ Sendable(<<>>)
    BY DEF IInv, Sendable
  <1>2. Pushed(n)
    BY <1>1, PushEffect
  <1>3. TypeOK'
    BY <1>1, <1>2 DEF Pushed, TypeOK, NoConfReq, Become, SetTimer
  <1>4. Good(n)'
    BY <1>1, <1>2
    DEF IInv, Pushed, Sendable, TypeOK, Good, Waiting, NoConfReq, SetTimer, Become
  <1>5. Others(n)
    BY <1>1, <1>2 DEF Pushed, TypeOK, Others, NoConfReq, SetTimer, Become
  <1> QED BY <1>3, <1>4, <1>5, OneElement

\* rtermack() keeps the invariant in every state.
LEMMA RtermackInv ==
    ASSUME IInv, NEW n \in Node, NEW p, rtermack(n, p)
    PROVE  IInv'
  <1>1. TypeOK /\ Good(n)
    BY DEF IInv
  <1>2. CASE state[n] = "OPENED"
    BY <1>2, RestartInv DEF rtermack, Restart
  <1>3. CASE state[n] # "OPENED"
    <2> DEFINE s == CASE state[n] = "STOPPING" -> "STOPPED"
                      [] state[n] = "ACKRCVD"  -> "REQSENT"
                      [] OTHER                 -> state[n]
               t == timer[n] /\ state[n] # "STOPPING"
    <2>1. s \in States /\ (s = state[n] \/ s \in {"STOPPED", "REQSENT"})
      BY <1>1 DEF TypeOK, States
    <2>2. t \in BOOLEAN /\ (t <=> s \in Waiting)
      BY <1>1, <1>3 DEF TypeOK, Good, Waiting, States
    <2>3. Become(n, s) /\ SetTimer(n, t) /\ NoConfReq /\ Push(n, <<>>)
      BY <1>3 DEF rtermack
    <2> HIDE DEF s, t
    <2> QED BY <2>1, <2>2, <2>3, MoveInv
  <1> QED BY <1>2, <1>3

\* rcoderej() keeps the invariant.
LEMMA RcoderejInv ==
    ASSUME IInv, NEW n \in Node, NEW p, rcoderej(n, p)
    PROVE  IInv'
  <1>1. TypeOK /\ Good(n)
    BY DEF IInv
  <1> DEFINE s == IF state[n] = "ACKRCVD" THEN "REQSENT" ELSE state[n]
  <1>2. s \in States /\ (s = state[n] \/ s \in {"STOPPED", "REQSENT"})
    BY <1>1 DEF TypeOK, States
  <1>3. timer[n] \in BOOLEAN /\ (timer[n] <=> s \in Waiting)
    BY <1>1 DEF TypeOK, Good, Waiting, States
  <1>4. Become(n, s) /\ NoConfReq /\ Push(n, <<>>)
    BY DEF rcoderej
  <1>5. SetTimer(n, timer[n])
    BY <1>1 DEF rcoderej, SetTimer, TypeOK
  <1> HIDE DEF s
  <1> QED BY <1>2, <1>3, <1>4, <1>5, MoveInv

\* protreject() keeps the invariant.
LEMMA ProtrejectInv ==
    ASSUME IInv, NEW n \in Node, protreject(n)
    PROVE  IInv'
  <1>1. TypeOK /\ NextId(n) \in Ids
    BY PacketsWellFormed DEF IInv
  <1>2. Pushed(n)
    <2>1. Sendable(<<>>) /\ Sendable(<<Reply("PROTREJ", NextId(n))>>)
      BY <1>1, PushedLists
    <2> QED BY <1>1, <2>1, PushEffect DEF protreject
  <1>3. TypeOK'
    BY <1>1, <1>2 DEF Pushed, TypeOK, protreject
  <1>4. Good(n)'
    BY <1>2 DEF IInv, Pushed, Sendable, Good, protreject
  <1>5. Others(n)
    BY <1>2 DEF Pushed, Others, protreject
  <1> QED BY <1>3, <1>4, <1>5, OneElement

\* timeout(): NeverTermReq is what excludes the branch that sends one, and
\* TimerArmed the states in which the timer would fire for nothing.
LEMMA TimeoutInv ==
    ASSUME IInv, NEW n \in Node, timeout(n)
    PROVE  IInv'
  <1>1. TypeOK /\ Good(n) /\ timer[n]
    BY DEF IInv, timeout
  <1>2. state[n] \in Waiting
    BY <1>1 DEF Good
  <1>3. GiveUp(n) \/ (Resend(n) /\ retransmits[n] > 0 /\ state[n] \in {"REQSENT", "ACKRCVD", "ACKSENT"})
    <2>1. CASE state[n] = "STOPPING"
      BY <1>1, <2>1 DEF timeout, Good
    <2>2. CASE state[n] \in {"REQSENT", "ACKRCVD", "ACKSENT"}
      <3>1. retransmits[n] \in Int
        BY <1>1, PPPAssumption DEF TypeOK
      <3>2. IF retransmits[n] <= 0 THEN GiveUp(n) ELSE Resend(n)
        BY <2>2 DEF timeout
      <3> QED BY <2>2, <3>1, <3>2
    <2> QED BY <1>2, <2>1, <2>2 DEF Waiting
  <1>4. CASE GiveUp(n)
    BY <1>4, MoveInv DEF GiveUp, States, Waiting
  <1>5. CASE Resend(n) /\ retransmits[n] > 0 /\ state[n] \in {"REQSENT", "ACKRCVD", "ACKSENT"}
    <2>1. Pushed(n)
      <3>1. reqid[n] \in Ids
        BY <1>1 DEF TypeOK
      <3>2. Sendable(<<ConfReq(n, reqid[n])>>)
        BY <1>1, <3>1, PushedLists
      <3> QED BY <1>1, <1>5, <3>2, PushEffect DEF Resend
    <2>2. TypeOK'
      <3>1. retransmits[n] - 1 \in 0 .. MaxConfReqs
        BY <1>1, <1>5, PPPAssumption DEF TypeOK
      <3>2. retransmits' \in [Node -> 0 .. MaxConfReqs]
        BY <1>1, <1>5, <3>1 DEF TypeOK, Resend, ResendConfReq
      <3> QED
        BY <1>1, <1>5, <2>1, <3>2 DEF Pushed, TypeOK, Resend, ResendConfReq, Become, States
    <2>3. Good(n)'
      BY <1>1, <1>5, <2>1
      DEF Pushed, Sendable, TypeOK, Good, Waiting, Resend, ResendConfReq, Become
    <2>4. Others(n)
      BY <1>1, <1>5, <2>1 DEF Pushed, TypeOK, Others, Resend, ResendConfReq, Become
    <2> QED BY <2>2, <2>3, <2>4, OneElement
  <1> QED BY <1>3, <1>4, <1>5

-----------------------------------------------------------------------------
\* simple_action(), the packet code by code.
LEMMA PacketInv ==
    ASSUME IInv, NEW n \in Node, NEW p \in Packet, simple_action(n, p)
    PROVE  IInv'
  <1>1. CASE p.code = "CONFREQ" /\ rconfreq(n, p)
    <2>1. p \in Request
      BY <1>1 DEF Packet, Answer, Verdict
    <2> QED BY <1>1, <2>1, RconfreqInv
  <1>2. p.code # "CONFREQ" => p \in Answer
    BY DEF Packet, Request
  <1> QED
    BY <1>1, <1>2, AnswerInv, RtermreqInv, RtermackInv, RcoderejInv, IgnoreInv
    DEF simple_action, unhandled

\* The elements start within the invariant.
LEMMA InitInv == ASSUME Init PROVE IInv
  <1>1. 0 \in Ids /\ MaxConfReqs \in 0 .. MaxConfReqs /\ "STOPPED" \in States
    BY PPPAssumption DEF Ids, States
  <1>2. TypeOK
    BY <1>1 DEF Init, TypeOK
  <1>3. \A n \in Node : Good(n)
    <2> SUFFICES ASSUME NEW n \in Node PROVE Good(n)
      OBVIOUS
    <2>1. state[n] = "STOPPED" /\ timer[n] = FALSE /\ out[n] = <<>>
      BY DEF Init
    <2> QED BY <2>1 DEF Good, Waiting
  <1> QED BY <1>2, <1>3 DEF IInv

\* The invariant is inductive.
THEOREM Invariance == Spec => []IInv
  <1>1. Init => IInv
    BY InitInv
  <1>2. IInv /\ [Next]_vars => IInv'
    <2> SUFFICES ASSUME IInv, [Next]_vars PROVE IInv'
      OBVIOUS
    <2>1. ASSUME NEW n \in Node, NEW p \in Packet, simple_action(n, p)
          PROVE  IInv'
      BY <2>1, PacketInv
    <2>2. ASSUME NEW n \in Node, protreject(n) \/ timeout(n)
          PROVE  IInv'
      BY <2>2, ProtrejectInv, TimeoutInv
    <2>3. CASE UNCHANGED vars
      BY <2>3 DEF vars, IInv, TypeOK, Good
    <2> QED BY <2>1, <2>2, <2>3 DEF Next, Step
  <1> QED BY <1>1, <1>2, PTL DEF Spec

\* The fields keep their types: the restart counter never underflows.
THEOREM TypeCorrect == Spec => []TypeOK
  <1>1. IInv => TypeOK
    BY DEF IInv
  <1> QED BY <1>1, Invariance, PTL

\* No assert(timer->scheduled()) fails, and no timer runs in a final state.
THEOREM TimerArmedAlways == Spec => []TimerArmed
  <1>1. IInv => TimerArmed
    BY DEF IInv, Good, TimerArmed, Waiting
  <1> QED BY <1>1, Invariance, PTL

\* rconfack() and rconfnakrej() never restart a finished negotiation.
THEOREM AnsweredOnceAlways == Spec => []AnsweredOnce
  <1>1. IInv => AnsweredOnce
    BY DEF IInv, Good, AnsweredOnce
  <1> QED BY <1>1, Invariance, PTL

\* The Terminate-Request branch of timeout() is dead.
THEOREM NeverTermReqAlways == Spec => []NeverTermReq
  <1>1. IInv => NeverTermReq
    BY DEF IInv, Good, NeverTermReq
  <1> QED BY <1>1, Invariance, PTL

-----------------------------------------------------------------------------
(***************************************************************************)
(* PPPLink: two elements and the tunnel between them.                      *)
(***************************************************************************)
Agreeing == {"ACKRCVD", "OPENED"}

\* Every acknowledgement on its way was given, and whoever holds one for its
\* outstanding request holds it from its peer.
Given(n) ==
    /\ \A i \in 1 .. Len(chan[n]) :
          chan[n][i].code = "CONFACK" => chan[n][i].id \in acked[Peer(n)]
    /\ state[n] \in Agreeing => reqid[n] \in acked[Peer(n)]

LinkInv ==
    /\ IInv
    /\ chan \in [Node -> Seq(Packet)]
    /\ acked \in [Node -> SUBSET Ids]
    /\ \A n \in Node : Given(n)

\* A link has two ends.
LEMMA TwoEnds ==
    ASSUME NEW n \in Node
    PROVE  /\ Peer(n) \in Node /\ Peer(n) # n
           /\ \A m \in Node : m = n \/ m = Peer(n)
           /\ Peer(Peer(n)) = n
  <1>1. PICK a, b \in Node : a # b /\ Node = {a, b}
    BY LinkAssumption
  <1>2. \A m \in Node : \E k \in Node : k # m
    BY <1>1
  <1>3. \A m \in Node : Peer(m) \in Node /\ Peer(m) # m
    BY <1>2 DEF Peer
  <1>4. \A m \in Node : m = n \/ m = Peer(n)
    BY <1>1, <1>3
  <1> QED BY <1>3, <1>4

\* What a handler leaves behind: the outstanding request of an element that
\* has it acknowledged is the one it had, and the acknowledgement is either
\* an old one or packet p, read in this step.
Keeps(n) ==
    /\ \A m \in Node \ {n} : state'[m] = state[m] /\ reqid'[m] = reqid[m]
    /\ out'[n] \in Seq(Packet)

Earned(n, p) ==
    state'[n] \in Agreeing =>
        /\ reqid'[n] = reqid[n]
        /\ \/ state[n] \in Agreeing
           \/ p.code = "CONFACK" /\ p.id = reqid[n]

\* A timer or a request of the user earns nothing, and acknowledges nothing.
Acks(n) == \E i \in 1 .. Len(out'[n]) : out'[n][i].code = "CONFACK"

\* A start or restart makes no element OPENED.
LEMMA RestartEarns ==
    ASSUME IInv, IInv', NEW n \in Node, Restart(n)
    PROVE  Keeps(n) /\ state'[n] \notin Agreeing /\ ~Acks(n)
  <1>1. out'[n] = <<ConfReq(n, NextId(n))>> /\ out'[n] \in Seq(Packet)
    BY DEF IInv, TypeOK, Restart, Renegotiate, Push
  <1>2. ~Acks(n)
    BY <1>1 DEF Acks, ConfReq
  <1>3. state'[n] \notin Agreeing
    BY DEF IInv, TypeOK, Restart, Become, Agreeing
  <1>4. \A m \in Node \ {n} : state'[m] = state[m] /\ reqid'[m] = reqid[m]
    BY DEF IInv, TypeOK, Restart, Renegotiate, NewConfReq, Become
  <1> QED BY <1>1, <1>2, <1>3, <1>4 DEF Keeps

\* A timeout makes no element OPENED.
LEMMA TimeoutEarns ==
    ASSUME IInv, IInv', NEW n \in Node, timeout(n)
    PROVE  Keeps(n) /\ state'[n] \notin Agreeing /\ ~Acks(n)
  <1>1. TypeOK /\ Good(n) /\ timer[n] /\ TypeOK'
    BY DEF IInv, timeout
  <1>2. state[n] \in Waiting
    BY <1>1 DEF Good
  <1>3. GiveUp(n) \/ (Resend(n) /\ state[n] \in {"REQSENT", "ACKRCVD", "ACKSENT"})
    <2>1. CASE state[n] = "STOPPING"
      BY <1>1, <2>1 DEF timeout, Good
    <2>2. CASE state[n] \in {"REQSENT", "ACKRCVD", "ACKSENT"}
      BY <2>2 DEF timeout
    <2> QED BY <1>2, <2>1, <2>2 DEF Waiting
  <1>4. out'[n] \in Seq(Packet)
    BY <1>1 DEF TypeOK
  <1>5. out'[n] = <<>> \/ out'[n] = <<ConfReq(n, reqid[n])>>
    BY <1>1, <1>3 DEF TypeOK, GiveUp, Resend, Push
  <1>6. ~Acks(n)
    BY <1>5 DEF Acks, ConfReq
  <1>7. state'[n] \notin Agreeing
    BY <1>1, <1>3 DEF TypeOK, GiveUp, Resend, Become, Agreeing
  <1>8. \A m \in Node \ {n} : state'[m] = state[m] /\ reqid'[m] = reqid[m]
    BY <1>1, <1>3 DEF TypeOK, GiveUp, Resend, ResendConfReq, NoConfReq, Become
  <1> QED BY <1>4, <1>6, <1>7, <1>8 DEF Keeps

\* A packet makes an element OPENED only by an acknowledgement of its current request.
LEMMA PacketEarns ==
    ASSUME IInv, IInv', NEW n \in Node, NEW p \in Packet, simple_action(n, p)
    PROVE  Keeps(n) /\ Earned(n, p)
  <1>1. TypeOK /\ TypeOK' /\ Good(n)
    BY DEF IInv
  <1>2. out'[n] \in Seq(Packet) /\ state[n] \in States
    BY <1>1 DEF TypeOK
  <1>3. CASE rconfreq(n, p)
    <2>1. \A m \in Node \ {n} : state'[m] = state[m] /\ reqid'[m] = reqid[m]
      BY <1>1, <1>3, SMTT(30) DEF TypeOK, rconfreq, NewConfReq, NoConfReq, Become
    <2>2. Earned(n, p)
      BY <1>1, <1>3 DEF TypeOK, rconfreq, NewConfReq, NoConfReq, Become, Earned, Agreeing
    <2> QED BY <1>2, <2>1, <2>2 DEF Keeps
  <1>4. CASE Restart(n)
    BY <1>4, RestartEarns DEF Earned
  <1>5. CASE Renegotiate(n) /\ UNCHANGED state /\ state[n] \in {"REQSENT", "ACKSENT"}
    <2>1. \A m \in Node \ {n} : state'[m] = state[m] /\ reqid'[m] = reqid[m]
      BY <1>1, <1>5 DEF TypeOK, Renegotiate, NewConfReq
    <2> QED BY <1>2, <1>5, <2>1 DEF Keeps, Earned, Agreeing
  <1>6. CASE UNCHANGED <<state, reqid>>
    BY <1>2, <1>6 DEF Keeps, Earned
  <1>7. CASE Answers(n, p) /\ p.code = "CONFACK" /\ Accepted(n)
    <2>1. \A m \in Node \ {n} : state'[m] = state[m] /\ reqid'[m] = reqid[m]
      BY <1>1, <1>7 DEF TypeOK, Accepted, Become
    <2> QED BY <1>2, <1>7, <2>1 DEF Keeps, Earned, Answers, Accepted
  <1>8. CASE (rconfack(n, p) /\ p.code = "CONFACK") \/ rconfnakrej(n, p)
    <2>1. CASE ~Answers(n, p)
      BY <1>6, <1>8, <2>1 DEF rconfack, rconfnakrej, IgnoreAnswer, NoConfReq
    <2>2. CASE Answers(n, p) /\ state[n] \in {"STOPPED", "STOPPING"}
      BY <1>6, <1>8, <2>2 DEF rconfack, rconfnakrej, OnAnswer, MarkSeenOnly
    <2>3. CASE Answers(n, p) /\ state[n] \in {"REQSENT", "ACKSENT"}
      BY <1>5, <1>7, <1>8, <2>3 DEF rconfack, rconfnakrej, OnAnswer
    <2>4. CASE Answers(n, p) /\ state[n] \in {"ACKRCVD", "OPENED"}
      BY <1>4, <1>8, <2>4 DEF rconfack, rconfnakrej, OnAnswer
    <2> QED BY <1>2, <2>1, <2>2, <2>3, <2>4 DEF States
  <1>9. CASE rtermreq(n, p)
    <2>1. \A m \in Node \ {n} : state'[m] = state[m] /\ reqid'[m] = reqid[m]
      BY <1>1, <1>9 DEF TypeOK, rtermreq, Become
    <2>2. Earned(n, p)
      BY <1>1, <1>9 DEF TypeOK, rtermreq, Become, Earned, Agreeing
    <2> QED BY <1>2, <2>1, <2>2 DEF Keeps
  <1>10. CASE rtermack(n, p) \/ rcoderej(n, p)
    <2>1. CASE Restart(n)
      BY <1>4, <2>1
    <2>2. CASE ~Restart(n)
      <3>1. \A m \in Node \ {n} : state'[m] = state[m] /\ reqid'[m] = reqid[m]
        BY <1>1, <1>10, <2>2 DEF TypeOK, rtermack, rcoderej, NoConfReq, Become
      <3>2. Earned(n, p)
        BY <1>1, <1>10, <2>2 DEF TypeOK, rtermack, rcoderej, NoConfReq, Become, Earned, Agreeing
      <3> QED BY <1>2, <3>1, <3>2 DEF Keeps
    <2> QED BY <2>1, <2>2
  <1>11. CASE unhandled(n, p)
    BY <1>6, <1>11 DEF unhandled, NoConfReq
  <1> QED BY <1>3, <1>8, <1>9, <1>10, <1>11 DEF simple_action

\* The packets of a channel from which one is taken, or to which some are
\* added, are the ones it had and the ones added.
LEMMA Rest ==
    ASSUME NEW S, NEW s \in Seq(S), NEW i \in 1 .. Len(s)
    PROVE  /\ RemoveAt(s, i) \in Seq(S)
           /\ \A j \in 1 .. Len(RemoveAt(s, i)) :
                 \E k \in 1 .. Len(s) : RemoveAt(s, i)[j] = s[k]
  <1> DEFINE a == SubSeq(s, 1, i - 1)
             b == SubSeq(s, i + 1, Len(s))
  <1>0. Len(s) \in Nat /\ \A k \in 1 .. Len(s) : s[k] \in S
    OBVIOUS
  <1>1. a \in Seq(S) /\ Len(a) = i - 1 /\ \A j \in 1 .. i - 1 : a[j] = s[j]
    BY <1>0
  <1>2. b \in Seq(S) /\ Len(b) = Len(s) - i /\ \A j \in 1 .. Len(s) - i : b[j] = s[i + j]
    BY <1>0
  <1>3. RemoveAt(s, i) = a \o b
    BY DEF RemoveAt
  <1> HIDE DEF a, b
  <1>4. a \o b \in Seq(S) /\ Len(a \o b) = Len(a) + Len(b)
    <2>1. a \in Seq(S) /\ b \in Seq(S)
      BY <1>1, <1>2
    <2> QED BY <2>1
  <1>5. ASSUME NEW j \in 1 .. Len(a \o b)
        PROVE  \E k \in 1 .. Len(s) : (a \o b)[j] = s[k]
    <2>1. CASE j <= Len(a)
      <3>1. (a \o b)[j] = a[j]
        BY <1>1, <1>2, <1>4, <2>1
      <3>2. j \in 1 .. i - 1 /\ j \in 1 .. Len(s)
        BY <1>0, <1>1, <1>4, <2>1
      <3> QED BY <1>1, <3>1, <3>2
    <2>2. CASE j > Len(a)
      <3>1. (a \o b)[j] = b[j - Len(a)]
        BY <1>1, <1>2, <1>4, <2>2, SMTT(30)
      <3>2. j - Len(a) \in 1 .. Len(s) - i /\ i + (j - Len(a)) \in 1 .. Len(s)
        BY <1>0, <1>1, <1>2, <1>4, <2>2
      <3> QED BY <1>2, <3>1, <3>2
    <2> QED BY <1>0, <1>1, <1>2, <1>4, <2>1, <2>2
  <1> QED BY <1>3, <1>4, <1>5

\* One of n's steps keeps the invariant: n reads some of its packets, its
\* peer gets what n pushed, and what n acknowledged is recorded.
LEMMA LinkStep ==
    ASSUME LinkInv, IInv', NEW n \in Node, Keeps(n), NEW rest \in Seq(Packet), Carry(n, rest),
           \A j \in 1 .. Len(rest) : \E k \in 1 .. Len(chan[n]) : rest[j] = chan[n][k],
           acked' \in [Node -> SUBSET Ids], \A m \in Node : acked[m] \subseteq acked'[m],
           \A j \in 1 .. Len(out'[n]) :
               out'[n][j].code = "CONFACK" => out'[n][j].id \in acked'[n],
           state'[n] \in Agreeing => reqid'[n] \in acked[Peer(n)]
    PROVE  LinkInv'
  <1> DEFINE m == Peer(n)
  <1>1. m \in Node /\ m # n /\ Peer(m) = n /\ \A k \in Node : k = n \/ k = m
    BY TwoEnds
  <1>2. chan \in [Node -> Seq(Packet)] /\ Given(n) /\ Given(m)
    BY <1>1 DEF LinkInv
  <1>3. chan[m] \in Seq(Packet) /\ out'[n] \in Seq(Packet)
    BY <1>1, <1>2 DEF Keeps
  <1>4. chan' = [chan EXCEPT ![n] = rest, ![m] = chan[m] \o out'[n]]
    BY <1>1, <1>2 DEF Carry
  <1>5. chan[m] \o out'[n] \in Seq(Packet) /\ Len(chan[m] \o out'[n]) = Len(chan[m]) + Len(out'[n])
    BY <1>3
  <1>6. chan' \in [Node -> Seq(Packet)] /\ chan'[n] = rest /\ chan'[m] = chan[m] \o out'[n]
    BY <1>1, <1>2, <1>4, <1>5
  <1>7. Given(n)'
    <2>1. acked[m] \subseteq acked'[m]
      BY <1>1
    <2>2. \A i \in 1 .. Len(chan'[n]) :
             chan'[n][i].code = "CONFACK" => chan'[n][i].id \in acked'[m]
      BY <1>2, <1>6, <2>1, SMTT(30) DEF Given
    <2> QED BY <2>1, <2>2 DEF Given
  <1>8. Given(m)'
    <2>1. acked[n] \subseteq acked'[n]
      OBVIOUS
    <2>2. ASSUME NEW i \in 1 .. Len(chan'[m]), chan'[m][i].code = "CONFACK"
          PROVE  chan'[m][i].id \in acked'[n]
      <3>1. CASE i <= Len(chan[m])
        <4>1. chan'[m][i] = chan[m][i] /\ i \in 1 .. Len(chan[m])
          BY <1>3, <1>5, <1>6, <3>1
        <4> QED BY <1>1, <1>2, <2>1, <2>2, <4>1 DEF Given
      <3>2. CASE i > Len(chan[m])
        <4>1. chan'[m][i] = out'[n][i - Len(chan[m])] /\ i - Len(chan[m]) \in 1 .. Len(out'[n])
          <5> DEFINE a == chan[m]
                     b == out'[n]
          <5>1. a \in Seq(Packet) /\ b \in Seq(Packet)
            BY <1>3
          <5>2. i \in 1 .. Len(a \o b) /\ i > Len(a)
            BY <1>6, <3>2
          <5> HIDE DEF a, b
          <5>3. (a \o b)[i] = b[i - Len(a)] /\ i - Len(a) \in 1 .. Len(b)
            BY <5>1, <5>2
          <5> QED BY <1>6, <5>3 DEF a, b
        <4> QED BY <2>2, <4>1
      <3> QED BY <1>3, <1>5, <1>6, <3>1, <3>2
    <2>3. state'[m] = state[m] /\ reqid'[m] = reqid[m]
      BY <1>1 DEF Keeps
    <2> QED BY <1>1, <1>2, <2>1, <2>2, <2>3 DEF Given
  <1>9. \A k \in Node : Given(k)'
    BY <1>1, <1>7, <1>8
  <1> QED BY <1>6, <1>9 DEF LinkInv

\* Every step of the link keeps the invariant.
LEMMA LinkNextInv ==
    ASSUME LinkInv, [LinkNext]_allVars
    PROVE  LinkInv'
  <1>1. /\ IInv /\ chan \in [Node -> Seq(Packet)] /\ acked \in [Node -> SUBSET Ids]
        /\ \A n \in Node : Given(n)
    BY DEF LinkInv
  <1>2. ASSUME NEW n \in Node, Open(n) \/ Expire(n) PROVE LinkInv'
    <2>1. IInv' /\ Keeps(n) /\ state'[n] \notin Agreeing /\ ~Acks(n)
      BY <1>1, <1>2, RestartInv, TimeoutInv, RestartEarns, TimeoutEarns DEF Open, Expire, Restart
    <2>2. Carry(n, chan[n]) /\ acked' = acked
      BY <1>2 DEF Open, Expire
    <2>3. chan[n] \in Seq(Packet)
      BY <1>1
    <2> QED BY <1>1, <2>1, <2>2, <2>3, LinkStep DEF Acks
  <1>3. ASSUME NEW n \in Node, Deliver(n) PROVE LinkInv'
    <2>1. PICK i \in 1 .. Len(chan[n]) :
              simple_action(n, chan[n][i]) /\ Carry(n, RemoveAt(chan[n], i)) /\ Record(n)
      BY <1>3 DEF Deliver
    <2> DEFINE p == chan[n][i]
               rest == RemoveAt(chan[n], i)
               new == {out'[n][k].id : k \in {j \in 1 .. Len(out'[n]) :
                                                out'[n][j].code = "CONFACK"}}
    <2>2. chan[n] \in Seq(Packet)
      BY <1>1
    <2>3. p \in Packet
      BY <2>2
    <2>4. rest \in Seq(Packet) /\ \A j \in 1 .. Len(rest) : \E k \in 1 .. Len(chan[n]) : rest[j] = chan[n][k]
      BY <2>2, Rest
    <2>5. IInv'
      BY <1>1, <2>1, <2>3, PacketInv
    <2>6. Keeps(n) /\ Earned(n, p)
      BY <1>1, <2>1, <2>3, <2>5, PacketEarns
    <2>7. acked' = [acked EXCEPT ![n] = acked[n] \cup new]
      BY <1>1, <2>1 DEF Record
    <2>8. new \subseteq Ids
      <3> SUFFICES ASSUME NEW k \in 1 .. Len(out'[n]) PROVE out'[n][k].id \in Ids
        OBVIOUS
      <3>1. out'[n][k] \in Packet
        BY <2>6 DEF Keeps
      <3> QED BY <3>1 DEF Packet, Request, Answer
    <2>9. \A j \in 1 .. Len(out'[n]) : out'[n][j].code = "CONFACK" => out'[n][j].id \in new
      OBVIOUS
    <2>10. Carry(n, rest)
      BY <2>1
    <2>11. state'[n] \in Agreeing => reqid'[n] \in acked[Peer(n)]
      <3>1. Given(n)
        BY <1>1
      <3> QED BY <2>6, <3>1 DEF Earned, Given
    <2> HIDE DEF rest, new
    <2>12. acked' \in [Node -> SUBSET Ids] /\ (\A m \in Node : acked[m] \subseteq acked'[m])
           /\ new \subseteq acked'[n]
      BY <1>1, <2>7, <2>8
    <2> QED BY <2>4, <2>5, <2>6, <2>9, <2>10, <2>11, <2>12, LinkStep
  <1>4. ASSUME NEW n \in Node, Lose(n) PROVE LinkInv'
    <2>1. PICK i \in 1 .. Len(chan[n]) : chan' = [chan EXCEPT ![n] = RemoveAt(chan[n], i)]
      BY <1>1, <1>4 DEF Lose
    <2> DEFINE rest == RemoveAt(chan[n], i)
    <2>2. rest \in Seq(Packet) /\ \A j \in 1 .. Len(rest) : \E k \in 1 .. Len(chan[n]) : rest[j] = chan[n][k]
      <3>1. chan[n] \in Seq(Packet)
        BY <1>1
      <3> QED BY <3>1, Rest
    <2> HIDE DEF rest
    <2>3. chan' \in [Node -> Seq(Packet)] /\ chan'[n] = rest /\ \A m \in Node \ {n} : chan'[m] = chan[m]
      BY <1>1, <2>1, <2>2 DEF rest
    <2>4. UNCHANGED <<vars, acked>>
      BY <1>4 DEF Lose
    <2>5. IInv'
      BY <1>1, <2>4 DEF vars, IInv, TypeOK, Good
    <2>6. ASSUME NEW m \in Node PROVE Given(m)'
      <3>1. Given(m) /\ state' = state /\ reqid' = reqid /\ acked' = acked
        BY <1>1, <2>4 DEF vars
      <3>2. CASE m = n
        BY <2>2, <2>3, <3>1, <3>2 DEF Given
      <3>3. CASE m # n
        <4>1. chan'[m] = chan[m]
          BY <2>3, <3>3
        <4> QED BY <3>1, <4>1 DEF Given
      <3> QED BY <3>2, <3>3
    <2> QED BY <1>1, <2>3, <2>4, <2>5, <2>6 DEF LinkInv
  <1>5. CASE UNCHANGED allVars
    BY <1>1, <1>5 DEF allVars, linkVars, vars, LinkInv, IInv, TypeOK, Good, Given
  <1> QED BY <1>2, <1>3, <1>4, <1>5 DEF LinkNext

\* An element is OPENED only on an acknowledgement that its peer gave to the
\* request it has outstanding, however many packets the tunnel loses or lets
\* overtake each other and whenever the timers fire: rconfack() takes an
\* answer by its id and once, and sconfreq() and rtermreq() leave OPENED.
THEOREM OpenedIsAgreedAlways == LinkSpec => []OpenedIsAgreed
  <1>1. LinkInit => LinkInv
    <2> SUFFICES ASSUME LinkInit PROVE LinkInv
      OBVIOUS
    <2>1. IInv
      BY InitInv DEF LinkInit
    <2>2. ASSUME NEW n \in Node PROVE Given(n)
      <3>1. chan[n] = <<>> /\ state[n] = "STOPPED"
        BY DEF LinkInit, Init
      <3> QED BY <3>1 DEF Given, Agreeing
    <2>3. chan \in [Node -> Seq(Packet)] /\ acked \in [Node -> SUBSET Ids]
      BY DEF LinkInit
    <2> QED BY <2>1, <2>2, <2>3 DEF LinkInv
  <1>2. LinkInv /\ [LinkNext]_allVars => LinkInv'
    BY LinkNextInv
  <1>3. LinkInv => OpenedIsAgreed
    BY DEF LinkInv, Given, OpenedIsAgreed, Agreeing
  <1> QED BY <1>1, <1>2, <1>3, PTL DEF LinkSpec
=============================================================================
