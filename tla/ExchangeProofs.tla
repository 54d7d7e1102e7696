--------------------------- MODULE ExchangeProofs ---------------------------
(***************************************************************************)
(* A request is carried out at most once, for any number of commands,       *)
(* transmissions, faults and cache expiries, and any receiver limit; and    *)
(* the runners at work are those of the queries whose results are there.    *)
(***************************************************************************)
EXTENDS Exchange, DeliveryOpsProofs

\* Whatever was carried out is remembered by the receiver, below its mark or
\* above it; that is what makes CarriedOutOnce inductive.
IInv ==
    /\ ReceiverOK(receiver)
    /\ effects = [c \in Commands |-> effects[c]]
    /\ \A c \in Commands :
        effects[c] # {} => c <= receiver.contiguous \/ c \in receiver.above
    /\ CarriedOutOnce

\* Nothing is carried out at first.
LEMMA InitIInv == Init => IInv
<1> SUFFICES ASSUME Init PROVE IInv
  OBVIOUS
<1>1. ReceiverOK(receiver)
  BY FS_EmptySet, MaxOutOfOrderAssumption DEF Init, NewReceiver, ReceiverOK
<1>2. CarriedOutOnce
  BY FS_EmptySet DEF Init, CarriedOutOnce
<1> QED BY <1>1, <1>2 DEF Init, IInv

\* A request arrives: it is carried out only if the receiver had not seen it.
LEMMA ArriveIInv ==
    ASSUME IInv, NEW c \in Commands, Arrive(c)
    PROVE  IInv'
<1> DEFINE r == receiver
           q == MarkReceived(r, c)
<1>1. c \in Nat /\ Commands \subseteq Nat
  BY CommandsAssumption DEF Commands
<1>2. receiver' = q
  BY DEF Arrive
<1>3. ReceiverOK(r) /\ r.contiguous \in Nat
  BY DEF IInv, ReceiverOK
<1>4. /\ ReceiverOK(q) /\ q.contiguous \in Nat /\ q.contiguous >= r.contiguous
      /\ \A s \in r.above \cup {c} : s <= q.contiguous \/ s \in q.above
  <2>1. ReceiverOK(q)
    BY <1>1, <1>3, MarkReceivedSpec
  <2>2. q.contiguous \in Nat
    BY <2>1 DEF ReceiverOK
  <2> QED BY <1>1, <1>3, <2>1, <2>2, MarkReceivedSpec
<1>5. CASE UNCHANGED effects
  <2>1. \A d \in Commands :
            effects[d] # {} => d <= q.contiguous \/ d \in q.above
    BY <1>1, <1>3, <1>4 DEF IInv
  <2> QED BY <1>2, <1>4, <1>5, <2>1 DEF IInv, CarriedOutOnce
<1>6. CASE Handle(c)
  <2>1. effects[c] = {}
    BY <1>6 DEF Handle, IsRepeat, IsDuplicate, IInv
  <2>2. PICK id : effects' = [effects EXCEPT ![c] = {id}]
    BY <1>6, <2>1 DEF Handle
  <2>3. effects' = [d \in Commands |-> effects'[d]]
    BY <2>2 DEF IInv
  <2>4. CarriedOutOnce'
    <3>1. IsFiniteSet({id}) /\ Cardinality({id}) = 1
      BY FS_Singleton
    <3>2. \A d \in Commands :
              effects'[d] = {id} \/ effects'[d] = effects[d]
      BY <2>2 DEF IInv
    <3> QED BY <3>1, <3>2 DEF IInv, CarriedOutOnce
  <2>5. \A d \in Commands :
            effects'[d] # {} => d <= q.contiguous \/ d \in q.above
    BY <1>1, <1>3, <1>4, <2>2 DEF IInv
  <2> QED BY <1>2, <1>4, <2>3, <2>4, <2>5 DEF IInv
<1> QED BY <1>5, <1>6 DEF Arrive, Repeated

\* IInv is inductive: no other step touches the receiver or the effects.
LEMMA NextIInv == IInv /\ [Next]_vars => IInv'
<1> SUFFICES ASSUME IInv, [Next]_vars PROVE IInv'
  OBVIOUS
<1>1. ASSUME NEW c \in Commands, Arrive(c) PROVE IInv'
  BY <1>1, ArriveIInv
<1>2. CASE UNCHANGED <<receiver, effects>>
  BY <1>2 DEF IInv, ReceiverOK, CarriedOutOnce
<1>3. (\E c \in Commands : Arrive(c)) \/ UNCHANGED <<receiver, effects>>
  BY DEF Next, Call, Retransmit, HandleAck, Take, Close, Timeout, ConnectionClosed, GiveUp,
         Deliver, LoseRequest, LoseResponse, Disconnect, Respond, Push, Expire,
         End, vars, session
<1> QED BY <1>1, <1>2, <1>3

\* However often a Create or a Query is retransmitted, in whatever order its
\* copies arrive and whether or not its answer is still cached, the server
\* carries it out at most once.
THEOREM RequestCarriedOutOnce == Spec => []CarriedOutOnce
<1>1. IInv => CarriedOutOnce
  BY DEF IInv
<1> QED BY <1>1, InitIInv, NextIInv, PTL DEF Spec
-----------------------------------------------------------------------------
\* The session's maps hold exactly the recurring queries that have a results
\* node: what reapCancelledQueries looks through misses nothing.
Runners ==
    /\ active = results \cap Recurring
    /\ RunnersMatchResults

\* The kind of a command never changes.
LEMMA ScriptStays == [Next]_vars => script' = script
  BY DEF Next, Call, Retransmit, HandleAck, Take, Close, Timeout, ConnectionClosed, GiveUp,
         Deliver, LoseRequest, LoseResponse, Disconnect, Arrive, Respond, Push,
         Expire, End, vars

\* A request that is handled was not handled before.
LEMMA HandledIsNew ==
    ASSUME IInv, NEW c \in Commands, Handle(c)
    PROVE  /\ effects[c] = {}
           /\ \A d \in Commands \ {c} : effects'[d] = effects[d]
  BY DEF IInv, Handle, IsRepeat, IsDuplicate

\* A request arrives: a Query adds its results node and its runner, a Delete
\* takes the nodes away and stops the runners that had one.
LEMMA ArriveRunners ==
    ASSUME IInv, Runners, NEW c \in Commands, Arrive(c), script' = script
    PROVE  Runners'
<1>1. up /\ up'
  BY DEF Arrive
<1>2. Recurring' = Recurring /\ Recurring \subseteq Queries /\ Queries \subseteq Commands
  BY DEF Recurring, Queries
<1>3. CASE UNCHANGED <<effects, runners>>
  BY <1>1, <1>2, <1>3 DEF Runners, RunnersMatchResults, runners
<1>4. ASSUME Handle(c), c \in Queries, Register(c) PROVE Runners'
  <2>1. active' = results' \cap Recurring'
    BY <1>2, <1>4 DEF Runners, Register
  <2>2. ASSUME NEW q \in Recurring, effects'[q] # {}
        PROVE  q \notin stopped' <=> q \in results'
    <3>1. CASE q = c
      BY <1>4, <3>1 DEF Register
    <3>2. CASE q # c
      <4>1. effects[q] # {}
        BY <1>2, <1>4, <2>2, <3>2, HandledIsNew
      <4> QED BY <1>1, <1>4, <3>2, <4>1 DEF Runners, RunnersMatchResults, Register
    <3> QED BY <3>1, <3>2
  <2> QED BY <1>1, <1>2, <2>1, <2>2 DEF Runners, RunnersMatchResults
<1>5. ASSUME Handle(c), script[c] = "delete", Cancel PROVE Runners'
  <2>1. results' = {} /\ active' = {} /\ stopped' = stopped \cup active
    BY <1>5 DEF Cancel, Reap
  <2>2. ASSUME NEW q \in Recurring, effects'[q] # {} PROVE q \in stopped'
    <3>1. q # c
      BY <1>5 DEF Recurring
    <3>2. effects[q] # {}
      BY <1>2, <1>5, <2>2, <3>1, HandledIsNew
    <3> QED BY <1>1, <2>1, <3>2 DEF Runners, RunnersMatchResults
  <2> QED BY <1>1, <1>2, <2>1, <2>2 DEF Runners, RunnersMatchResults
<1>6. ASSUME Handle(c), HandleOther, script[c] = "create" PROVE Runners'
  <2>1. UNCHANGED <<results, active, stopped>>
    BY <1>6 DEF HandleOther, runners
  <2>2. ASSUME NEW q \in Recurring, effects'[q] # {} PROVE effects[q] # {}
    BY <1>2, <1>6, <2>2, HandledIsNew DEF Recurring
  <2> QED BY <1>1, <1>2, <2>1, <2>2 DEF Runners, RunnersMatchResults
<1> QED BY <1>3, <1>4, <1>5, <1>6 DEF Arrive, Repeated, Handle

\* The session ends: every runner in its maps is stopped.
LEMMA EndRunners ==
    ASSUME Runners, End, script' = script
    PROVE  Runners'
<1>1. Recurring' = Recurring
  BY DEF Recurring
<1>2. /\ ~ up' /\ stopped' = stopped \cup active
      /\ UNCHANGED <<effects, results, active>>
  BY DEF End, Teardown
<1> QED BY <1>1, <1>2 DEF Runners, RunnersMatchResults

\* A recurring query works on exactly as long as its results node is in the
\* tree and its session is up, for any script of commands in any order.
THEOREM OnlyWantedRunnersWork == Spec => []RunnersMatchResults
<1>1. Init => Runners
  BY DEF Init, Runners, RunnersMatchResults, Recurring
<1>2. IInv /\ Runners /\ [Next]_vars => Runners'
  <2> SUFFICES ASSUME IInv, Runners, [Next]_vars PROVE Runners'
    OBVIOUS
  <2>1. script' = script
    BY ScriptStays
  <2>2. ASSUME NEW c \in Commands, Arrive(c) PROVE Runners'
    BY <2>1, <2>2, ArriveRunners
  <2>3. CASE End
    BY <2>1, <2>3, EndRunners
  <2>4. CASE UNCHANGED <<effects, up, runners>>
    BY <2>1, <2>4 DEF Runners, RunnersMatchResults, Recurring, runners
  <2>5. (\E c \in Commands : Arrive(c)) \/ End \/ UNCHANGED <<effects, up, runners>>
    BY DEF Next, Call, Retransmit, HandleAck, Take, Close, Timeout, ConnectionClosed, GiveUp,
           Deliver, LoseRequest, LoseResponse, Disconnect, Respond, Push, Expire,
           vars, session
  <2> QED BY <2>2, <2>3, <2>4, <2>5
<1>3. Runners => RunnersMatchResults
  BY DEF Runners
<1> QED BY <1>1, <1>2, <1>3, InitIInv, NextIInv, PTL DEF Spec
-----------------------------------------------------------------------------
(* Types, and what the answers answer.                                      *)

\* What TypeOK needs to be inductive: a command that was not called sent
\* nothing, and no datagram appears that was not sent.
Types ==
    /\ TypeOK
    /\ inbox \in [Commands -> SUBSET Response]
    /\ outcome \in [Commands -> SUBSET Response]
    /\ effects \in [Commands -> SUBSET Nat] /\ cache \in [Commands -> SUBSET Nat]
    /\ \A c \in Commands : wait[c] = "idle" => sends[c] = 0
    /\ \A c \in Commands : copies[c] <= sends[c]

\* A response is a push of a query, or the answer to the one execution of the
\* request it names.
Truthful(r) == IF r.push THEN r.to \in Queries ELSE {r.id} = effects[r.to]

\* AnswersAgree is inductive only for the responses on their way as well.
Answers ==
    /\ \A r \in BagToSet(responses) : Truthful(r)
    /\ \A c \in Commands :
        /\ cache[c] \subseteq effects[c]
        /\ \A r \in inbox[c] \cup outcome[c] : r.to = c /\ Truthful(r)

\* The members of a bag after one is added or taken out.
LEMMA BagAdd ==
    ASSUME NEW B, NEW r
    PROVE  BagToSet(B (+) SetToBag({r})) = BagToSet(B) \cup {r}
BY DEF BagToSet, SetToBag, (+)

\* A datagram that leaves the network leaves no other behind.
LEMMA BagRemove ==
    ASSUME NEW B, NEW r
    PROVE  BagToSet(B (-) SetToBag({r})) \subseteq BagToSet(B)
BY DEF BagToSet, SetToBag, (-)

\* What a Send adds to the responses in flight.
LEMMA SendAdds ==
    ASSUME NEW to, NEW push, NEW id, Send(to, push, id)
    PROVE  BagToSet(responses') \subseteq
              BagToSet(responses) \cup {[to |-> to, push |-> push, id |-> id]}
BY BagAdd DEF Send

\* The client's steps keep the types.
LEMMA ClientTypes ==
    ASSUME Types, NEW c \in Commands,
           Call(c) \/ Retransmit(c) \/ Take(c) \/ Close(c) \/ GiveUp(c)
    PROVE  Types'
<1> USE ExchangeBoundsAssumption
<1>0. Cardinality({}) = 0
  BY FS_EmptySet
<1>1. CASE Call(c)
  BY <1>1 DEF Types, TypeOK, Call, Transmit, Wait, session, network, runners,
              Queries, Recurring
<1>2. CASE Retransmit(c)
  BY <1>2 DEF Types, TypeOK, Retransmit, MayRetransmit, Transmit, client, session,
              network, runners, Queries, Recurring
<1>3. CASE Take(c)
  BY <1>0, <1>3 DEF Types, TypeOK, Take, Wait, requests, session, network, runners,
              Queries, Recurring
<1>4. CASE Close(c)
  BY <1>0, <1>4 DEF Types, TypeOK, Close, Wait, requests, session, network, runners,
              Queries, Recurring
<1>5. CASE GiveUp(c)
  BY <1>5 DEF Types, TypeOK, GiveUp, Wait, requests, session, network, runners,
              Queries, Recurring
<1> QED BY <1>1, <1>2, <1>3, <1>4, <1>5

\* An ack names requests only.
LEMMA AckTypes == Types /\ HandleAck => Types'
<1> SUFFICES ASSUME Types, HandleAck PROVE Types'
  OBVIOUS
<1>1. acked' \subseteq Commands
  BY DEF HandleAck, Types, TypeOK
<1> QED BY <1>1 DEF Types, TypeOK, HandleAck, client, session, network, runners,
                    Queries, Recurring

\* So do the network's, and the client's readLoop.
LEMMA NetworkTypes ==
    ASSUME Types,
           \/ \E c \in Commands : LoseRequest(c)
           \/ \E r \in BagToSet(responses) : Deliver(r) \/ LoseResponse(r)
           \/ Disconnect
    PROVE  Types'
<1> USE ExchangeBoundsAssumption
<1>1. ASSUME NEW c \in Commands, LoseRequest(c) PROVE Types'
  BY <1>1 DEF Types, TypeOK, LoseRequest, client, session, runners, Queries, Recurring
<1>2. ASSUME NEW r \in BagToSet(responses), Deliver(r) PROVE Types'
  <2>1. r \in Response /\ Cardinality({r}) = 1
    BY FS_Singleton DEF Types, TypeOK
  <2>2. BagToSet(responses') \subseteq Response
    BY <1>2, BagRemove DEF Deliver, Types, TypeOK
  <2>3. r.to \in Commands
    BY <2>1 DEF Response
  <2>4. /\ inbox' \in [Commands -> SUBSET Response]
        /\ \A c \in Commands : inbox'[c] = inbox[c] \/ inbox'[c] = {r}
    BY <1>2, <2>1, <2>3 DEF Types, Deliver, Dispatch
  <2>5. unseen' \subseteq Response
    BY <1>2, <2>1 DEF Types, TypeOK, Deliver, Dispatch
  <2>6. /\ UNCHANGED <<script, wait, outcome, sends, copies, acked, receiver, serving>>
        /\ UNCHANGED <<effects, cache, pushes, up, results, active, stopped, connected,
                    lost>>
    BY <1>2 DEF Deliver, requests, session, runners
  <2>7. ASSUME NEW c \in Commands
        PROVE  inbox'[c] \subseteq Response /\ Cardinality(inbox'[c]) <= 1
    <3>1. inbox[c] \subseteq Response /\ Cardinality(inbox[c]) <= 1
      BY DEF Types, TypeOK
    <3>2. {r} \subseteq Response /\ Cardinality({r}) <= 1
      BY <2>1
    <3> QED BY ONLY <2>4, <3>1, <3>2, Zenon
  <2> QED BY <2>2, <2>4, <2>5, <2>6, <2>7 DEF Types, TypeOK, Queries, Recurring
<1>3. ASSUME NEW r \in BagToSet(responses), LoseResponse(r) PROVE Types'
  <2>1. BagToSet(responses') \subseteq Response
    BY <1>3, BagRemove DEF LoseResponse, Types, TypeOK
  <2>2. r.to \in Commands
    BY DEF Types, TypeOK, Response
  <2> QED BY <1>3, <2>1, <2>2
          DEF Types, TypeOK, LoseResponse, client, requests, session, runners,
              Queries, Recurring
<1>4. CASE Disconnect
  BY <1>4 DEF Types, TypeOK, Disconnect, client, requests, session, runners,
              Queries, Recurring
<1> QED BY <1>1, <1>2, <1>3, <1>4

\* An effect is told apart from the others by a natural number.
LEMMA EffectId ==
    ASSUME Types, IInv
    PROVE  Cardinality(UNION {effects[d] : d \in Commands}) \in Nat
<1> DEFINE E == {effects[d] : d \in Commands}
<1>1. effects \in Surjection(Commands, E)
  BY DEF Types, Surjection
<1>2. IsFiniteSet(Commands)
  <2>1. 1 \in Int /\ MaxCommands \in Int
    BY CommandsAssumption
  <2> QED BY <2>1, FS_Interval DEF Commands
<1>3. IsFiniteSet(E)
  <2> HIDE DEF E
  <2> QED BY <1>1, <1>2, FS_Surjection
<1>4. \A S \in E : IsFiniteSet(S)
  BY DEF IInv, CarriedOutOnce
<1> HIDE DEF E
<1>5. IsFiniteSet(UNION E)
  BY <1>3, <1>4, FS_UNION
<1> QED BY <1>5, FS_CardinalityType DEF E

\* A request arrives, is answered from the cache or carried out.
LEMMA ArriveTypes ==
    ASSUME Types, IInv, IInv', NEW c \in Commands, Arrive(c)
    PROVE  Types'
<1> USE ExchangeBoundsAssumption
<1>1. /\ UNCHANGED <<script, wait, inbox, outcome, unseen, sends, acked>>
      /\ UNCHANGED <<cache, pushes, up, connected, lost>>
      /\ copies[c] > 0 /\ copies' = [copies EXCEPT ![c] = @ - 1]
  BY DEF Arrive, client
<1>2. /\ copies' \in [Commands -> 0..MaxSends]
      /\ \A d \in Commands : copies'[d] <= sends'[d]
  BY <1>1 DEF Types, TypeOK
<1>3. receiver' \in [contiguous : Nat, above : SUBSET Commands]
  <2>1. receiver' = MarkReceived(receiver, c) /\ ReceiverOK(receiver) /\ c \in Nat
    BY CommandsAssumption DEF Arrive, IInv, Commands
  <2>2. receiver'.above \subseteq receiver.above \cup {c}
    BY <2>1, MarkReceivedSpec
  <2>3. receiver.above \subseteq Commands
    BY DEF Types, TypeOK
  <2> QED BY <2>2, <2>3 DEF IInv, ReceiverOK
<1>4. CASE Repeated(c)
  <2>1. BagToSet(responses') \subseteq Response
    <3>1. CASE UNCHANGED responses
      BY <3>1 DEF Types, TypeOK
    <3>2. ASSUME NEW id \in cache[c], Send(c, FALSE, id)
          PROVE  BagToSet(responses') \subseteq Response
      <4> DEFINE r == [to |-> c, push |-> FALSE, id |-> id]
      <4>1. r \in Response
        BY <3>2 DEF Types, Response
      <4>2. BagToSet(responses') \subseteq BagToSet(responses) \cup {r}
        BY <3>2, SendAdds
      <4> QED BY <4>1, <4>2 DEF Types, TypeOK
    <3> QED BY <1>4, <3>1, <3>2 DEF Repeated, AnswerRepeat
  <2> QED BY <1>1, <1>2, <1>3, <1>4, <2>1
          DEF Types, TypeOK, Repeated, runners, Queries, Recurring
<1>5. CASE Handle(c)
  <2>1. effects' \in [Commands -> SUBSET Nat]
    BY <1>5, EffectId DEF Handle, Types
  <2>2. results' \subseteq Queries /\ active' \cup stopped' \subseteq Recurring
    BY <1>5 DEF Handle, Types, TypeOK, Register, Cancel, Reap, HandleOther, runners
  <2> QED BY <1>1, <1>2, <1>3, <1>5, <2>1, <2>2
          DEF Types, TypeOK, Handle, Queries, Recurring
<1> QED BY <1>4, <1>5 DEF Arrive

\* The session's other steps.
LEMMA SessionTypes ==
    ASSUME Types, Respond \/ End \/ (\E c \in Commands : Expire(c))
                  \/ (\E q \in Queries : Push(q))
    PROVE  Types'
<1> USE ExchangeBoundsAssumption
<1>1. CASE Respond
  <2>1. PICK id \in effects[serving] :
             Send(serving, FALSE, id) /\ cache' = [cache EXCEPT ![serving] = {id}]
    BY <1>1 DEF Respond
  <2>2. serving \in Commands /\ id \in Nat
    BY <1>1 DEF Respond, Types, TypeOK
  <2>3. BagToSet(responses') \subseteq Response
    <3> DEFINE r == [to |-> serving, push |-> FALSE, id |-> id]
    <3>1. r \in Response
      BY <2>2 DEF Response
    <3>2. BagToSet(responses') \subseteq BagToSet(responses) \cup {r}
      BY <2>1, SendAdds
    <3> QED BY <3>1, <3>2 DEF Types, TypeOK
  <2> QED BY <1>1, <2>1, <2>2, <2>3
          DEF Respond, Types, TypeOK, client, requests, runners, Queries, Recurring
<1>2. CASE End
  BY <1>2 DEF End, Teardown, Types, TypeOK, client, requests, network, Queries, Recurring
<1>3. ASSUME NEW c \in Commands, Expire(c) PROVE Types'
  BY <1>3 DEF Expire, Types, TypeOK, client, requests, network, runners, Queries,
              Recurring
<1>4. ASSUME NEW q \in Queries, Push(q) PROVE Types'
  <2>1. BagToSet(responses') \subseteq Response
    <3> DEFINE r == [to |-> q, push |-> TRUE, id |-> 0]
    <3>1. r \in Response
      BY DEF Response, Queries
    <3>2. BagToSet(responses') \subseteq BagToSet(responses) \cup {r}
      BY <1>4, SendAdds, Zenon DEF Push
    <3> QED BY <3>1, <3>2 DEF Types, TypeOK
  <2> QED BY <1>4, <2>1
          DEF Push, CacheAfterPush, Types, TypeOK, client, requests, runners,
              Queries, Recurring
<1> QED BY <1>1, <1>2, <1>3, <1>4

\* Types is inductive beside IInv.
LEMMA NextTypes == IInv /\ IInv' /\ Types /\ [Next]_vars => Types'
<1> SUFFICES ASSUME IInv, IInv', Types, [Next]_vars PROVE Types'
  OBVIOUS
<1>1. CASE UNCHANGED vars
  BY <1>1 DEF Types, TypeOK, vars, client, requests, session, runners, network,
              Queries, Recurring
<1>2. CASE Next
  BY <1>2, ClientTypes, AckTypes, NetworkTypes, ArriveTypes, SessionTypes
     DEF Next, Timeout, ConnectionClosed
<1> QED BY <1>1, <1>2

\* Nothing is on its way at first.
LEMMA InitTypes == Init => Types
<1> SUFFICES ASSUME Init PROVE Types
  OBVIOUS
<1>1. Cardinality({}) = 0 /\ BagToSet(EmptyBag) = {}
  BY FS_EmptySet DEF EmptyBag, SetToBag, BagToSet
<1> QED BY <1>1, ExchangeBoundsAssumption DEF Init, Types, TypeOK, Wait, NewReceiver

\* The exchange keeps its types: at most one response waits in a channel, no
\* request is transmitted more than MaxSends times, and only queries have
\* results and runners.
THEOREM ExchangeTypeCorrect == Spec => []TypeOK
<1>1. Types => TypeOK
  BY DEF Types
<1> QED BY <1>1, InitTypes, InitIInv, NextIInv, NextTypes, PTL DEF Spec
-----------------------------------------------------------------------------
\* A request that was carried out has one effect to answer for.
LEMMA SingleEffect ==
    ASSUME IInv, NEW c \in Commands, NEW id \in effects[c]
    PROVE  effects[c] = {id}
<1>1. IsFiniteSet(effects[c]) /\ Cardinality(effects[c]) <= 1
  BY DEF IInv, CarriedOutOnce
<1>2. {id} \in SUBSET effects[c] /\ Cardinality({id}) = 1
  BY FS_Singleton
<1>3. Cardinality({id}) <= Cardinality(effects[c]) /\ Cardinality(effects[c]) \in Nat
  BY <1>1, <1>2, FS_Subset, FS_CardinalityType
<1>4. Cardinality(effects[c]) = Cardinality({id})
  BY <1>1, <1>2, <1>3
<1> QED BY <1>1, <1>2, <1>4, FS_Subset

\* What was done for a request is done once and for all.
LEMMA EffectsStay ==
    ASSUME IInv, [Next]_vars, NEW c \in Commands, effects[c] # {}
    PROVE  effects'[c] = effects[c]
<1>1. ASSUME NEW d \in Commands, Arrive(d) PROVE effects'[c] = effects[c]
  <2>1. CASE Repeated(d)
    BY <2>1 DEF Repeated
  <2>2. CASE Handle(d)
    BY <2>2, HandledIsNew
  <2> QED BY <1>1, <2>1, <2>2 DEF Arrive
<1>2. (\E d \in Commands : Arrive(d)) \/ UNCHANGED effects
  BY DEF Next, Call, Retransmit, HandleAck, Take, Close, Timeout, ConnectionClosed, GiveUp,
         Deliver, LoseRequest, LoseResponse, Disconnect, Respond, Push, Expire,
         End, vars, session
<1> QED BY <1>1, <1>2

\* A response stays truthful on its way.
LEMMA TruthfulStays ==
    ASSUME IInv, [Next]_vars, NEW r \in Response, Truthful(r)
    PROVE  Truthful(r)'
<1>1. Queries' = Queries /\ r.to \in Commands
  BY ScriptStays DEF Queries, Response
<1>2. ~ r.push => effects'[r.to] = effects[r.to]
  BY <1>1, EffectsStay DEF Truthful
<1> QED BY <1>1, <1>2 DEF Truthful

\* What the server sends is truthful: an answer when it is made, the cached
\* one when the request is repeated, a push of a query.
LEMMA SentIsTruthful ==
    ASSUME IInv, Types, Answers, [Next]_vars, NEW r \in BagToSet(responses')
    PROVE  r \in BagToSet(responses) \/ Truthful(r)'
<1>1. Queries' = Queries
  BY ScriptStays DEF Queries
<1>2. ASSUME NEW c \in Commands, NEW id \in effects[c], Send(c, FALSE, id)
      PROVE  r \in BagToSet(responses) \/ ({r.id} = effects[r.to] /\ ~ r.push)
  <2>1. effects[c] = {id}
    BY SingleEffect
  <2>2. r \in BagToSet(responses) \/ r = [to |-> c, push |-> FALSE, id |-> id]
    BY <1>2, SendAdds
  <2> QED BY <2>1, <2>2
<1>3. ASSUME NEW c \in Commands, Arrive(c)
      PROVE  r \in BagToSet(responses) \/ Truthful(r)'
  <2>1. CASE UNCHANGED responses
    BY <2>1
  <2>2. ASSUME Repeated(c), NEW id \in cache[c], Send(c, FALSE, id)
        PROVE  r \in BagToSet(responses) \/ Truthful(r)'
    BY <1>2, <2>2 DEF Answers, Truthful, Repeated
  <2> QED BY <1>3, <2>1, <2>2 DEF Arrive, Repeated, AnswerRepeat, Handle
<1>4. CASE Respond
  <2>1. PICK id \in effects[serving] : Send(serving, FALSE, id)
    BY <1>4 DEF Respond
  <2>2. serving \in Commands /\ effects' = effects
    BY <1>4 DEF Respond, Types, TypeOK
  <2> QED BY <1>2, <2>1, <2>2 DEF Truthful
<1>5. ASSUME NEW q \in Queries, Push(q)
      PROVE  r \in BagToSet(responses) \/ Truthful(r)'
  <2>1. r \in BagToSet(responses) \/ r = [to |-> q, push |-> TRUE, id |-> 0]
    BY <1>5, SendAdds, Zenon DEF Push
  <2> QED BY <1>1, <2>1 DEF Truthful
<1>6. ASSUME NEW b \in BagToSet(responses), Deliver(b) \/ LoseResponse(b)
      PROVE  r \in BagToSet(responses)
  BY <1>6, BagRemove DEF Deliver, LoseResponse
<1>7. CASE UNCHANGED responses
  BY <1>7
<1>8. \/ \E c \in Commands : Arrive(c)
      \/ Respond
      \/ \E q \in Queries : Push(q)
      \/ \E b \in BagToSet(responses) : Deliver(b) \/ LoseResponse(b)
      \/ UNCHANGED responses
  BY DEF Next, Call, Retransmit, HandleAck, Take, Close, Timeout, ConnectionClosed, GiveUp,
         LoseRequest, Disconnect, Expire, End, vars, network
<1> QED BY <1>3, <1>4, <1>5, <1>6, <1>7, <1>8

\* The client puts a response only into the channel of the request it names.
LEMMA DispatchedRight ==
    ASSUME Types, [Next]_vars, NEW c \in Commands,
           NEW r \in inbox'[c] \cup outcome'[c]
    PROVE  \/ r \in inbox[c] \cup outcome[c]
           \/ r \in BagToSet(responses) /\ r.to = c
<1>1. inbox \in [Commands -> SUBSET Response] /\ outcome \in [Commands -> SUBSET Response]
  BY DEF Types
<1>2. ASSUME NEW d \in Commands, Take(d) \/ Close(d)
      PROVE  r \in inbox[c] \cup outcome[c]
  BY <1>1, <1>2 DEF Take, Close
<1>3. ASSUME NEW b \in BagToSet(responses), Deliver(b)
      PROVE  \/ r \in inbox[c] \cup outcome[c]
             \/ r \in BagToSet(responses) /\ r.to = c
  <2>1. b.to \in Commands
    BY DEF Types, TypeOK, Response
  <2> QED BY <1>1, <1>3, <2>1 DEF Deliver, Dispatch
<1>4. \/ \E d \in Commands : Take(d) \/ Close(d)
      \/ \E b \in BagToSet(responses) : Deliver(b)
      \/ UNCHANGED <<inbox, outcome>>
  BY DEF Next, Call, Retransmit, HandleAck, Timeout, ConnectionClosed, GiveUp, LoseRequest,
         LoseResponse, Disconnect, Arrive, Respond, Push, Expire, End, vars, client
<1> QED BY <1>2, <1>3, <1>4

\* An answer is cached when it is made and answers for ever what was done.
LEMMA CachedIsDone ==
    ASSUME IInv, Types, Answers, [Next]_vars, NEW c \in Commands
    PROVE  cache'[c] \subseteq effects'[c]
<1>1. cache \in [Commands -> SUBSET Nat] /\ cache[c] \subseteq effects[c]
  BY DEF Types, Answers
<1>2. effects[c] \subseteq effects'[c]
  BY EffectsStay
<1>3. CASE Respond
  BY <1>1, <1>2, <1>3 DEF Respond
<1>4. ASSUME NEW d \in Commands, Expire(d) PROVE cache'[c] \subseteq effects'[c]
  BY <1>1, <1>2, <1>4 DEF Expire
<1>5. Respond \/ (\E d \in Commands : Expire(d)) \/ UNCHANGED cache
  BY DEF Next, Call, Retransmit, HandleAck, Take, Close, Timeout, ConnectionClosed, GiveUp,
         Deliver, LoseRequest, LoseResponse, Disconnect, Arrive, Push,
         CacheAfterPush, End, vars, session
<1> QED BY <1>1, <1>2, <1>3, <1>4, <1>5

\* Answers is inductive beside IInv and Types.
LEMMA NextAnswers == IInv /\ Types /\ Answers /\ [Next]_vars => Answers'
<1> SUFFICES ASSUME IInv, Types, Answers, [Next]_vars PROVE Answers'
  OBVIOUS
<1>1. BagToSet(responses) \subseteq Response
  BY DEF Types, TypeOK
<1>2. ASSUME NEW r \in BagToSet(responses') PROVE Truthful(r)'
  BY <1>1, SentIsTruthful, TruthfulStays DEF Answers
<1>3. ASSUME NEW c \in Commands, NEW r \in inbox'[c] \cup outcome'[c]
      PROVE  r.to = c /\ Truthful(r)'
  <2>1. r \in Response /\ r.to = c /\ Truthful(r)
    BY <1>1, DispatchedRight DEF Answers, Types
  <2> QED BY <2>1, TruthfulStays
<1>4. \A c \in Commands : cache'[c] \subseteq effects'[c]
  BY CachedIsDone
<1> QED BY <1>2, <1>3, <1>4 DEF Answers

\* However requests, answers and pushes overtake each other and whenever the
\* cache expires: what a command returns is the answer to its one execution,
\* unless it is a query that returns a push first.
THEOREM AnswersAreTrue == Spec => []AnswersAgree
<1>1. Init => Answers
  BY DEF Init, Answers, EmptyBag, SetToBag, BagToSet
<1>2. Answers => AnswersAgree
  BY DEF Answers, AnswersAgree, Truthful
<1> QED BY <1>1, <1>2, InitTypes, InitIInv, NextIInv, NextTypes, NextAnswers, PTL DEF Spec
=============================================================================
