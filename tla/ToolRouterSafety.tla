-------------------------- MODULE ToolRouterSafety --------------------------
(***************************************************************************)
(* Proofs about ToolRouter: type correctness, with what a routed call may  *)
(* change; the limiter forgets only what is older than the window and so   *)
(* keeps every window within its limit; high-risk runs are more than a     *)
(* window apart; and a capability runs once.                               *)
(***************************************************************************)
EXTENDS ToolRouter, WellFoundedInduction, SequenceTheorems, TLAPS

-----------------------------------------------------------------------------
(***************************************************************************)
(* The front of a queue that the limiter drops, and the type invariant.    *)
(***************************************************************************)
LEMMA LeastNat ==
    ASSUME NEW S, S \subseteq Nat, S # {}
    PROVE  \E k \in S : \A m \in S : k <= m
<1>1. IsWellFoundedOn(OpToRel(<, Nat), Nat)
  BY NatLessThanWellFounded
<1>2. PICK k \in S : \A m \in S : ~ (<<m, k>> \in OpToRel(<, Nat))
  BY <1>1, WFMin, Zenon
<1>3. ASSUME NEW m \in S PROVE k <= m
  <2>1. ~ (<<m, k>> \in {ss \in Nat \X Nat : ss[1] < ss[2]})
    BY <1>2 DEF OpToRel
  <2>2. m \in Nat /\ k \in Nat
    OBVIOUS
  <2> QED
    BY <2>1, <2>2
<1> QED
  BY <1>3

\* The loop of the limiter stops: there is a front to drop, and all of it is
\* older than the start of the window.
LEMMA OutdatedExists ==
    ASSUME NEW queue \in Seq(Nat), NEW start \in Int
    PROVE  /\ Outdated(queue, start) \in 0..Len(queue)
           /\ \A i \in 1..Outdated(queue, start) : queue[i] < start
<1> DEFINE Stops == {k \in 0..Len(queue) : k < Len(queue) => queue[k + 1] >= start}
<1>1. Stops \subseteq Nat /\ Stops # {}
  <2>1. Len(queue) \in Nat
    OBVIOUS
  <2>2. Len(queue) \in Stops
    BY <2>1
  <2> QED
    BY <2>2
<1>2. PICK k \in Stops : \A m \in Stops : k <= m
  <2> HIDE DEF Stops
  <2> QED
    BY <1>1, LeastNat
<1>3. k \in 0..Len(queue) /\ (k < Len(queue) => queue[k + 1] >= start)
  OBVIOUS
<1>4. ASSUME NEW i \in 1..k PROVE queue[i] < start
  <2>1. i - 1 \in 0..Len(queue) /\ ~ (k <= i - 1) /\ i - 1 < Len(queue)
    BY <1>3
  <2>2. i - 1 \notin Stops
    BY <1>2, <2>1
  <2>3. ~ (queue[(i - 1) + 1] >= start)
    BY <2>1, <2>2
  <2>4. (i - 1) + 1 = i /\ i \in 1..Len(queue)
    BY <1>3
  <2>5. queue[i] \in Nat
    BY <2>4
  <2> QED
    BY <2>3, <2>4, <2>5
<1>5. \E j \in 0..Len(queue) :
          /\ \A i \in 1..j : queue[i] < start
          /\ j < Len(queue) => queue[j + 1] >= start
  BY <1>3, <1>4
<1> QED
  BY <1>5 DEF Outdated

LEMMA ConstantTypes ==
    /\ Window \in Nat /\ RetryLimit \in Nat /\ Attempts \in Nat /\ Attempts >= 1
    /\ Attempts = RetryLimit + 1
  BY ToolAssumption DEF Attempts

LEMMA InvocationTypes ==
    ASSUME NEW inv \in Invocations
    PROVE  /\ inv.who \in Identities /\ inv.tool \in Tools
           /\ KeyOf(inv) \in Keys /\ KeyOf(inv)[3] = inv.tool
  BY ToolAssumption DEF Invocation, KeyOf, Keys

LEMMA CurrentTypes ==
    ASSUME NEW queue \in Seq(Nat), clock \in Nat
    PROVE  Current(queue) \in Seq(Nat)
<1>1. clock - Window \in Int
  BY ConstantTypes
<1>2. Outdated(queue, clock - Window) \in 0..Len(queue)
  BY <1>1, OutdatedExists
<1> QED
  BY <1>2 DEF Current

PresentedIds == {t.id : t \in Presented}

LEMMA PresentedTypes ==
    ASSUME TypeOK
    PROVE  Presented \subseteq Token
<1>1. issued \in Seq(Token) /\ Forged \subseteq Token
  BY ToolAssumption DEF TypeOK
<1>2. Issued \subseteq Token
  BY <1>1 DEF Issued
<1> QED
  BY <1>1, <1>2 DEF Presented

\* Whatever route() decides, it leaves well-typed queues and spends only
\* capabilities that callers hold.
LEMMA RouteTypes ==
    ASSUME TypeOK, NEW inv \in Invocations, NEW t \in {NoToken} \cup Presented,
           Route(inv, t)
    PROVE  /\ consumed' \subseteq PresentedIds
           /\ events' \in [Keys -> Seq(Nat)]
           /\ admitted' \in [Keys -> Seq(Nat)]
<1> DEFINE key == KeyOf(inv)
<1>1. key \in Keys
  BY InvocationTypes
<1>2. Spends(inv, t) \subseteq PresentedIds
  BY DEF Spends, Authorised, PresentedIds
<1>3. /\ clock \in Nat /\ consumed \subseteq PresentedIds
      /\ events \in [Keys -> Seq(Nat)] /\ admitted \in [Keys -> Seq(Nat)]
  BY DEF TypeOK, PresentedIds
<1>4. consumed' \subseteq PresentedIds
  BY <1>2, <1>3 DEF Route
<1>5. Current(events[key]) \in Seq(Nat)
  BY <1>1, <1>3, CurrentTypes
<1>6. /\ Append(Current(events[key]), clock) \in Seq(Nat)
      /\ Append(admitted[key], clock) \in Seq(Nat)
  BY <1>1, <1>3, <1>5
<1>7. CASE Counted(inv, t) /\ WithinLimit(inv)
  <2>1. /\ events' = [events EXCEPT ![key] = Append(Current(events[key]), clock)]
        /\ admitted' = [admitted EXCEPT ![key] = Append(@, clock)]
    BY <1>7 DEF Route
  <2> QED
    BY <1>1, <1>3, <1>4, <1>6, <2>1
<1>8. CASE Counted(inv, t) /\ ~ WithinLimit(inv)
  <2>1. events' = [events EXCEPT ![key] = Current(events[key])] /\ admitted' = admitted
    BY <1>8 DEF Route
  <2> QED
    BY <1>1, <1>3, <1>4, <1>5, <2>1
<1>9. CASE ~ Counted(inv, t)
  <2>1. events' = events /\ admitted' = admitted
    BY <1>9 DEF Route
  <2> QED
    BY <1>3, <1>4, <2>1
<1> QED
  BY <1>7, <1>8, <1>9

LEMMA TypesInit == Init => TypeOK
<1> SUFFICES ASSUME Init PROVE TypeOK
  OBVIOUS
<1>1. call \in Call /\ Idle
  BY ConstantTypes DEF Init, Call, NoCall, Idle
<1>2. /\ [k \in Keys |-> <<>>] \in [Keys -> Seq(Nat)]
      /\ <<>> \in Seq(Token) /\ <<>> \in Seq(RunRecord)
      /\ DOMAIN <<>> = {}
  OBVIOUS
<1> QED
  BY <1>1, <1>2 DEF Init, TypeOK, Answers

LEMMA TypesIssue == TypeOK /\ Issue => TypeOK'
<1> SUFFICES ASSUME TypeOK, Issue PROVE TypeOK'
  OBVIOUS
<1> DEFINE TokenOf(g) == [id |-> Len(issued) + 1, actor |-> g.who.actor, tenant |-> g.who.tenant, tool |-> g.tool,
                          ops |-> g.ops, expires |-> clock + g.ttl,
                          version |-> policy.version]
<1>1. PICK g \in Grants : issued' = Append(issued, TokenOf(g))
  BY DEF Issue
<1>2. g.who \in Identity /\ g.tool \in Tools /\ g.ops \in SUBSET Operations /\ g.ttl \in Int
  BY ToolAssumption DEF Grant
<1>3. g.who.actor \in STRING /\ g.who.tenant \in STRING
  BY <1>2 DEF Identity
<1>4. policy.version \in STRING
  BY ToolAssumption DEF TypeOK, Policy
<1>5. clock + g.ttl \in Int /\ Len(issued) + 1 \in Nat
  BY <1>2 DEF TypeOK
<1>6. TokenOf(g) \in Token
  BY <1>2, <1>3, <1>4, <1>5 DEF Token
<1>7. issued' \in Seq(Token) /\ Presented \subseteq Presented'
  <2> HIDE DEF TokenOf
  <2>1. issued' \in Seq(Token)
    BY <1>1, <1>6 DEF TypeOK
  <2>2. \A i \in DOMAIN issued : i \in DOMAIN issued' /\ issued'[i] = issued[i]
    BY <1>1, <1>6 DEF TypeOK
  <2> QED
    BY <2>1, <2>2 DEF Presented, Issued
<1>8. /\ UNCHANGED <<clock, policy, consumed, events, call, admitted, ran, answer>>
  BY DEF Issue
<1>9. consumed' \subseteq {t.id : t \in Presented'}
  BY <1>7, <1>8 DEF TypeOK
<1> QED
  BY <1>7, <1>8, <1>9 DEF TypeOK, Idle

LEMMA TypesPropose == TypeOK /\ Propose => TypeOK'
<1> SUFFICES ASSUME TypeOK, Propose PROVE TypeOK'
  OBVIOUS
<1>1. PICK inv \in Invocations : Route(inv, NoToken) /\ answer' = Decision(inv, NoToken)
  BY DEF Propose
<1>2. answer' \in Answers
  BY <1>1 DEF Decision, Answers
<1>3. UNCHANGED <<clock, policy, issued, call, ran>>
  BY DEF Propose
<1>4. /\ consumed' \subseteq PresentedIds
      /\ events' \in [Keys -> Seq(Nat)]
      /\ admitted' \in [Keys -> Seq(Nat)]
  BY <1>1, RouteTypes
<1> QED
  BY <1>2, <1>3, <1>4 DEF TypeOK, Idle, PresentedIds, Presented, Issued

\* What starting a call adds to the runs, and the call in progress.
LEMMA StartedTypes ==
    ASSUME TypeOK, NEW inv \in Invocations, NEW t \in {NoToken} \cup Presented,
           Admitted(inv, t), Started(inv, t)
    PROVE  /\ call' \in Call /\ ran' \in Seq(RunRecord) /\ ran' # <<>>
           /\ call'.run = Len(ran') /\ call'.effects + call'.left <= Attempts
<1>1. inv.tool \in DOMAIN Registry /\ Registry[inv.tool].executor \in {"none", "local", "mcp"}
  BY ToolAssumption DEF Admitted, Authorised, Acceptable, Descriptor
<1>2. ran \in Seq(RunRecord) /\ clock \in Nat /\ t \in {NoToken} \cup Token
  BY PresentedTypes DEF TypeOK
<1> DEFINE record == [inv |-> inv, token |-> IF NeedsToken(inv) THEN t ELSE NoToken,
                      at |-> clock, effects |-> 0]
<1>3. record \in RunRecord
  BY <1>2, ConstantTypes DEF RunRecord
<1>4. ran' = Append(ran, record)
  BY DEF Started
<1>5. ran' \in Seq(RunRecord) /\ ran' # <<>> /\ Len(ran') = Len(ran) + 1
  <2> HIDE DEF record
  <2> QED
    BY <1>2, <1>3, <1>4
<1>6. call' = [phase |-> IF IsHigh(inv.tool) THEN "sandbox" ELSE Registry[inv.tool].executor,
               run |-> Len(ran) + 1, left |-> RetryLimit + 1, effects |-> 0]
  BY DEF Started
<1>7. Len(ran) + 1 \in Nat /\ RetryLimit + 1 \in 0..Attempts /\ 0 \in 0..Attempts
  BY <1>2, ConstantTypes
<1>8. call' \in Call
  BY <1>1, <1>6, <1>7 DEF Call
<1> QED
  BY <1>5, <1>6, <1>8, ConstantTypes

LEMMA TypesMediate == TypeOK /\ Mediate => TypeOK'
<1> SUFFICES ASSUME TypeOK, Mediate PROVE TypeOK'
  OBVIOUS
<1>1. PICK inv \in Invocations, t \in {NoToken} \cup Presented :
          /\ Route(inv, t)
          /\ IF Admitted(inv, t)
             THEN Started(inv, t)
             ELSE answer' = Decision(inv, t) /\ UNCHANGED <<ran, call>>
  BY DEF Mediate
<1>2. UNCHANGED <<clock, policy, issued>>
  BY DEF Mediate
<1>3. /\ consumed' \subseteq PresentedIds
      /\ events' \in [Keys -> Seq(Nat)]
      /\ admitted' \in [Keys -> Seq(Nat)]
  BY <1>1, RouteTypes
<1>4. CASE Admitted(inv, t)
  <2>1. answer' = answer
    BY <1>1, <1>4 DEF Started
  <2> QED
    BY <1>1, <1>2, <1>3, <1>4, <2>1, StartedTypes DEF TypeOK, PresentedIds, Presented, Issued
<1>5. CASE ~ Admitted(inv, t)
  <2>1. answer' \in Answers
    BY <1>1, <1>5 DEF Decision, Answers
  <2> QED
    BY <1>1, <1>2, <1>3, <1>5, <2>1 DEF TypeOK, Idle, PresentedIds, Presented, Issued
<1> QED
  BY <1>4, <1>5

LEMMA EffectsTypes ==
    ASSUME NEW r \in RunRecord, NEW effects \in 0..Attempts
    PROVE  [r EXCEPT !.effects = effects] \in RunRecord
  BY DEF RunRecord

\* However a call ends, its run keeps what was done.
LEMMA FinishTypes ==
    ASSUME TypeOK, ~ Idle, NEW status \in {"allow", "deny"}, NEW effects \in 0..Attempts,
           Finish(status, effects)
    PROVE  TypeOK'
<1>1. ran \in Seq(RunRecord) /\ call.run = Len(ran) /\ ran # <<>>
  BY DEF TypeOK
<1>2. call.run \in DOMAIN ran
  BY <1>1
<1>3. [ran[call.run] EXCEPT !.effects = effects] \in RunRecord
  <2>1. ran[call.run] \in RunRecord
    BY <1>1, <1>2
  <2> QED
    BY <2>1, EffectsTypes
<1>4. ran' = [ran EXCEPT ![call.run].effects = effects]
  BY DEF Finish
<1>5. ran' \in Seq(RunRecord)
  BY <1>1, <1>2, <1>3, <1>4
<1>6. call' \in Call /\ Idle'
  BY ConstantTypes DEF Finish, Call, NoCall, Idle
<1>7. answer' \in Answers /\ UNCHANGED <<clock, policy, issued, consumed, events, admitted>>
  BY DEF Finish, Answers
<1> QED
  BY <1>5, <1>6, <1>7 DEF TypeOK, PresentedIds, Presented, Issued

LEMMA TypesExecute == TypeOK /\ Execute => TypeOK'
<1> SUFFICES ASSUME TypeOK, Execute PROVE TypeOK'
  OBVIOUS
<1>1. ~ Idle
  BY DEF Execute, NoExecutor, Returns, Raises, GatewayRefuses, Answered, AnsweredBadly,
         TransportFails, GivesUp, Idle, NoCall
<1>2. /\ call.left \in 0..Attempts /\ call.effects \in 0..Attempts
      /\ call.effects + call.left <= Attempts
  BY <1>1 DEF TypeOK, Call
<1>3. {0, 1} \subseteq 0..Attempts
  BY ConstantTypes
<1>4. CASE NoExecutor
  BY <1>1, <1>3, <1>4, FinishTypes DEF NoExecutor
<1>5. CASE Returns
  BY <1>1, <1>3, <1>5, FinishTypes DEF Returns
<1>6. CASE Raises
  BY <1>1, <1>3, <1>6, FinishTypes DEF Raises
<1>7. CASE GatewayRefuses
  BY <1>1, <1>3, <1>7, FinishTypes DEF GatewayRefuses
<1>8. CASE Answered \/ AnsweredBadly
  <2>1. call.effects + 1 \in 0..Attempts
    BY <1>2, <1>8, ConstantTypes DEF Answered, AnsweredBadly
  <2> QED
    BY <1>1, <1>8, <2>1, FinishTypes DEF Answered, AnsweredBadly
<1>9. CASE TransportFails
  <2>1. PICK effect \in {0, 1} :
            call' = [call EXCEPT !.left = @ - 1, !.effects = @ + effect]
    BY <1>9 DEF TransportFails
  <2>2. call.left > 0 /\ call \in Call
    BY <1>9 DEF TransportFails, TypeOK
  <2>3. call.left - 1 \in 0..Attempts /\ call.effects + effect \in 0..Attempts
    BY <1>2, <2>2, ConstantTypes
  <2>4. call' \in Call /\ call'.run = call.run /\ call'.left = call.left - 1
        /\ call'.effects = call.effects + effect
    BY <2>1, <2>2, <2>3 DEF Call
  <2>5. call'.effects + call'.left <= Attempts
    BY <1>2, <2>4, ConstantTypes
  <2>6. UNCHANGED <<clock, policy, issued, consumed, events, admitted, ran, answer>>
    BY <1>9 DEF TransportFails
  <2> QED
    BY <1>1, <2>4, <2>5, <2>6 DEF TypeOK, PresentedIds, Presented, Issued
<1>10. CASE GivesUp
  BY <1>1, <1>2, <1>10, FinishTypes DEF GivesUp
<1> QED
  BY <1>4, <1>5, <1>6, <1>7, <1>8, <1>9, <1>10 DEF Execute

LEMMA TypesRestart == TypeOK /\ Restart => TypeOK'
<1> SUFFICES ASSUME TypeOK, Restart PROVE TypeOK'
  OBVIOUS
<1>1. call' \in Call /\ Idle'
  BY ConstantTypes DEF Restart, NewProcess, Call, NoCall, Idle
<1>2. /\ [k \in Keys |-> <<>>] \in [Keys -> Seq(Nat)]
      /\ <<>> \in Seq(RunRecord)
  OBVIOUS
<1> QED
  BY <1>1, <1>2 DEF Restart, NewProcess, TypeOK, Answers

\* The type invariant of the tool router, among it the bound on what one run
\* of the gateway can do.
THEOREM TypeCorrect == Spec => []TypeOK
<1>1. TypeOK /\ [Next]_vars => TypeOK'
  <2> SUFFICES ASSUME TypeOK, [Next]_vars PROVE TypeOK'
    OBVIOUS
  <2>1. CASE Tick
    BY <2>1 DEF Tick, TypeOK, Idle, PresentedIds, Presented, Issued
  <2>2. CASE UNCHANGED vars
    BY <2>2 DEF vars, TypeOK, Idle, PresentedIds, Presented, Issued
  <2> QED
    BY <2>1, <2>2, TypesIssue, TypesPropose, TypesMediate, TypesExecute, TypesRestart
       DEF Next
<1> QED
  BY <1>1, TypesInit, PTL DEF Spec

-----------------------------------------------------------------------------
(***************************************************************************)
(* One queue: the limiter drops a front of what it remembers, so what is   *)
(* left is again a tail of the admissions.                                 *)
(***************************************************************************)
LEMMA TailFacts ==
    ASSUME NEW s \in Seq(Nat), NEW k \in 0..Len(s)
    PROVE  /\ SubSeq(s, k + 1, Len(s)) \in Seq(Nat)
           /\ Len(SubSeq(s, k + 1, Len(s))) = Len(s) - k
           /\ \A i \in 1..(Len(s) - k) : SubSeq(s, k + 1, Len(s))[i] = s[k + i]
<1>1. Len(s) \in Nat /\ k \in Int /\ k + 1 \in 1..(Len(s) + 1) /\ Len(s) \in k..Len(s)
  OBVIOUS
<1>2. \A i \in (k + 1)..Len(s) : s[i] \in Nat
  BY <1>1
<1>3. /\ SubSeq(s, k + 1, Len(s)) \in Seq(Nat)
      /\ Len(SubSeq(s, k + 1, Len(s))) = IF k + 1 <= Len(s) THEN Len(s) - (k + 1) + 1 ELSE 0
      /\ \A i \in 1..(Len(s) - (k + 1) + 1) : SubSeq(s, k + 1, Len(s))[i] = s[(k + 1) + i - 1]
  BY <1>1, <1>2, SubSeqProperties
<1>4. Len(SubSeq(s, k + 1, Len(s))) = Len(s) - k
  BY <1>1, <1>3
<1>5. ASSUME NEW i \in 1..(Len(s) - k) PROVE SubSeq(s, k + 1, Len(s))[i] = s[k + i]
  <2>1. i \in 1..(Len(s) - (k + 1) + 1) /\ (k + 1) + i - 1 = k + i
    BY <1>1
  <2> QED
    BY <1>3, <2>1
<1> QED
  BY <1>3, <1>4, <1>5

LEMMA SameSeq ==
    ASSUME NEW s \in Seq(Nat), NEW u \in Seq(Nat), Len(s) = Len(u),
           \A i \in 1..Len(s) : s[i] = u[i]
    PROVE  s = u
  BY SeqEqual

\* A tail of a tail is a tail.
LEMMA TailOfTail ==
    ASSUME NEW s \in Seq(Nat), NEW k \in 0..Len(s), NEW d \in 0..(Len(s) - k)
    PROVE  LET q == SubSeq(s, k + 1, Len(s))
           IN  SubSeq(q, d + 1, Len(q)) = SubSeq(s, (k + d) + 1, Len(s))
<1> DEFINE q == SubSeq(s, k + 1, Len(s))
           left == SubSeq(q, d + 1, Len(q))
           right == SubSeq(s, (k + d) + 1, Len(s))
<1>1. /\ q \in Seq(Nat) /\ Len(q) = Len(s) - k
      /\ \A i \in 1..(Len(s) - k) : q[i] = s[k + i]
  BY TailFacts
<1>2. k + d \in 0..Len(s) /\ d \in 0..Len(q)
  BY <1>1
<1> HIDE DEF q
<1>3. /\ left \in Seq(Nat) /\ Len(left) = Len(q) - d
      /\ \A i \in 1..(Len(q) - d) : left[i] = q[d + i]
  BY <1>1, <1>2, TailFacts
<1>4. /\ right \in Seq(Nat) /\ Len(right) = Len(s) - (k + d)
      /\ \A i \in 1..(Len(s) - (k + d)) : right[i] = s[(k + d) + i]
  BY <1>2, TailFacts
<1> HIDE DEF left, right
<1>5. Len(left) = Len(right)
  BY <1>1, <1>2, <1>3, <1>4
<1>6. ASSUME NEW i \in 1..Len(left) PROVE left[i] = right[i]
  <2>1. d + i \in 1..(Len(s) - k) /\ k + (d + i) = (k + d) + i
    BY <1>1, <1>2, <1>3
  <2>2. i \in 1..(Len(q) - d) /\ i \in 1..(Len(s) - (k + d))
    BY <1>1, <1>2, <1>3
  <2> QED
    BY <1>1, <1>3, <1>4, <2>1, <2>2
<1>7. left = right
  BY <1>3, <1>4, <1>5, <1>6, SameSeq
<1> QED
  BY <1>7 DEF left, right, q

\* A tail and an element appended to it are a tail of the whole.
LEMMA AppendTail ==
    ASSUME NEW s \in Seq(Nat), NEW k \in 0..Len(s), NEW e \in Nat
    PROVE  Append(SubSeq(s, k + 1, Len(s)), e)
               = SubSeq(Append(s, e), k + 1, Len(Append(s, e)))
<1> DEFINE q == SubSeq(s, k + 1, Len(s))
           more == Append(s, e)
           left == Append(q, e)
           right == SubSeq(more, k + 1, Len(more))
<1>1. /\ q \in Seq(Nat) /\ Len(q) = Len(s) - k
      /\ \A i \in 1..(Len(s) - k) : q[i] = s[k + i]
  BY TailFacts
<1>2. /\ more \in Seq(Nat) /\ Len(more) = Len(s) + 1
      /\ (\A i \in 1..Len(s) : more[i] = s[i]) /\ more[Len(s) + 1] = e
  BY AppendProperties
<1> HIDE DEF q, more
<1>3. /\ left \in Seq(Nat) /\ Len(left) = Len(q) + 1
      /\ (\A i \in 1..Len(q) : left[i] = q[i]) /\ left[Len(q) + 1] = e
  BY <1>1, AppendProperties
<1>4. k \in 0..Len(more)
  BY <1>2
<1>5. /\ right \in Seq(Nat) /\ Len(right) = Len(more) - k
      /\ \A i \in 1..(Len(more) - k) : right[i] = more[k + i]
  BY <1>2, <1>4, TailFacts
<1> HIDE DEF left, right
<1>6. Len(left) = Len(right)
  BY <1>1, <1>2, <1>3, <1>5
<1>7. ASSUME NEW i \in 1..Len(left) PROVE left[i] = right[i]
  <2>1. i \in 1..(Len(more) - k) /\ k + i \in 1..(Len(s) + 1)
    BY <1>1, <1>2, <1>3
  <2>2. CASE i <= Len(s) - k
    <3>1. i \in 1..Len(q) /\ i \in 1..(Len(s) - k) /\ k + i \in 1..Len(s)
      BY <1>1, <2>1, <2>2
    <3>2. left[i] = q[i] /\ q[i] = s[k + i]
      BY <1>1, <1>3, <3>1
    <3>3. right[i] = more[k + i] /\ more[k + i] = s[k + i]
      BY <1>2, <1>5, <2>1, <3>1
    <3> QED
      BY <3>2, <3>3
  <2>3. CASE i > Len(s) - k
    <3>1. i = Len(q) + 1 /\ k + i = Len(s) + 1
      BY <1>1, <2>1, <2>3
    <3> QED
      BY <1>2, <1>3, <1>5, <2>1, <3>1
  <2> QED
    BY <2>1, <2>2, <2>3
<1>8. left = right
  BY <1>3, <1>5, <1>6, <1>7, SameSeq
<1> QED
  BY <1>8 DEF left, right, more, q

-----------------------------------------------------------------------------
LEMMA CurrentIsTail ==
    ASSUME NEW times \in Seq(Nat), NEW queue \in Seq(Nat), clock \in Nat,
           Remembers(times, queue, clock)
    PROVE  \E k \in 0..Len(times) :
              /\ Current(queue) = SubSeq(times, k + 1, Len(times))
              /\ Len(Current(queue)) = Len(times) - k
              /\ \A i \in 1..k : times[i] + Window < clock
<1>1. PICK k \in 0..Len(times) :
          /\ queue = SubSeq(times, k + 1, Len(times))
          /\ \A i \in 1..k : times[i] + Window < clock
  BY DEF Remembers
<1>2. Window \in Nat /\ clock - Window \in Int
  BY ConstantTypes
<1> DEFINE d == Outdated(queue, clock - Window)
<1>3. d \in 0..Len(queue) /\ \A i \in 1..d : queue[i] < clock - Window
  BY <1>2, OutdatedExists
<1>4. Len(queue) = Len(times) - k /\ \A i \in 1..(Len(times) - k) : queue[i] = times[k + i]
  BY <1>1, TailFacts
<1>5. Current(queue) = SubSeq(queue, d + 1, Len(queue))
  BY DEF Current
<1> HIDE DEF d
<1>6. k + d \in 0..Len(times) /\ d \in 0..(Len(times) - k)
  BY <1>3, <1>4
<1>7. ASSUME NEW i \in 1..(k + d) PROVE times[i] + Window < clock
  <2>1. CASE i <= k
    BY <1>1, <2>1
  <2>2. CASE i > k
    <3>1. i - k \in 1..d /\ i - k \in 1..(Len(times) - k)
      BY <1>3, <1>6, <2>2
    <3>2. queue[i - k] < clock - Window /\ queue[i - k] = times[k + (i - k)]
      BY <1>3, <1>4, <3>1
    <3>3. k + (i - k) = i /\ times[i] \in Nat
      BY <1>6
    <3> QED
      BY <1>2, <3>2, <3>3
  <2> QED
    BY <2>1, <2>2
<1>8. Current(queue) = SubSeq(times, (k + d) + 1, Len(times))
  BY <1>1, <1>5, <1>6, TailOfTail
<1>9. Len(Current(queue)) = Len(times) - (k + d)
  BY <1>6, <1>8, TailFacts
<1> QED
  BY <1>6, <1>7, <1>8, <1>9

\* The limiter says no: the queue is shortened.
LEMMA RefusedRemembers ==
    ASSUME NEW times \in Seq(Nat), NEW queue \in Seq(Nat), clock \in Nat,
           Remembers(times, queue, clock)
    PROVE  Remembers(times, Current(queue), clock)
  BY CurrentIsTail DEF Remembers

\* It says yes: the time is appended to both.
LEMMA AdmittedRemembers ==
    ASSUME NEW times \in Seq(Nat), NEW queue \in Seq(Nat), clock \in Nat,
           Remembers(times, queue, clock)
    PROVE  Remembers(Append(times, clock), Append(Current(queue), clock), clock)
<1> DEFINE more == Append(times, clock)
<1>1. PICK k \in 0..Len(times) :
          /\ Current(queue) = SubSeq(times, k + 1, Len(times))
          /\ \A i \in 1..k : times[i] + Window < clock
  BY CurrentIsTail
<1>2. /\ more \in Seq(Nat) /\ Len(more) = Len(times) + 1
      /\ \A i \in 1..Len(times) : more[i] = times[i]
      /\ more[Len(times) + 1] = clock
  OBVIOUS
<1>3. \A i \in DOMAIN more : more[i] <= clock
  BY <1>2 DEF Remembers
<1>4. \A i, j \in DOMAIN more : i <= j => more[i] <= more[j]
  BY <1>2, <1>3 DEF Remembers
<1>5. k \in 0..Len(more) /\ \A i \in 1..k : more[i] + Window < clock
  BY <1>1, <1>2
<1>6. Append(Current(queue), clock) = SubSeq(more, k + 1, Len(more))
  BY <1>1, AppendTail
<1> QED
  BY <1>3, <1>4, <1>5, <1>6 DEF Remembers

\* If there was room in the queue, the limit holds with the new admission: all
\* but the n - 1 newest admissions have been forgotten.
LEMMA AdmittedSpaced ==
    ASSUME NEW times \in Seq(Nat), NEW queue \in Seq(Nat), clock \in Nat,
           Remembers(times, queue, clock), NEW n \in Nat, n > 0,
           Len(Current(queue)) < n, Spaced(times, n)
    PROVE  Spaced(Append(times, clock), n)
<1> DEFINE more == Append(times, clock)
<1>1. PICK k \in 0..Len(times) :
          /\ Len(Current(queue)) = Len(times) - k
          /\ \A i \in 1..k : times[i] + Window < clock
  BY CurrentIsTail
<1>2. /\ Len(more) = Len(times) + 1 /\ DOMAIN more = 1..(Len(times) + 1)
      /\ \A i \in 1..Len(times) : more[i] = times[i]
      /\ more[Len(times) + 1] = clock
  OBVIOUS
<1>3. ASSUME NEW i \in DOMAIN more, NEW j \in DOMAIN more, i + n <= j
      PROVE  more[i] + Window < more[j]
  <2> HIDE DEF more
  <2>1. CASE j <= Len(times)
    <3>1. i \in 1..Len(times) /\ j \in 1..Len(times)
      BY <1>2, <1>3, <2>1
    <3>2. i \in DOMAIN times /\ j \in DOMAIN times
      BY <3>1
    <3>3. times[i] + Window < times[j]
      BY <1>3, <3>2 DEF Spaced
    <3>4. more[i] = times[i] /\ more[j] = times[j]
      BY <1>2, <3>1
    <3> QED
      BY <3>3, <3>4
  <2>2. CASE j = Len(times) + 1
    <3>1. i \in 1..k /\ i \in 1..Len(times)
      BY <1>1, <1>2, <1>3, <2>2
    <3>2. times[i] + Window < clock
      BY <1>1, <3>1
    <3>3. more[i] = times[i] /\ more[j] = clock
      BY <1>2, <2>2, <3>1
    <3> QED
      BY ONLY <3>2, <3>3
  <2>3. Len(times) \in Nat /\ j \in 1..(Len(times) + 1)
    BY <1>2, <1>3
  <2> QED
    BY ONLY <2>1, <2>2, <2>3
<1> QED
  BY <1>3 DEF Spaced

-----------------------------------------------------------------------------
(***************************************************************************)
(* The limiter in the state machine.                                       *)
(***************************************************************************)
LimiterInv == LimiterRemembers /\ WindowRespected

LEMMA LimitTypes ==
    ASSUME TypeOK, NEW tool \in DOMAIN Registry
    PROVE  Limit(tool) \in Nat
<1>1. tool \in Tools /\ policy.limits \in [Tools -> Nat]
  BY ToolAssumption DEF TypeOK, Policy
<1> QED
  BY <1>1 DEF Limit

\* A routed call keeps the invariant of the limiter.
LEMMA RouteLimiter ==
    ASSUME TypeOK, LimiterInv, NEW inv \in Invocations,
           NEW t \in {NoToken} \cup Presented, Route(inv, t),
           UNCHANGED <<clock, policy>>
    PROVE  LimiterInv'
<1> DEFINE key == KeyOf(inv)
<1>1. key \in Keys /\ key[3] = inv.tool
  BY InvocationTypes
<1>2. /\ clock \in Nat /\ events \in [Keys -> Seq(Nat)] /\ admitted \in [Keys -> Seq(Nat)]
      /\ events' \in [Keys -> Seq(Nat)] /\ admitted' \in [Keys -> Seq(Nat)]
  BY RouteTypes DEF TypeOK
<1>3. \A tool : Limit(tool)' = Limit(tool)
  BY DEF Limit, IsHigh
<1>4. Remembers(admitted[key], events[key], clock)
  BY <1>1 DEF LimiterInv, LimiterRemembers
<1>5. SUFFICES ASSUME NEW k \in Keys
               PROVE  /\ Remembers(admitted'[k], events'[k], clock)
                      /\ k[3] \in DOMAIN Registry /\ Limit(k[3]) > 0
                             => Spaced(admitted'[k], Limit(k[3]))
  BY <1>3 DEF LimiterInv, LimiterRemembers, WindowRespected, Remembers, Spaced
<1>6. /\ Remembers(admitted[k], events[k], clock)
      /\ k[3] \in DOMAIN Registry /\ Limit(k[3]) > 0 => Spaced(admitted[k], Limit(k[3]))
  BY DEF LimiterInv, LimiterRemembers, WindowRespected
<1> HIDE DEF key
<1>7. CASE Counted(inv, t) /\ WithinLimit(inv)
  <2>1. /\ events' = [events EXCEPT ![key] = Append(Current(events[key]), clock)]
        /\ admitted' = [admitted EXCEPT ![key] = Append(@, clock)]
    BY <1>7 DEF Route, key
  <2>2. CASE k # key
    BY <1>1, <1>2, <1>6, <2>1, <2>2
  <2>3. CASE k = key
    <3>1. /\ events'[k] = Append(Current(events[key]), clock)
          /\ admitted'[k] = Append(admitted[key], clock)
      BY <1>1, <1>2, <2>1, <2>3
    <3>2. Remembers(admitted'[k], events'[k], clock)
      BY <1>1, <1>2, <1>4, <3>1, AdmittedRemembers
    <3>3. inv.tool \in DOMAIN Registry
      BY <1>7 DEF Counted, Authorised, Acceptable
    <3>4. Limit(inv.tool) \in Nat /\ Limit(inv.tool) > 0
      BY <1>7, <3>3, LimitTypes DEF Counted
    <3>5. Len(Current(events[key])) < Limit(inv.tool)
      BY <1>7 DEF WithinLimit, key
    <3>6. Spaced(admitted[key], Limit(inv.tool))
      BY <1>1, <1>6, <2>3, <3>3, <3>4
    <3>7. Spaced(Append(admitted[key], clock), Limit(inv.tool))
      BY <1>1, <1>2, <1>4, <3>4, <3>5, <3>6, AdmittedSpaced
    <3> QED
      BY <1>1, <2>3, <3>1, <3>2, <3>7
  <2> QED
    BY <2>2, <2>3
<1>8. CASE Counted(inv, t) /\ ~ WithinLimit(inv)
  <2>1. events' = [events EXCEPT ![key] = Current(events[key])] /\ admitted' = admitted
    BY <1>8 DEF Route, key
  <2>2. CASE k # key
    BY <1>1, <1>2, <1>6, <2>1, <2>2
  <2>3. CASE k = key
    <3>1. events'[k] = Current(events[key]) /\ admitted'[k] = admitted[key]
      BY <1>1, <1>2, <2>1, <2>3
    <3>2. Remembers(admitted'[k], events'[k], clock)
      BY <1>1, <1>2, <1>4, <3>1, RefusedRemembers
    <3> QED
      BY <1>6, <2>3, <3>1, <3>2
  <2> QED
    BY <2>2, <2>3
<1>9. CASE ~ Counted(inv, t)
  <2>1. events' = events /\ admitted' = admitted
    BY <1>9 DEF Route
  <2> QED
    BY <1>6, <2>1
<1> QED
  BY <1>7, <1>8, <1>9

\* Time that passes makes no forgotten admission count again.
LEMMA TickLimiter == TypeOK /\ LimiterInv /\ Tick => LimiterInv'
<1> SUFFICES ASSUME TypeOK, LimiterInv, Tick PROVE LimiterInv'
  OBVIOUS
<1>1. clock \in Nat /\ clock' = clock + 1 /\ UNCHANGED <<policy, events, admitted>>
  BY DEF TypeOK, Tick
<1>2. WindowRespected'
  BY <1>1 DEF LimiterInv, WindowRespected, Spaced, Limit, IsHigh
<1>3. ASSUME NEW key \in Keys PROVE Remembers(admitted[key], events[key], clock + 1)
  <2>1. admitted[key] \in Seq(Nat) /\ Window \in Nat
    BY ConstantTypes DEF TypeOK
  <2>2. Remembers(admitted[key], events[key], clock)
    BY DEF LimiterInv, LimiterRemembers
  <2>3. \A i \in DOMAIN admitted[key] : admitted[key][i] \in Nat
    BY <2>1
  <2>4. \A i \in DOMAIN admitted[key] : admitted[key][i] <= clock + 1
    BY <1>1, <2>2, <2>3 DEF Remembers
  <2>5. PICK k \in 0..Len(admitted[key]) :
            /\ events[key] = SubSeq(admitted[key], k + 1, Len(admitted[key]))
            /\ \A i \in 1..k : admitted[key][i] + Window < clock
    BY <2>2 DEF Remembers
  <2>6. \A i \in 1..k : i \in DOMAIN admitted[key]
    BY <2>1, <2>5
  <2>7. ASSUME NEW i \in 1..k PROVE admitted[key][i] + Window < clock + 1
    <3>1. admitted[key][i] + Window < clock
      BY <2>5
    <3>2. admitted[key][i] \in Nat
      BY <2>3, <2>6
    <3> QED
      BY <1>1, <2>1, <3>1, <3>2
  <2> QED
    BY <2>2, <2>4, <2>5, <2>7 DEF Remembers
<1>4. LimiterRemembers'
  BY <1>1, <1>3 DEF LimiterRemembers
<1> QED
  BY <1>2, <1>4 DEF LimiterInv

\* A process that has just started has admitted nothing.
LEMMA FreshLimiter ==
    ASSUME admitted = [k \in Keys |-> <<>>], events = [k \in Keys |-> <<>>]
    PROVE  LimiterInv
<1>1. ASSUME NEW key \in Keys, NEW n
      PROVE  Remembers(admitted[key], events[key], clock) /\ Spaced(admitted[key], n)
  <2>1. admitted[key] = <<>> /\ events[key] = <<>> /\ Len(<<>>) = 0 /\ DOMAIN <<>> = {}
    OBVIOUS
  <2>2. 0 \in 0..Len(<<>>) /\ SubSeq(<<>>, 0 + 1, Len(<<>>)) = <<>> /\ 1..0 = {}
    BY SubSeqEmpty
  <2> QED
    BY <2>1, <2>2 DEF Remembers, Spaced
<1> QED
  BY <1>1 DEF LimiterInv, LimiterRemembers, WindowRespected

\* Only calls that are routed touch the limiter, and only time and a restart
\* touch what its invariant refers to.
THEOREM LimiterCorrect == Spec => []LimiterInv
<1>1. Init => LimiterInv
  BY FreshLimiter DEF Init
<1>2. TypeOK /\ LimiterInv /\ [Next]_vars => LimiterInv'
  <2> SUFFICES ASSUME TypeOK, LimiterInv, [Next]_vars PROVE LimiterInv'
    OBVIOUS
  <2>1. CASE UNCHANGED <<clock, policy, events, admitted>>
    BY <2>1 DEF LimiterInv, LimiterRemembers, WindowRespected, Remembers, Spaced, Limit, IsHigh
  <2>2. CASE Issue
    BY <2>1, <2>2 DEF Issue
  <2>3. CASE Propose
    <3>1. PICK inv \in Invocations : Route(inv, NoToken)
      BY <2>3 DEF Propose
    <3> QED
      BY <2>3, <3>1, RouteLimiter DEF Propose
  <2>4. CASE Mediate
    <3>1. PICK inv \in Invocations, t \in {NoToken} \cup Presented : Route(inv, t)
      BY <2>4 DEF Mediate
    <3> QED
      BY <2>4, <3>1, RouteLimiter DEF Mediate
  <2>5. CASE Execute
    BY <2>1, <2>5 DEF Execute, NoExecutor, Returns, Raises, GatewayRefuses, Answered,
       AnsweredBadly, TransportFails, GivesUp, Finish
  <2>6. CASE Restart
    <3>1. /\ events' = [k \in Keys |-> <<>>] /\ admitted' = [k \in Keys |-> <<>>]
          /\ UNCHANGED clock
      BY <2>6 DEF Restart, NewProcess
    <3>2. ASSUME NEW key \in Keys, NEW n, NEW now
          PROVE  Remembers(admitted'[key], events'[key], now) /\ Spaced(admitted'[key], n)
      <4>1. admitted'[key] = <<>> /\ events'[key] = <<>> /\ Len(<<>>) = 0 /\ DOMAIN <<>> = {}
        BY <3>1
      <4>2. 0 \in 0..Len(<<>>) /\ SubSeq(<<>>, 0 + 1, Len(<<>>)) = <<>> /\ 1..0 = {}
        BY SubSeqEmpty
      <4> QED
        BY <4>1, <4>2 DEF Remembers, Spaced
    <3> QED
      BY <3>2 DEF LimiterInv, LimiterRemembers, WindowRespected, Remembers, Spaced
  <2>7. CASE Tick
    BY <2>7, TickLimiter
  <2>8. CASE UNCHANGED vars
    BY <2>1, <2>8 DEF vars
  <2> QED
    BY <2>2, <2>3, <2>4, <2>5, <2>6, <2>7, <2>8 DEF Next
<1> QED
  BY <1>1, <1>2, TypeCorrect, PTL DEF Spec

-----------------------------------------------------------------------------
(***************************************************************************)
(* The runs of a process.  Strengthenings: the token of a run is spent,    *)
(* and a high-risk run was admitted at its time.                           *)
(***************************************************************************)
RunTokensSpent == \A i \in Runs : ran[i].token # NoToken => ran[i].token.id \in consumed

HighRiskRunsAdmitted ==
    \A i \in Runs : IsHigh(ToolOf(i)) =>
        \E p \in DOMAIN admitted[KeyOf(ran[i].inv)] :
            admitted[KeyOf(ran[i].inv)][p] = ran[i].at

TokenInv == RunTokensSpent /\ TokenRunsOnce
ApartInv == HighRiskRunsAdmitted /\ HighRiskRunsApart
RunsInv == TokenInv /\ RunsAreAuthorised /\ ApartInv

\* What a step that executes does to the runs: at most effects change.
SameRuns ==
    /\ Len(ran') = Len(ran)
    /\ \A i \in Runs : /\ ran'[i].inv = ran[i].inv
                       /\ ran'[i].token = ran[i].token
                       /\ ran'[i].at = ran[i].at

LEMMA RunTypes ==
    ASSUME TypeOK, NEW i \in Runs
    PROVE  /\ ran[i] \in RunRecord /\ ran[i].inv \in Invocations
           /\ ran[i].at \in Nat /\ KeyOf(ran[i].inv) \in Keys
<1>1. ran[i] \in RunRecord
  BY DEF TypeOK, Runs
<1>2. ran[i].inv \in Invocations /\ ran[i].at \in Nat
  BY <1>1 DEF RunRecord
<1> QED
  BY <1>1, <1>2, InvocationTypes

LEMMA FinishKeepsRuns ==
    ASSUME TypeOK, ~ Idle, NEW status, NEW effects, Finish(status, effects)
    PROVE  SameRuns
<1>1. ran \in Seq(RunRecord) /\ ran' = [ran EXCEPT ![call.run].effects = effects]
  BY DEF TypeOK, Finish
<1>2. call.run \in 1..Len(ran)
  BY DEF TypeOK
<1>3. Len(ran') = Len(ran) /\ DOMAIN ran' = DOMAIN ran
  BY <1>1
<1>4. ASSUME NEW i \in Runs
      PROVE  ran'[i].inv = ran[i].inv /\ ran'[i].token = ran[i].token /\ ran'[i].at = ran[i].at
  <2>1. ran[i] \in RunRecord
    BY RunTypes
  <2>2. CASE i = call.run
    <3>1. ran'[i] = [ran[i] EXCEPT !.effects = effects]
      BY <1>1, <1>2, <2>2
    <3> QED
      BY <2>1, <3>1 DEF RunRecord
  <2>3. CASE i # call.run
    BY <1>1, <2>3 DEF Runs
  <2> QED
    BY <2>2, <2>3
<1> QED
  BY <1>3, <1>4 DEF SameRuns

LEMMA ExecuteKeepsRuns ==
    ASSUME TypeOK, Execute
    PROVE  SameRuns /\ UNCHANGED <<policy, issued, consumed, admitted>>
<1>1. ~ Idle
  BY DEF Execute, NoExecutor, Returns, Raises, GatewayRefuses, Answered, AnsweredBadly,
         TransportFails, GivesUp, Idle, NoCall
<1>2. CASE TransportFails
  BY <1>2 DEF TransportFails, SameRuns
<1>3. CASE \E status, effects : Finish(status, effects)
  <2>1. PICK status, effects : Finish(status, effects)
    BY <1>3
  <2>2. SameRuns
    BY <1>1, <2>1, FinishKeepsRuns
  <2> QED
    BY <2>1, <2>2 DEF Finish
<1>4. Execute => TransportFails \/ \E status, effects : Finish(status, effects)
  BY Zenon DEF Execute, NoExecutor, Returns, Raises, GatewayRefuses, Answered, AnsweredBadly, GivesUp
<1> QED
  BY <1>2, <1>3, <1>4

\* Steps that start no call keep the invariant: capabilities are only added,
\* and admissions only grow at their end.
LEMMA OldRuns ==
    ASSUME TypeOK, RunsInv, SameRuns, UNCHANGED policy,
           consumed \subseteq consumed',
           Issued \subseteq Issued',
           \A key \in Keys : \A p \in DOMAIN admitted[key] :
               p \in DOMAIN admitted'[key] /\ admitted'[key][p] = admitted[key][p]
    PROVE  RunsInv'
<1>1. Runs' = Runs /\ \A i \in Runs : ToolOf(i)' = ToolOf(i)
  BY DEF SameRuns, Runs, ToolOf, TypeOK
<1>2. TokenInv'
  BY <1>1 DEF RunsInv, TokenInv, RunTokensSpent, TokenRunsOnce, SameRuns
<1>3. RunsAreAuthorised'
  BY <1>1 DEF RunsInv, RunsAreAuthorised, SameRuns
<1>4. HighRiskRunsApart'
  <2> SUFFICES ASSUME NEW i \in Runs, IsHigh(ToolOf(i))
               PROVE  /\ ran'[i].inv.confirmed /\ ToolOf(i) \in policy.approved
                      /\ \A j \in Runs : i < j /\ KeyOf(ran'[i].inv) = KeyOf(ran'[j].inv)
                              => ran'[i].at + Window < ran'[j].at
    BY <1>1 DEF HighRiskRunsApart, IsHigh, KeyOf
  <2>1. /\ ran[i].inv.confirmed /\ ToolOf(i) \in policy.approved
        /\ \A j \in Runs : i < j /\ KeyOf(ran[i].inv) = KeyOf(ran[j].inv)
                => ran[i].at + Window < ran[j].at
    BY DEF RunsInv, ApartInv, HighRiskRunsApart
  <2>2. \A j \in Runs : ran'[j].inv = ran[j].inv /\ ran'[j].at = ran[j].at
    BY DEF SameRuns
  <2> QED
    BY <2>1, <2>2
<1>5. HighRiskRunsAdmitted'
  <2> SUFFICES ASSUME NEW i \in Runs, IsHigh(ToolOf(i))
               PROVE  \E p \in DOMAIN admitted'[KeyOf(ran'[i].inv)] :
                          admitted'[KeyOf(ran'[i].inv)][p] = ran'[i].at
    BY <1>1 DEF HighRiskRunsAdmitted, IsHigh, KeyOf
  <2>1. KeyOf(ran[i].inv) \in Keys
    BY RunTypes
  <2>2. ran'[i].inv = ran[i].inv /\ ran'[i].at = ran[i].at
    BY DEF SameRuns
  <2>3. PICK p \in DOMAIN admitted[KeyOf(ran[i].inv)] :
            admitted[KeyOf(ran[i].inv)][p] = ran[i].at
    BY DEF RunsInv, ApartInv, HighRiskRunsAdmitted
  <2> QED
    BY <2>1, <2>2, <2>3
<1> QED
  BY <1>2, <1>3, <1>4, <1>5 DEF RunsInv, ApartInv
LEMMA RouteGrows ==
    ASSUME TypeOK, NEW inv \in Invocations, NEW t \in {NoToken} \cup Presented,
           Route(inv, t)
    PROVE  /\ consumed \subseteq consumed'
           /\ \A key \in Keys : \A p \in DOMAIN admitted[key] :
                  p \in DOMAIN admitted'[key] /\ admitted'[key][p] = admitted[key][p]
<1> DEFINE k == KeyOf(inv)
<1>1. k \in Keys /\ clock \in Nat /\ admitted \in [Keys -> Seq(Nat)]
  BY InvocationTypes DEF TypeOK
<1>2. consumed \subseteq consumed'
  BY DEF Route
<1>3. admitted' = admitted \/ admitted' = [admitted EXCEPT ![k] = Append(@, clock)]
  BY DEF Route
<1> HIDE DEF k
<1>4. ASSUME NEW key \in Keys, NEW p \in DOMAIN admitted[key],
             admitted' = [admitted EXCEPT ![k] = Append(@, clock)]
      PROVE  p \in DOMAIN admitted'[key] /\ admitted'[key][p] = admitted[key][p]
  <2>1. CASE key = k
    <3>1. admitted'[key] = Append(admitted[key], clock) /\ admitted[key] \in Seq(Nat)
      BY <1>1, <1>4, <2>1
    <3> QED
      BY <1>1, <3>1
  <2>2. CASE key # k
    BY <1>1, <1>4, <2>2
  <2> QED
    BY <2>1, <2>2
<1> QED
  BY <1>2, <1>3, <1>4

\* A call that is admitted adds a run.  Its token was not spent before, its
\* capability fits, and if it is high-risk the limiter has just counted it.
LEMMA StartedRuns ==
    ASSUME TypeOK, RunsInv, WindowRespected', UNCHANGED <<clock, policy, issued>>,
           NEW inv \in Invocations, NEW t \in {NoToken} \cup Presented,
           Route(inv, t), Admitted(inv, t), Started(inv, t)
    PROVE  RunsInv'
<1> DEFINE n == Len(ran)
           token == IF NeedsToken(inv) THEN t ELSE NoToken
           record == [inv |-> inv, token |-> token, at |-> clock, effects |-> 0]
<1>1. /\ n \in Nat /\ Runs = 1..n /\ Runs' = 1..(n + 1) /\ ran'[n + 1] = record
      /\ \A i \in Runs : ran'[i] = ran[i]
  <2>1. ran' = Append(ran, record)
    BY DEF Started
  <2>2. ran \in Seq(RunRecord)
    BY DEF TypeOK
  <2>3. ran' \in Seq(RunRecord)
    BY StartedTypes
  <2> HIDE DEF record
  <2> QED
    BY <2>1, <2>2, <2>3 DEF Runs
<1>2. /\ ran'[n + 1].inv = inv /\ ran'[n + 1].token = token /\ ran'[n + 1].at = clock
  BY <1>1
<1> HIDE DEF n, record
<1>3. Authorised(inv, t) /\ Acceptable(inv) /\ inv.tool \in DOMAIN Registry
  BY DEF Admitted, Authorised, Acceptable
<1>4. NeedsToken(inv) => /\ t # NoToken /\ TokenFits(inv, t)
                         /\ t \in Issued \/ t \in Forged
                         /\ t.id \in consumed'
  BY <1>3 DEF Authorised, Route, Spends, Presented
<1>5. \A i : IsHigh(ToolOf(i))' <=> IsHigh(ToolOf(i)')
  BY DEF IsHigh
<1>6. RunTokensSpent'
  <2> SUFFICES ASSUME NEW i \in Runs', ran'[i].token # NoToken
               PROVE  ran'[i].token.id \in consumed'
    BY DEF RunTokensSpent
  <2>1. CASE i \in Runs
    BY <1>1, <2>1, RouteGrows DEF RunsInv, TokenInv, RunTokensSpent
  <2>2. CASE i = n + 1
    BY <1>2, <1>4, <2>2
  <2> QED
    BY <1>1, <2>1, <2>2
<1>7. TokenRunsOnce'
  <2>1. \A i \in Runs :
            ran[i].token # NoToken /\ token # NoToken => ran[i].token.id # token.id
    BY <1>4 DEF RunsInv, TokenInv, RunTokensSpent, TokenFits
  <2> SUFFICES ASSUME NEW i \in Runs', NEW j \in Runs', ran'[i].token # NoToken,
                      ran'[j].token # NoToken, ran'[i].token.id = ran'[j].token.id
               PROVE  i = j
    BY DEF TokenRunsOnce
  <2>2. CASE i \in Runs /\ j \in Runs
    BY <1>1, <2>2 DEF RunsInv, TokenInv, TokenRunsOnce
  <2>3. CASE i = n + 1 /\ j \in Runs
    BY <1>1, <1>2, <2>1, <2>3
  <2>4. CASE i \in Runs /\ j = n + 1
    BY <1>1, <1>2, <2>1, <2>4
  <2> QED
    BY <1>1, <2>2, <2>3, <2>4
<1>8. RunsAreAuthorised'
  <2> SUFFICES ASSUME NEW i \in Runs', Registry[ToolOf(i)'].sensitive
               PROVE  LET tok == ran'[i].token
                          call_ == ran'[i].inv
                      IN  /\ tok \in Issued \/ tok \in Forged
                          /\ tok.actor = call_.who.actor /\ tok.tenant = call_.who.tenant
                          /\ tok.tool = call_.tool /\ call_.op \in tok.ops
                          /\ tok.version = policy.version
                          /\ ran'[i].at <= tok.expires
    BY DEF RunsAreAuthorised, Issued
  <2>1. CASE i \in Runs
    BY <1>1, <2>1 DEF RunsInv, RunsAreAuthorised, ToolOf
  <2>2. CASE i = n + 1
    <3>1. NeedsToken(inv)
      BY <1>2, <2>2 DEF NeedsToken, ToolOf
    <3> QED
      BY <1>2, <1>4, <2>2, <3>1 DEF TokenFits
  <2> QED
    BY <1>1, <2>1, <2>2
<1>9. IsHigh(inv.tool) =>
          /\ inv.confirmed /\ inv.tool \in policy.approved
          /\ Limit(inv.tool) = 1 /\ Limit(inv.tool)' = 1
          /\ admitted' = [admitted EXCEPT ![KeyOf(inv)] = Append(@, clock)]
  <2> SUFFICES ASSUME IsHigh(inv.tool)
               PROVE  /\ inv.confirmed /\ inv.tool \in policy.approved
                      /\ Limit(inv.tool) = 1 /\ Limit(inv.tool)' = 1
                      /\ admitted' = [admitted EXCEPT ![KeyOf(inv)] = Append(@, clock)]
    OBVIOUS
  <2>1. Limit(inv.tool) = 1 /\ Limit(inv.tool)' = 1
    BY DEF Limit, IsHigh
  <2>2. inv.confirmed /\ inv.tool \in policy.approved
    BY DEF Admitted, Approved, Confirmed, NeedsConfirmation
  <2>3. Counted(inv, t) /\ WithinLimit(inv)
    BY <2>1 DEF Admitted, Counted
  <2> QED
    BY <2>1, <2>2, <2>3 DEF Route
<1>10. ASSUME IsHigh(inv.tool)
       PROVE  /\ KeyOf(inv) \in Keys /\ KeyOf(inv)[3] = inv.tool
              /\ admitted[KeyOf(inv)] \in Seq(Nat) /\ clock \in Nat
              /\ admitted'[KeyOf(inv)] = Append(admitted[KeyOf(inv)], clock)
  <2>1. admitted \in [Keys -> Seq(Nat)] /\ clock \in Nat
    BY DEF TypeOK
  <2> QED
    BY <1>9, <1>10, <2>1, InvocationTypes
<1>11. HighRiskRunsAdmitted'
  <2> SUFFICES ASSUME NEW i \in Runs', IsHigh(ToolOf(i))'
               PROVE  \E p \in DOMAIN admitted'[KeyOf(ran'[i].inv)] :
                          admitted'[KeyOf(ran'[i].inv)][p] = ran'[i].at
    BY DEF HighRiskRunsAdmitted, KeyOf
  <2>1. CASE i \in Runs
    <3>1. KeyOf(ran[i].inv) \in Keys /\ ran'[i] = ran[i]
      BY <1>1, <2>1, RunTypes
    <3>2. IsHigh(ToolOf(i))
      BY <3>1 DEF IsHigh, ToolOf
    <3>3. PICK p \in DOMAIN admitted[KeyOf(ran[i].inv)] :
              admitted[KeyOf(ran[i].inv)][p] = ran[i].at
      BY <2>1, <3>2 DEF RunsInv, ApartInv, HighRiskRunsAdmitted
    <3> QED
      BY <3>1, <3>3, RouteGrows
  <2>2. CASE i = n + 1
    <3>1. IsHigh(inv.tool) /\ ran'[i].inv = inv /\ ran'[i].at = clock
      BY <1>2, <2>2 DEF IsHigh, ToolOf
    <3> DEFINE p == Len(admitted[KeyOf(inv)]) + 1
    <3>2. p \in DOMAIN admitted'[KeyOf(inv)] /\ admitted'[KeyOf(inv)][p] = clock
      BY <1>10, <3>1
    <3> HIDE DEF p
    <3> QED
      BY <3>1, <3>2
  <2> QED
    BY <1>1, <2>1, <2>2
<1>12. HighRiskRunsApart'
  <2> SUFFICES ASSUME NEW i \in Runs', IsHigh(ToolOf(i))'
               PROVE  /\ ran'[i].inv.confirmed /\ ran'[i].inv.tool \in policy.approved
                      /\ \A j \in Runs' :
                            i < j /\ KeyOf(ran'[i].inv) = KeyOf(ran'[j].inv)
                                => ran'[i].at + Window < ran'[j].at
    BY DEF HighRiskRunsApart, ToolOf, KeyOf
  <2>1. CASE i = n + 1
    BY <1>1, <1>2, <1>9, <2>1 DEF IsHigh, ToolOf
  <2>2. CASE i \in Runs
    <3>1. IsHigh(ToolOf(i)) /\ ran'[i] = ran[i]
      BY <1>1, <2>2 DEF IsHigh, ToolOf
    <3>2. ran[i].inv.confirmed /\ ran[i].inv.tool \in policy.approved
      BY <2>2, <3>1 DEF RunsInv, ApartInv, HighRiskRunsApart, ToolOf
    <3>3. ASSUME NEW j \in Runs', i < j, KeyOf(ran'[i].inv) = KeyOf(ran'[j].inv)
          PROVE  ran'[i].at + Window < ran'[j].at
      <4>1. CASE j \in Runs
        BY <1>1, <2>2, <3>1, <3>3, <4>1 DEF RunsInv, ApartInv, HighRiskRunsApart
      <4>2. CASE j = n + 1
        <5> DEFINE key == KeyOf(inv)
                   times == admitted[key]
        <5>1. ran'[j].inv = inv /\ ran'[j].at = clock /\ KeyOf(ran[i].inv) = key
          BY <1>2, <3>1, <3>3, <4>2
        <5>2. ran[i].inv.tool = inv.tool
          BY <5>1 DEF KeyOf
        <5>3. IsHigh(inv.tool)
          BY <3>1, <5>2 DEF ToolOf
        <5>4. PICK p \in DOMAIN times : times[p] = ran[i].at
          BY <2>2, <3>1, <5>1 DEF RunsInv, ApartInv, HighRiskRunsAdmitted
        <5>5. Spaced(admitted'[key], 1)
          BY <1>3, <1>9, <1>10, <5>3 DEF WindowRespected, Spaced
        <5>6. times \in Seq(Nat) /\ clock \in Nat /\ admitted'[key] = Append(times, clock)
          BY <1>10, <5>3
        <5> HIDE DEF times, key
        <5>7. /\ p \in DOMAIN admitted'[key] /\ admitted'[key][p] = times[p]
              /\ Len(times) + 1 \in DOMAIN admitted'[key]
              /\ admitted'[key][Len(times) + 1] = clock
              /\ p + 1 <= Len(times) + 1
          BY <5>4, <5>6
        <5>8. times[p] + Window < clock
          BY <5>5, <5>7 DEF Spaced
        <5> QED
          BY <3>1, <5>1, <5>4, <5>8
      <4> QED
        BY <1>1, <4>1, <4>2
    <3> QED
      BY <3>1, <3>2, <3>3
  <2> QED
    BY <1>1, <2>1, <2>2
<1> QED
  BY <1>6, <1>7, <1>8, <1>11, <1>12 DEF RunsInv, TokenInv, ApartInv

LEMMA RunsStep ==
    ASSUME TypeOK, LimiterInv', RunsInv, [Next]_vars
    PROVE  RunsInv'
<1>1. ran \in Seq(RunRecord) /\ issued \in Seq(Token)
  BY DEF TypeOK
<1>2. UNCHANGED ran => SameRuns
  BY DEF SameRuns
<1>3. CASE Issue
  <2>1. PICK token : issued' = Append(issued, token)
    BY <1>3 DEF Issue
  <2>2. Issued \subseteq Issued'
    <3>1. \A t \in DOMAIN issued : t \in DOMAIN issued' /\ issued'[t] = issued[t]
      BY <1>1, <2>1
    <3> QED
      BY <3>1 DEF Issued
  <2>3. UNCHANGED <<policy, consumed, admitted, ran>>
    BY <1>3 DEF Issue
  <2> QED
    BY <1>2, <2>2, <2>3, OldRuns
<1>4. CASE Propose
  <2>1. PICK inv \in Invocations : Route(inv, NoToken)
    BY <1>4 DEF Propose
  <2>2. UNCHANGED <<policy, issued, ran>>
    BY <1>4 DEF Propose
  <2>3. /\ consumed \subseteq consumed'
        /\ \A key \in Keys : \A p \in DOMAIN admitted[key] :
               p \in DOMAIN admitted'[key] /\ admitted'[key][p] = admitted[key][p]
    BY <2>1, RouteGrows
  <2> QED
    BY <1>2, <2>2, <2>3, OldRuns DEF Issued
<1>5. CASE Mediate
  <2>1. PICK inv \in Invocations, t \in {NoToken} \cup Presented :
            /\ Route(inv, t)
            /\ IF Admitted(inv, t)
               THEN Started(inv, t)
               ELSE answer' = Decision(inv, t) /\ UNCHANGED <<ran, call>>
    BY <1>5 DEF Mediate
  <2>2. UNCHANGED <<clock, policy, issued>>
    BY <1>5 DEF Mediate
  <2>3. CASE Admitted(inv, t)
    BY <2>1, <2>2, <2>3, StartedRuns DEF LimiterInv
  <2>4. CASE ~ Admitted(inv, t)
    <3>1. /\ consumed \subseteq consumed'
          /\ \A key \in Keys : \A p \in DOMAIN admitted[key] :
                 p \in DOMAIN admitted'[key] /\ admitted'[key][p] = admitted[key][p]
      BY <2>1, RouteGrows
    <3> QED
      BY <1>2, <2>1, <2>2, <2>4, <3>1, OldRuns DEF Issued
  <2> QED
    BY <2>3, <2>4
<1>6. CASE Execute
  BY <1>6, ExecuteKeepsRuns, OldRuns DEF Issued
<1>7. CASE Restart
  <2>1. ran' = <<>> /\ Runs' = {}
    BY <1>7 DEF Restart, NewProcess, Runs
  <2> QED
    BY <2>1 DEF RunsInv, TokenInv, ApartInv, RunTokensSpent, TokenRunsOnce,
       RunsAreAuthorised, HighRiskRunsAdmitted, HighRiskRunsApart
<1>8. CASE Tick
  BY <1>2, <1>8, OldRuns DEF Tick, Issued
<1>9. CASE UNCHANGED vars
  BY <1>2, <1>9, OldRuns DEF vars, Issued
<1> QED
  BY <1>3, <1>4, <1>5, <1>6, <1>7, <1>8, <1>9 DEF Next

THEOREM RunsCorrect == Spec => []RunsInv
<1>1. Init => RunsInv
  <2> SUFFICES ASSUME Init PROVE RunsInv
    OBVIOUS
  <2>1. Runs = {}
    BY DEF Init, Runs
  <2> QED
    BY <2>1 DEF RunsInv, TokenInv, ApartInv, RunTokensSpent, TokenRunsOnce,
       RunsAreAuthorised, HighRiskRunsAdmitted, HighRiskRunsApart
<1>2. TypeOK /\ LimiterInv' /\ RunsInv /\ [Next]_vars => RunsInv'
  BY RunsStep
<1> QED
  BY <1>1, <1>2, TypeCorrect, LimiterCorrect, PTL DEF Spec

-----------------------------------------------------------------------------
\* The queue of every key is a tail of its admissions, and what the limiter has
\* dropped is older than the window.
THEOREM LimiterRemembersCorrect == Spec => []LimiterRemembers
<1>1. LimiterInv => LimiterRemembers
  BY DEF LimiterInv
<1> QED
  BY <1>1, LimiterCorrect, PTL

\* In every window of every key at most as many calls are admitted as the
\* limit of the tool allows.
THEOREM WindowCorrect == Spec => []WindowRespected
<1>1. LimiterInv => WindowRespected
  BY DEF LimiterInv
<1> QED
  BY <1>1, LimiterCorrect, PTL

\* A capability admits at most one execution in the life of a process.
THEOREM TokenRunsOnceCorrect == Spec => []TokenRunsOnce
<1>1. RunsInv => TokenRunsOnce
  BY DEF RunsInv, TokenInv
<1> QED
  BY <1>1, RunsCorrect, PTL

\* Sensitive tools are executed only under a capability whose fields fit the
\* call; nothing says who made it.
THEOREM AuthorisedCorrect == Spec => []RunsAreAuthorised
<1>1. RunsInv => RunsAreAuthorised
  BY DEF RunsInv
<1> QED
  BY <1>1, RunsCorrect, PTL

\* Where callers make no capabilities up, the one that a sensitive call carries
\* was returned by the issuer, to the actor and for the tool and the operation of
\* this call.
THEOREM IssuedCorrect ==
    ASSUME Forged = {}
    PROVE  Spec => [](\A i \in Runs : Registry[ToolOf(i)].sensitive =>
               \E token \in Issued :
                   /\ ran[i].token = token
                   /\ token.actor = ran[i].inv.who.actor
                   /\ token.tenant = ran[i].inv.who.tenant
                   /\ token.tool = ran[i].inv.tool /\ ran[i].inv.op \in token.ops)
<1>1. RunsAreAuthorised => \A i \in Runs : Registry[ToolOf(i)].sensitive =>
          \E token \in Issued :
              /\ ran[i].token = token
              /\ token.actor = ran[i].inv.who.actor
              /\ token.tenant = ran[i].inv.who.tenant
              /\ token.tool = ran[i].inv.tool /\ ran[i].inv.op \in token.ops
  BY DEF RunsAreAuthorised
<1> QED
  BY <1>1, AuthorisedCorrect, PTL

\* High-risk executions of an actor are more than a window apart.
THEOREM HighRiskCorrect == Spec => []HighRiskRunsApart
<1>1. RunsInv => HighRiskRunsApart
  BY DEF RunsInv, ApartInv
<1> QED
  BY <1>1, RunsCorrect, PTL
=============================================================================
