------------------------------ MODULE ToolRouter ------------------------------
(***************************************************************************)
(* Mediated tool calls of the starter kit (myStarterKit-maindashb-main):   *)
(* SecureToolRouter with its capability validator and its sliding-window   *)
(* rate limiter, the issuer of capabilities, the policy engine's decisions *)
(* on tools.issue_capability and tools.invoke, and the three ways a call   *)
(* is executed: a local executor, the sandbox of high-risk tools, and an   *)
(* MCP server behind SecureMCPGateway, which is retried.                   *)
(*                                                                         *)
(* The kit handles one call at a time.  Consumed capabilities and windows  *)
(* live in the memory of the process: a restart forgets them, and may      *)
(* bring another policy.  Tokens are held by the callers and survive.      *)
(***************************************************************************)
EXTENDS Integers, Sequences, FiniteSets

CONSTANTS
    Tools,       \* tool names that callers use, registered or not
    Registry,    \* descriptors of the registered tools
    Operations,  \* actions of an invocation
    Identities,  \* on whose behalf calls are made
    Policies,    \* policies that a process may be started with
    Invocations, \* what callers ask for, without its capability token
    Grants,      \* what callers ask capabilities for
    Forged,      \* capabilities that callers may make up: tokens are not signed
    Window,      \* length of the rate window (one minute)
    MaxTtl,      \* longest lifetime of a capability (600 seconds)
    ScopeLimit,  \* operations of one capability (5)
    RetryLimit,  \* retries of the gateway (retry_limit of a server profile)
    MaxClock,    \* bound: the clock
    MaxTokens,   \* bound: capabilities issued
    MaxRuns      \* bound: calls executed by one process

VARIABLES
    clock,       \* wall clock; it does not step back
    policy,      \* the policy of the process
    issued,      \* capabilities issued so far; the id of one is its position
    consumed,    \* _consumed_capabilities of the validator, ids
    events,      \* _events of the limiter: a queue of times per key
    call,        \* the call that is being executed
    admitted,    \* history: times at which the limiter has said yes, per key
    ran,         \* history: the calls executed by this process
    answer       \* status of the decision that was returned last

vars == <<clock, policy, issued, consumed, events, call, admitted, ran, answer>>

(***************************************************************************)
(* Data.  An identity's delegation chain is reduced to whether it is       *)
(* continuous and narrowing, what its last grant covers, and when the      *)
(* first of its grants expires.                                            *)
(***************************************************************************)
Invoke == "tools.invoke"
IssueCapability == "tools.issue_capability"
RouteTools == "tools.route"
Capabilities == {Invoke, IssueCapability, RouteTools}
Proposal == "propose"
NoToken == [id |-> 0]
High == "high"

Descriptor == [
    allowed   : BOOLEAN,
    risk      : {"low", "moderate", High},
    sensitive : BOOLEAN,
    isolated  : BOOLEAN,          \* isolation metadata that the sandbox supports
    forbidden : SUBSET Operations,
    executor  : {"none", "local", "mcp"}]

Identity == [
    actor  : STRING, tenant : STRING,
    caps   : SUBSET Capabilities,
    chain  : {"none", "sound", "broken"},
    scope  : SUBSET Capabilities,
    until  : Nat]

Policy == [
    version : STRING,
    running : BOOLEAN,             \* valid, no kill switch, tools enabled for the tier
    allowed : SUBSET Tools, forbidden : SUBSET Tools,
    confirm : SUBSET Tools, approved  : SUBSET Tools,
    limits  : [Tools -> Nat]]      \* 0 for a tool without a limit

Invocation == [
    who        : Identities, tool : Tools, op : Operations,
    wellFormed : BOOLEAN,          \* names present, arguments pass validation
    restricted : BOOLEAN,          \* an argument the policy forbids for the tool
    confirmed  : BOOLEAN]

Grant == [who : Identities, tool : Tools, ops : SUBSET Operations, ttl : Int]

Token == [id : Nat, actor : STRING, tenant : STRING, tool : Tools,
          ops : SUBSET Operations, expires : Int, version : STRING]

ASSUME ToolAssumption ==
    /\ DOMAIN Registry \subseteq Tools
    /\ Registry \in [DOMAIN Registry -> Descriptor]
    /\ Identities \subseteq Identity
    /\ Policies \subseteq Policy
    /\ Policies # {}
    /\ Invocations \subseteq Invocation
    /\ Grants \subseteq Grant
    /\ Forged \subseteq Token
    /\ {Window, MaxTtl, ScopeLimit, RetryLimit, MaxClock, MaxTokens, MaxRuns} \subseteq Nat

\* The limiter is asked per tenant, actor and tool.
Keys == {<<id.tenant, id.actor, t>> : id \in Identities, t \in Tools}
KeyOf(inv) == <<inv.who.tenant, inv.who.actor, inv.tool>>

-----------------------------------------------------------------------------
(***************************************************************************)
(* Decisions of the policy engine.                                         *)
(***************************************************************************)
DelegationHolds(id, action) ==
    \/ id.chain = "none"
    \/ id.chain = "sound" /\ clock <= id.until /\ action \in id.scope

ToolPermitted(tool) ==
    /\ tool \notin policy.forbidden
    /\ policy.allowed # {} => tool \in policy.allowed

PolicyAllowsIssue(g) ==
    /\ policy.running
    /\ DelegationHolds(g.who, IssueCapability)
    /\ IssueCapability \in g.who.caps
    /\ g.ops # {}
    /\ 0 < g.ttl /\ g.ttl <= MaxTtl
    /\ ToolPermitted(g.tool)

PolicyAllowsInvoke(inv) ==
    /\ policy.running
    /\ DelegationHolds(inv.who, Invoke)
    /\ Invoke \in inv.who.caps
    /\ ToolPermitted(inv.tool)
    /\ ~ inv.restricted

IsHigh(tool) == Registry[tool].risk = High

NeedsConfirmation(tool) == tool \in policy.confirm \/ IsHigh(tool)

\* Mutant: the cap of high-risk tools is forgotten.
LimitUncapped(tool) == policy.limits[tool]

\* The limit in force, 0 if none.  A high-risk tool runs once in a window.
Limit(tool) == IF IsHigh(tool) THEN 1 ELSE policy.limits[tool]

(***************************************************************************)
(* The limiter.  Outdated times leave the queue from its front.            *)
(***************************************************************************)
Outdated(queue, start) ==
    CHOOSE k \in 0..Len(queue) :
        /\ \A i \in 1..k : queue[i] < start
        /\ k < Len(queue) => queue[k + 1] >= start

\* Mutant: a call exactly one window ago no longer counts.
CurrentHalfOpen(queue) ==
    LET k == Outdated(queue, clock - Window + 1) IN SubSeq(queue, k + 1, Len(queue))

\* Mutant: a fixed window, which begins anew when its first time is outdated.
CurrentFixed(queue) ==
    IF Outdated(queue, clock - Window) > 0 THEN <<>> ELSE queue

Current(queue) ==
    LET k == Outdated(queue, clock - Window) IN SubSeq(queue, k + 1, Len(queue))

WithinLimit(inv) == Len(Current(events[KeyOf(inv)])) < Limit(inv.tool)

(***************************************************************************)
(* The validator.  It reads any token by its fields, whoever made it: a    *)
(* caller presents one that the issuer returned, to it or to another, or   *)
(* one of its own making, perhaps under the id of an issued one.           *)
(***************************************************************************)
Issued == {issued[i] : i \in DOMAIN issued}
Presented == Issued \cup Forged

\* Mutant: the actor of a token is not compared.
TokenFitsAnyActor(inv, token) ==
    /\ clock <= token.expires
    /\ token.id \notin consumed
    /\ token.version = policy.version
    /\ token.tenant = inv.who.tenant
    /\ token.tool = inv.tool
    /\ inv.op \in token.ops
    /\ Cardinality(token.ops) <= ScopeLimit

TokenFits(inv, token) ==
    /\ clock <= token.expires
    /\ token.id \notin consumed
    /\ token.version = policy.version
    /\ token.actor = inv.who.actor
    /\ token.tenant = inv.who.tenant
    /\ token.tool = inv.tool
    /\ inv.op \in token.ops
    /\ Cardinality(token.ops) <= ScopeLimit

(***************************************************************************)
(* route(), guard after guard.  Rejected before the validator is asked, a  *)
(* call changes nothing; after it, its capability is spent, whatever the   *)
(* policy, the confirmation and the limiter then say.                      *)
(***************************************************************************)
Acceptable(inv) ==
    /\ inv.wellFormed
    /\ DelegationHolds(inv.who, Invoke)
    /\ inv.tool \in DOMAIN Registry
    /\ inv.op \notin Registry[inv.tool].forbidden
    /\ IsHigh(inv.tool) => Registry[inv.tool].isolated

NeedsToken(inv) == Registry[inv.tool].sensitive

Authorised(inv, t) ==
    Acceptable(inv) /\ (NeedsToken(inv) => t # NoToken /\ TokenFits(inv, t))

Approved(inv) ==
    PolicyAllowsInvoke(inv) /\ (IsHigh(inv.tool) => inv.tool \in policy.approved)

Confirmed(inv) == NeedsConfirmation(inv.tool) => inv.confirmed

\* Mutant: the confirmed repetition of a call spends nothing.
SpendsUnconfirmed(inv, t) ==
    IF Authorised(inv, t) /\ NeedsToken(inv) /\ ~ inv.confirmed THEN {t.id} ELSE {}

\* The capabilities that a call spends.
Spends(inv, t) ==
    IF Authorised(inv, t) /\ NeedsToken(inv) THEN {t.id} ELSE {}

\* The limiter is reached, with a limit.
Counted(inv, t) ==
    Authorised(inv, t) /\ Approved(inv) /\ Confirmed(inv) /\ Limit(inv.tool) > 0

Admitted(inv, t) ==
    /\ Authorised(inv, t) /\ Approved(inv) /\ Confirmed(inv)
    /\ Limit(inv.tool) > 0 => WithinLimit(inv)

Decision(inv, t) ==
    IF Admitted(inv, t) THEN "allow"
    ELSE IF Authorised(inv, t) /\ Approved(inv) /\ ~ Confirmed(inv)
         THEN "require_confirmation"
         ELSE "deny"

Route(inv, t) ==
    LET key == KeyOf(inv)
    IN  /\ consumed' = consumed \cup Spends(inv, t)
        /\ IF Counted(inv, t)
           THEN LET rest == Current(events[key])
                IN  IF WithinLimit(inv)
                    THEN /\ events' = [events EXCEPT ![key] = Append(rest, clock)]
                         /\ admitted' = [admitted EXCEPT ![key] = Append(@, clock)]
                    ELSE /\ events' = [events EXCEPT ![key] = rest]
                         /\ UNCHANGED admitted
           ELSE UNCHANGED <<events, admitted>>

-----------------------------------------------------------------------------
(***************************************************************************)
(* The state machine.                                                      *)
(***************************************************************************)
NoCall == [phase |-> "none", run |-> 0, left |-> 0, effects |-> 0]

Idle == call = NoCall

NewProcess ==
    /\ consumed' = {}
    /\ events' = [k \in Keys |-> <<>>]
    /\ call' = NoCall
    /\ admitted' = [k \in Keys |-> <<>>]
    /\ ran' = <<>>
    /\ answer' = "none"

Init ==
    /\ clock = 0
    /\ policy \in Policies
    /\ issued = <<>>
    /\ consumed = {}
    /\ events = [k \in Keys |-> <<>>]
    /\ call = NoCall
    /\ admitted = [k \in Keys |-> <<>>]
    /\ ran = <<>>
    /\ answer = "none"

Issue ==
    /\ Idle
    /\ Len(issued) < MaxTokens
    /\ \E g \in Grants :
          /\ PolicyAllowsIssue(g)
          /\ issued' = Append(issued,
                 [id |-> Len(issued) + 1, actor |-> g.who.actor, tenant |-> g.who.tenant, tool |-> g.tool,
                  ops |-> g.ops, expires |-> clock + g.ttl,
                  version |-> policy.version])
    /\ UNCHANGED <<clock, policy, consumed, events, call, admitted, ran, answer>>

\* The orchestrator routes a call of every registered tool that the policy
\* allows, and never executes one.
Propose ==
    /\ Idle
    /\ policy.running
    /\ \E inv \in Invocations :
          /\ inv.op = Proposal /\ ~ inv.confirmed
          /\ DelegationHolds(inv.who, RouteTools) /\ RouteTools \in inv.who.caps
          /\ inv.tool \in policy.allowed \cap DOMAIN Registry
          /\ Route(inv, NoToken)
          /\ answer' = Decision(inv, NoToken)
    /\ UNCHANGED <<clock, policy, issued, call, ran>>

\* mediate_and_execute, up to the executor.
Started(inv, t) ==
    /\ ran' = Append(ran, [inv |-> inv, token |-> IF NeedsToken(inv) THEN t ELSE NoToken,
                          at |-> clock, effects |-> 0])
    /\ call' = [phase |-> IF IsHigh(inv.tool) THEN "sandbox"
                          ELSE Registry[inv.tool].executor,
                run |-> Len(ran) + 1, left |-> RetryLimit + 1, effects |-> 0]
    /\ UNCHANGED answer

Mediate ==
    /\ Idle
    /\ Len(ran) < MaxRuns
    /\ \E inv \in Invocations, t \in {NoToken} \cup Presented :
          /\ Route(inv, t)
          /\ IF Admitted(inv, t)
             THEN Started(inv, t)
             ELSE /\ answer' = Decision(inv, t)
                  /\ UNCHANGED <<ran, call>>
    /\ UNCHANGED <<clock, policy, issued>>

Finish(status, effects) ==
    /\ answer' = status
    /\ ran' = [ran EXCEPT ![call.run].effects = effects]
    /\ call' = NoCall
    /\ UNCHANGED <<clock, policy, issued, consumed, events, admitted>>

\* The registry has no executor for the tool and raises.
NoExecutor ==
    /\ call.phase = "none"
    /\ ~ Idle
    /\ Finish("deny", 0)

\* A local executor, or the sandbox, returns; a command that is out of time
\* returns, too.
Returns ==
    /\ call.phase \in {"local", "sandbox"}
    /\ Finish("allow", 1)

\* It raises, before or after it has done its work.
Raises ==
    /\ call.phase \in {"local", "sandbox"}
    /\ \E effects \in {0, 1} : Finish("deny", effects)

\* _profile, _check_identity, _check_server_policy or the size of the request.
GatewayRefuses ==
    /\ call.phase = "mcp"
    /\ call.left = RetryLimit + 1
    /\ Finish("deny", 0)

\* One transport call, answered in time.
Answered ==
    /\ call.phase = "mcp"
    /\ call.left > 0
    /\ Finish("allow", call.effects + 1)

\* Answered in a form or a size that the gateway refuses.
AnsweredBadly ==
    /\ call.phase = "mcp"
    /\ call.left > 0
    /\ Finish("deny", call.effects + 1)

\* Mutant: a failed attempt is not counted.
TransportFailsUncounted ==
    /\ call.phase = "mcp"
    /\ call.left > 0
    /\ \E effect \in {0, 1} : call' = [call EXCEPT !.effects = @ + effect]
    /\ UNCHANGED <<clock, policy, issued, consumed, events, admitted, ran, answer>>

\* A timeout, a broken connection, an audit sink that fails after the answer:
\* the server may or may not have done what it was asked.
TransportFails ==
    /\ call.phase = "mcp"
    /\ call.left > 0
    /\ \E effect \in {0, 1} :
          call' = [call EXCEPT !.left = @ - 1, !.effects = @ + effect]
    /\ UNCHANGED <<clock, policy, issued, consumed, events, admitted, ran, answer>>

\* Mutant: only an attempt that had an effect is given up.
GivesUpAfterEffect ==
    /\ call.phase = "mcp"
    /\ call.left = 0
    /\ call.effects > 0
    /\ Finish("deny", call.effects)

\* "protocol error after retries".
GivesUp ==
    /\ call.phase = "mcp"
    /\ call.left = 0
    /\ Finish("deny", call.effects)

Restart ==
    /\ policy' \in Policies
    /\ NewProcess
    /\ UNCHANGED <<clock, issued>>

Tick ==
    /\ clock < MaxClock
    /\ clock' = clock + 1
    /\ UNCHANGED <<policy, issued, consumed, events, call, admitted, ran, answer>>

Execute ==
    \/ NoExecutor
    \/ Returns
    \/ Raises
    \/ GatewayRefuses
    \/ Answered
    \/ AnsweredBadly
    \/ TransportFails
    \/ GivesUp

Next == Issue \/ Propose \/ Mediate \/ Execute \/ Restart \/ Tick

Spec == Init /\ [][Next]_vars

\* A call that was started is carried on; nothing else has to happen.
FairSpec == Spec /\ WF_vars(Execute)

-----------------------------------------------------------------------------
(***************************************************************************)
(* Types.                                                                  *)
(***************************************************************************)
Attempts == RetryLimit + 1

Call == [phase : {"none", "local", "mcp", "sandbox"}, run : Nat,
         left : 0..Attempts, effects : 0..Attempts]

RunRecord == [inv : Invocations, token : {NoToken} \cup Token, at : Nat, effects : 0..Attempts]

Answers == {"none", "allow", "deny", "require_confirmation"}

\* The type invariant.  The call in progress is the last one that was started,
\* and what it has done is at most what the attempts it has used allow: however
\* often the gateway retries, one run reaches the server RetryLimit + 1 times.
TypeOK ==
    /\ clock \in Nat
    /\ policy \in Policies
    /\ issued \in Seq(Token)
    /\ consumed \subseteq {t.id : t \in Presented}
    /\ events \in [Keys -> Seq(Nat)]
    /\ call \in Call
    /\ Idle \/ (ran # <<>> /\ call.run = Len(ran) /\ call.effects + call.left <= Attempts)
    /\ admitted \in [Keys -> Seq(Nat)]
    /\ ran \in Seq(RunRecord)
    /\ answer \in Answers

-----------------------------------------------------------------------------
(***************************************************************************)
(* Safety.                                                                 *)
(***************************************************************************)
Runs == DOMAIN ran
ToolOf(i) == ran[i].inv.tool

\* A capability admits at most one execution in the life of a process, although
\* calls are repeated after a denial, a confirmation or a failed execution, and
\* although callers change its other fields and keep its id.
TokenRunsOnce ==
    \A i, j \in Runs :
        /\ ran[i].token # NoToken /\ ran[j].token # NoToken
        /\ ran[i].token.id = ran[j].token.id
        => i = j

\* Every execution of a sensitive tool carried a capability in the name of its
\* own actor and tenant for this tool and operation, of the version of the policy
\* in force when it ran, and not expired by then.  It is one that the issuer
\* returned, under the policy, only where callers make none up (Forged = {}):
\* nothing in a token tells who made it.
RunsAreAuthorised ==
    \A i \in Runs : Registry[ToolOf(i)].sensitive =>
        LET token == ran[i].token
            inv == ran[i].inv
        IN  /\ token \in Issued \/ token \in Forged
            /\ token.actor = inv.who.actor /\ token.tenant = inv.who.tenant
            /\ token.tool = inv.tool /\ inv.op \in token.ops
            /\ token.version = policy.version
            /\ ran[i].at <= token.expires

\* What the queue holds are the newest admissions, in order; what has been
\* dropped from it is more than a window old.
Remembers(times, queue, now) ==
    /\ \A i \in DOMAIN times : times[i] <= now
    /\ \A i, j \in DOMAIN times : i <= j => times[i] <= times[j]
    /\ \E k \in 0..Len(times) :
          /\ queue = SubSeq(times, k + 1, Len(times))
          /\ \A i \in 1..k : times[i] + Window < now

\* No closed interval of one window holds more than n of the times.
Spaced(times, n) ==
    \A i, j \in DOMAIN times : i + n <= j => times[i] + Window < times[j]

\* The limiter forgets no admission that could still count, whatever it
\* refuses and drops, and in whatever order keys are asked for.
LimiterRemembers == \A key \in Keys : Remembers(admitted[key], events[key], clock)

\* The admissions of a key respect the limit of its tool in every window, also
\* in windows that begin or end between two calls of the limiter.
WindowRespected ==
    \A key \in Keys :
        LET tool == key[3]
        IN  tool \in DOMAIN Registry /\ Limit(tool) > 0 => Spaced(admitted[key], Limit(tool))

\* High-risk calls of one actor are executed more than a window apart, and only
\* confirmed and approved, whatever limit the policy sets for their tool and
\* whatever was proposed, refused or failed in between.
HighRiskRunsApart ==
    \A i \in Runs : IsHigh(ToolOf(i)) =>
        /\ ran[i].inv.confirmed
        /\ ToolOf(i) \in policy.approved
        /\ \A j \in Runs :
              i < j /\ KeyOf(ran[i].inv) = KeyOf(ran[j].inv)
                  => ran[i].at + Window < ran[j].at

\* Every call that is started ends, however the server behaves.
EveryCallEnds == ~ Idle ~> Idle

(***************************************************************************)
(* What the documents say and the code does not do.                        *)
(***************************************************************************)
\* docs/architecture.md: the router checks registration, then the allowlist.
\* route() does not look at the allowed flag of a descriptor.
OnlyAllowedToolsRun == \A i \in Runs : Registry[ToolOf(i)].allowed
=============================================================================
