------------------------------- MODULE MCTools -------------------------------
(***************************************************************************)
(* Instances of ToolRouter for TLC.                                        *)
(***************************************************************************)
EXTENDS ToolRouter

User == [actor |-> "user", tenant |-> "a", caps |-> Capabilities,
         chain |-> "none", scope |-> {}, until |-> 0]

\* A delegated agent, whose grant ends while it works.
Agent == [actor |-> "agent", tenant |-> "a", caps |-> Capabilities,
          chain |-> "sound", scope |-> Capabilities, until |-> 2]

Low == [allowed |-> TRUE, risk |-> "low", sensitive |-> FALSE, isolated |-> FALSE,
        forbidden |-> {"purge"}, executor |-> "local"]

AllTools == {"lookup", "ticket", "refund", "shell", "bare", "legacy", "stub", "ghost"}

\* "ghost" is not registered, "bare" is high-risk without isolation.
ToolRegistry ==
    [t \in AllTools \ {"ghost"} |->
        CASE t = "lookup" -> Low
          [] t = "ticket" -> [Low EXCEPT !.executor = "mcp"]
          [] t = "refund" -> [Low EXCEPT !.sensitive = TRUE, !.risk = "moderate",
                                         !.executor = "mcp"]
          [] t = "shell"  -> [Low EXCEPT !.risk = High, !.isolated = TRUE]
          [] t = "bare"   -> [Low EXCEPT !.risk = High]
          [] t = "legacy" -> [Low EXCEPT !.allowed = FALSE]
          [] t = "stub"   -> [Low EXCEPT !.executor = "none"]]

Open == [version |-> "v1", running |-> TRUE, allowed |-> AllTools, forbidden |-> {"bare"},
         confirm |-> {"refund"}, approved |-> {"shell"},
         limits |-> [t \in AllTools |-> IF t \in {"lookup", "shell"} THEN 2 ELSE 0]]

\* The next release: another version, fewer tools.
Narrow == [Open EXCEPT !.version = "v2", !.allowed = {"refund", "lookup"}]
Killed == [Open EXCEPT !.running = FALSE]

Ask(who, tool) == [who |-> who, tool |-> tool, op |-> "use", wellFormed |-> TRUE,
                   restricted |-> FALSE, confirmed |-> FALSE]

WithConfirmation(S) == S \cup {[inv EXCEPT !.confirmed = TRUE] : inv \in S}

\* The ways in which a call is unacceptable, one at a time.
Flawed == {[Ask(User, "lookup") EXCEPT !.wellFormed = FALSE],
           [Ask(User, "lookup") EXCEPT !.restricted = TRUE],
           [Ask(User, "lookup") EXCEPT !.op = "purge"],
           Ask(User, "bare"), Ask(User, "ghost"), Ask(User, "stub")}

GrantOf(who, tool) == [who |-> who, tool |-> tool, ops |-> {"use"}, ttl |-> 1]

-----------------------------------------------------------------------------
Everybody == {User, Agent}
Everyone(tool) == {Ask(id, tool) : id \in Everybody}

\* Capabilities: a sensitive tool that needs confirmation, two actors.
TokenCalls == WithConfirmation(Everyone("refund"))
TokenGrants == {GrantOf(id, "refund") : id \in Everybody}
    \cup {[GrantOf(User, "refund") EXCEPT !.ops = {"use", "purge", "list"}]}
Releases == {Open, Narrow}

\* Limits: an ordinary tool with limit 2, and a high-risk one.
LimitCalls == {Ask(User, "lookup"), [Ask(User, "lookup") EXCEPT !.op = Proposal]}
    \cup WithConfirmation({Ask(User, "shell")}) \cup Flawed
Settings == {Open, Killed}

\* Execution: every kind of executor.
ExecutionCalls == {Ask(User, t) : t \in {"ticket", "stub", "legacy"}}
NoGrants == {}
NoForgery == {}

\* One under an id of its own, and one under the id of the first that is issued,
\* with a longer life and another actor.
MadeUp ==
    LET made == [id |-> 9, actor |-> "user", tenant |-> "a", tool |-> "refund",
                 ops |-> {"use"}, expires |-> 2, version |-> "v2"]
    IN  {made, [made EXCEPT !.id = 1, !.actor = "agent", !.expires = 3, !.version = "v1"]}
OnlyOpen == {Open}
=============================================================================
