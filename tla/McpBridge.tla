------------------------------ MODULE McpBridge ------------------------------
(***************************************************************************)
(* The tool servers of internal/mcpbridge: the preflight that opens each   *)
(* of them once before polling starts, and the tool session of one run of  *)
(* the agentic loop, from OpenSession to the deferred Close. A run has     *)
(* sessions of its own and keeps its connections to itself, so one run     *)
(* after another is all there is to see.                                   *)
(*                                                                         *)
(* A name is a sequence of words and single underscores, so that where     *)
(* strings.Cut finds "__" in it is modelled as it happens.                 *)
(***************************************************************************)
EXTENDS Naturals, Sequences

CONSTANTS
  Words,      \* what stands between underscores in a name
  Prefixes,   \* the enabled servers' trimmed names, in the order of the config
  ToolNames,  \* the trimmed names a server may list
  Fails       \* whether servers may fail

Underscore == "_"
Chars == Words \cup {Underscore}
Servers == 1..Len(Prefixes)

\* validateMCPServer asks for a name; it allows one twice, and any underscores.
ASSUME PrefixesAssumption == Prefixes \in Seq(Seq(Chars)) /\ \A s \in Servers : Prefixes[s] # <<>>
ASSUME NamesAssumption == ToolNames \subseteq Seq(Chars)
ASSUME FailsAssumption == Fails \in BOOLEAN

VARIABLES
  phase,       \* the process's startup, or serving runs
  pc,
  at,          \* the server being opened
  failed,      \* preflight: some server's error has been joined
  open,        \* servers with a session connected and not closed
  listed,      \* per server: the tools its session has listed
  registered,  \* Run.servers: prefix to server, 0 for none
  offered,     \* Run.tools: the exported names, with server and tool
  call         \* the tool call in progress

vars == <<phase, pc, at, failed, open, listed, registered, offered, call>>

PrefixNames == {Prefixes[s] : s \in Servers}
NoCall == [server |-> 0, tool |-> <<>>]
Calls == [server : Servers, tool : ToolNames] \cup {NoCall}

-----------------------------------------------------------------------------
(* Names.                                                                  *)

Sep == <<Underscore, Underscore>>

\* translateTool: the exported name.
Exported(s, tool) == Prefixes[s] \o Sep \o tool

Cuts(name) ==
  {i \in 1..Len(name) : i < Len(name) /\ name[i] = Underscore /\ name[i + 1] = Underscore}

\* strings.Cut: the first separator.
CutAt(name) == CHOOSE i \in Cuts(name) : \A k \in Cuts(name) : i <= k
PrefixOf(name) == SubSeq(name, 1, CutAt(name) - 1)
SuffixOf(name) == SubSeq(name, CutAt(name) + 2, Len(name))

\* splitToolName: whether there is a separator with something on both sides.
Splits(name) == Cuts(name) # {} /\ PrefixOf(name) # <<>> /\ SuffixOf(name) # <<>>

\* What a registered server offers; a tool without a name is left out.
OfferedBy(s, tools) ==
  {[name |-> Exported(s, tool), server |-> s, tool |-> tool] : tool \in tools \ {<<>>}}

\* Mutant: the tool table of the server is not asked.
RouteUnchecked(name) ==
  IF Splits(name) /\ PrefixOf(name) \in PrefixNames THEN registered[PrefixOf(name)] ELSE 0

\* Execute: the server a call of that name goes to, 0 when it is not handled.
\* The table asked is that of the server registered last under the prefix.
Route(name) ==
  IF Splits(name) /\ PrefixOf(name) \in PrefixNames
  THEN LET s == registered[PrefixOf(name)]
       IN  IF s # 0 /\ \E tool \in listed[s] \ {<<>>} : Exported(s, tool) = name THEN s ELSE 0
  ELSE 0

\* What the model may name: what is exported, what was exported by a run before
\* and is still in the history, and a name without a separator.
Callable == {Exported(s, tool) : s \in Servers, tool \in ToolNames} \cup ToolNames

-----------------------------------------------------------------------------
Init ==
  /\ phase = "preflight" /\ pc = "connect" /\ at = 1 /\ failed = FALSE
  /\ open = {}
  /\ listed = [s \in Servers |-> {}]
  /\ registered = [p \in PrefixNames |-> 0]
  /\ offered = {}
  /\ call = NoCall

\* Only the connection of server at is touched.
Unregistered == UNCHANGED <<phase, registered, offered, call>>
Skip(error) == pc' = "connect" /\ at' = at + 1 /\ failed' = (failed \/ error)

\* Mutant: one server too many.
ConnectBeyond ==
  /\ pc = "connect" /\ at <= Len(Prefixes) + 1
  /\ open' = open \cup {at}
  /\ pc' = "list"
  /\ UNCHANGED <<at, failed, listed>> /\ Unregistered

\* connector.Connect.
Connect ==
  /\ pc = "connect" /\ at \in Servers
  /\ open' = open \cup {at}
  /\ pc' = "list"
  /\ UNCHANGED <<at, failed, listed>> /\ Unregistered

\* A run skips the server; the preflight keeps the error and goes on.
ConnectFails ==
  /\ Fails /\ pc = "connect" /\ at \in Servers
  /\ Skip(phase = "preflight")
  /\ UNCHANGED <<open, listed>> /\ Unregistered

\* listAllTools: a page with a cursor to the next one. Nothing bounds the pages.
ListPage(tools) ==
  /\ pc = "list"
  /\ listed' = [listed EXCEPT ![at] = @ \cup tools]
  /\ UNCHANGED <<pc, at, failed, open>> /\ Unregistered

\* Mutant: the session stays open when the listing fails.
ListFailsOpen ==
  /\ Fails /\ pc = "list"
  /\ listed' = [listed EXCEPT ![at] = {}]
  /\ Skip(phase = "preflight")
  /\ UNCHANGED open /\ Unregistered

\* The listing fails, the session is closed; what it has listed is dropped.
ListFails ==
  /\ Fails /\ pc = "list"
  /\ open' = open \ {at}
  /\ listed' = [listed EXCEPT ![at] = {}]
  /\ Skip(phase = "preflight")
  /\ Unregistered

\* The last page, in the preflight.
ListEnds(tools) ==
  /\ phase = "preflight" /\ pc = "list"
  /\ listed' = [listed EXCEPT ![at] = @ \cup tools]
  /\ pc' = "close"
  /\ UNCHANGED <<at, failed, open>> /\ Unregistered

\* Mutant: the tools are offered under their own names.
RegisterBare(tools) ==
  /\ phase = "run" /\ pc = "list"
  /\ LET all == listed[at] \cup tools
     IN  /\ listed' = [listed EXCEPT ![at] = all]
         /\ offered' = offered \cup {[name |-> tool, server |-> at, tool |-> tool] : tool \in all \ {<<>>}}
  /\ registered' = [registered EXCEPT ![Prefixes[at]] = at]
  /\ Skip(FALSE)
  /\ UNCHANGED <<phase, open, call>>

\* The last page, in a run: the server's tools are offered and its session is
\* entered in the map, over a session of the same name if there is one.
Register(tools) ==
  /\ phase = "run" /\ pc = "list"
  /\ LET all == listed[at] \cup tools
     IN  /\ listed' = [listed EXCEPT ![at] = all]
         /\ offered' = offered \cup OfferedBy(at, all)
  /\ registered' = [registered EXCEPT ![Prefixes[at]] = at]
  /\ Skip(FALSE)
  /\ UNCHANGED <<phase, open, call>>

\* preflightServer closes the session; an error in closing counts.
PreflightClose(error) ==
  /\ pc = "close" /\ (error => Fails)
  /\ open' = open \ {at}
  /\ listed' = [listed EXCEPT ![at] = {}]
  /\ Skip(error)
  /\ Unregistered

\* Every server has been tried: polling starts, or the process exits.
Preflighted ==
  /\ phase = "preflight" /\ pc = "connect" /\ at \notin Servers
  /\ pc' = IF failed THEN "refused" ELSE "idle"
  /\ phase' = "run"
  /\ UNCHANGED <<at, failed, open, listed, registered, offered, call>>

\* The operator starts it again.
Restart ==
  /\ pc = "refused"
  /\ phase' = "preflight" /\ pc' = "connect" /\ at' = 1 /\ failed' = FALSE
  /\ UNCHANGED <<open, listed, registered, offered, call>>

\* prepareExecutionSession opens the servers one after another.
OpenSession ==
  /\ pc = "idle"
  /\ pc' = "connect" /\ at' = 1
  /\ UNCHANGED <<phase, failed, open, listed, registered, offered, call>>

Opened ==
  /\ phase = "run" /\ pc = "connect" /\ at \notin Servers
  /\ pc' = "ready"
  /\ UNCHANGED <<phase, at, failed, open, listed, registered, offered, call>>

\* The model's call goes to its server. One nothing handles, or with arguments
\* that do not parse, fails the run, which goes on to its deferred Close.
Execute(name) ==
  /\ pc = "ready"
  /\ \/ /\ Route(name) # 0
        /\ call' = [server |-> Route(name), tool |-> SuffixOf(name)]
        /\ pc' = "call"
     \/ /\ Route(name) = 0 \/ Fails
        /\ call' = NoCall
        /\ pc' = "closing"
  /\ UNCHANGED <<phase, at, failed, open, listed, registered, offered>>

\* CallTool returns. Its error is a text like any other; only a result that
\* cannot be flattened fails the run.
Return(flat) ==
  /\ pc = "call" /\ (flat \/ Fails)
  /\ call' = NoCall
  /\ pc' = IF flat THEN "ready" ELSE "closing"
  /\ UNCHANGED <<phase, at, failed, open, listed, registered, offered>>

\* The run has its answer, or has failed elsewhere.
Finish ==
  /\ pc = "ready"
  /\ pc' = "closing"
  /\ UNCHANGED <<phase, at, failed, open, listed, registered, offered, call>>

\* Run.Close, in the map's order, which is any. An error does not stop it.
Close(p) ==
  /\ pc = "closing" /\ registered[p] # 0
  /\ open' = open \ {registered[p]}
  /\ registered' = [registered EXCEPT ![p] = 0]
  /\ UNCHANGED <<phase, pc, at, failed, listed, offered, call>>

\* The run returns; its tools and tables are garbage.
Closed ==
  /\ pc = "closing" /\ \A p \in PrefixNames : registered[p] = 0
  /\ pc' = "idle"
  /\ listed' = [s \in Servers |-> {}] /\ offered' = {}
  /\ UNCHANGED <<phase, at, failed, open, registered, call>>

Next ==
  \/ Connect \/ ConnectFails \/ ListFails
  \/ \E tools \in SUBSET ToolNames : ListPage(tools) \/ ListEnds(tools) \/ Register(tools)
  \/ \E error \in BOOLEAN : PreflightClose(error)
  \/ Preflighted \/ Restart \/ OpenSession \/ Opened
  \/ \E name \in Callable : Execute(name)
  \/ \E flat \in BOOLEAN : Return(flat)
  \/ Finish \/ Closed
  \/ \E p \in PrefixNames : Close(p)

Spec == Init /\ [][Next]_vars

-----------------------------------------------------------------------------
(* Properties.                                                             *)

Pcs == {"connect", "list", "close", "refused", "idle", "ready", "call", "closing"}

TypeOK ==
  /\ phase \in {"preflight", "run"} /\ pc \in Pcs
  /\ at \in 1..(Len(Prefixes) + 1) /\ failed \in BOOLEAN
  /\ open \subseteq Servers
  /\ listed \in [Servers -> SUBSET ToolNames]
  /\ registered \in [PrefixNames -> Servers \cup {0}]
  /\ offered \subseteq [name : Callable, server : Servers, tool : ToolNames]
  /\ call \in Calls

\* A server whose name a later server has too.
Shadowed(s) == \E r \in Servers : r > s /\ Prefixes[r] = Prefixes[s]

\* No session outlives what opened it: before polling starts and between two
\* runs every session that was connected has been closed, whichever servers
\* failed to connect or to list, unless the entry of a server of the same name
\* took its place in the map.
AllClosed ==
  /\ pc = "refused" => open = {}
  /\ pc = "idle" => \A s \in open : Shadowed(s)

\* A call reaches only a session that is still open, under the name of a tool
\* that this session itself has listed.
CallsListed == call # NoCall => call.server \in open /\ call.tool \in listed[call.server]

\* A name that survives being prefixed and cut again.
Plain(prefix) == Cuts(prefix) = {} /\ prefix[Len(prefix)] # Underscore

\* No other server has the name of s.
Alone(s) == \A r \in Servers : Prefixes[r] = Prefixes[s] => r = s

\* Every tool a run offers is routed home while the run is on, to the very server
\* and tool it stands for, when the server's name is plain and its own. A server
\* with another name beside it, even one whose exported names look alike, does
\* not change that.
RoutesHome ==
  pc \in {"ready", "call"} => \A o \in offered : Plain(Prefixes[o.server]) /\ Alone(o.server) =>
    Route(o.name) = o.server /\ SuffixOf(o.name) = o.tool

=============================================================================
