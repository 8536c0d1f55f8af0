--------------------------- MODULE McpBridgeProofs ---------------------------
(***************************************************************************)
(* Theorems about the tool sessions, for any number of servers with any    *)
(* names: what is open is accounted for, and calls reach what was offered. *)
(***************************************************************************)
EXTENDS McpBridge, SequenceTheorems, WellFoundedInduction, TLAPS

-----------------------------------------------------------------------------
(* Names.                                                                  *)

\* The separator is a sequence of its letters.
LEMMA TwoLetters ==
  ASSUME NEW C, NEW u \in C
  PROVE  <<u,u>> \in Seq(C) /\ Len(<<u,u>>) = 2
OBVIOUS

\* An exported name has the length of its parts and reads as them.
LEMMA ExportedReads ==
  ASSUME NEW C, NEW u \in C, NEW p \in Seq(C), NEW tool \in Seq(C)
  PROVE  /\ p \o <<u, u>> \o tool \in Seq(C)
         /\ Len(p \o <<u, u>> \o tool) = Len(p) + 2 + Len(tool)
         /\ \A i \in 1..Len(p) : (p \o <<u, u>> \o tool)[i] = p[i]
         /\ (p \o <<u, u>> \o tool)[Len(p) + 1] = u
         /\ (p \o <<u, u>> \o tool)[Len(p) + 2] = u
         /\ \A i \in 1..Len(tool) : (p \o <<u, u>> \o tool)[Len(p) + 2 + i] = tool[i]
<1>1. PICK sep \in Seq(C) : sep = <<u, u>> BY TwoLetters
<1>2. Len(sep) = 2 /\ sep[1] = u /\ sep[2] = u BY <1>1
<1>3. PICK pre \in Seq(C) : pre = p \o sep BY ConcatProperties
<1>4. Len(pre) = Len(p) + 2
  <2>1. Len(p \o sep) = Len(p) + Len(sep) OBVIOUS
  <2>. QED BY <1>2, <1>3, <2>1
<1>5. \A i \in 1..Len(p) : pre[i] = p[i] BY <1>2, <1>3, ConcatProperties
<1>6. pre[Len(p) + 1] = u /\ pre[Len(p) + 2] = u
  <2>1. Len(p) \in Nat OBVIOUS
  <2>2. \A i \in 1..Len(sep) : (p \o sep)[Len(p) + i] = sep[i] BY ConcatProperties
  <2>3. 1 \in 1..Len(sep) /\ 2 \in 1..Len(sep) BY <1>2
  <2>4. pre[Len(p) + 1] = sep[1] /\ pre[Len(p) + 2] = sep[2] BY <1>3, <2>2, <2>3
  <2>. QED BY <1>2, <2>4
<1>7. PICK name \in Seq(C) : name = pre \o tool BY ConcatProperties
<1>8. Len(name) = Len(p) + 2 + Len(tool) BY <1>4, <1>7, ConcatProperties
<1>9. \A i \in 1..Len(pre) : name[i] = pre[i] BY <1>7, ConcatProperties
<1>10. \A i \in 1..Len(tool) : name[Len(pre) + i] = tool[i] BY <1>7, ConcatProperties
<1>11. name = p \o <<u, u>> \o tool BY <1>1, <1>3, <1>7
<1>12. Len(p) \in Nat OBVIOUS
<1>. QED BY <1>4, <1>5, <1>6, <1>8, <1>9, <1>10, <1>11, <1>12

\* An exported name that is cut right behind its prefix leaves the tool.
LEMMA CutLeaves ==
  ASSUME NEW C, NEW u \in C, NEW p \in Seq(C), NEW tool \in Seq(C)
  PROVE  LET name == p \o <<u, u>> \o tool
         IN  SubSeq(name, 1, Len(p)) = p /\ SubSeq(name, Len(p) + 3, Len(name)) = tool
<1>1. PICK name \in Seq(C) : name = p \o <<u, u>> \o tool BY ExportedReads
<1>2. Len(p) \in Nat /\ Len(tool) \in Nat OBVIOUS
<1>3. Len(name) = Len(p) + 2 + Len(tool) BY <1>1, ExportedReads
<1>4. SubSeq(name, 1, Len(p)) = p
  <2>1. \A i \in 1..Len(p) : name[i] = p[i] BY <1>1, ExportedReads
  <2>2. \A i \in 1..Len(p) : name[i] \in C BY <2>1
  <2>3. /\ SubSeq(name, 1, Len(p)) \in Seq(C) /\ Len(SubSeq(name, 1, Len(p))) = Len(p)
        /\ \A i \in 1..Len(p) : SubSeq(name, 1, Len(p))[i] = name[i]
    BY <1>2, <2>2, SubSeqProperties
  <2>. QED BY <2>1, <2>3, SeqEqual
<1>5. SubSeq(name, Len(p) + 3, Len(name)) = tool
  <2>. DEFINE rest == SubSeq(name, Len(p) + 3, Len(name))
  <2>1. \A i \in 1..Len(tool) : name[Len(p) + 2 + i] = tool[i] BY <1>1, ExportedReads
  <2>2. \A i \in (Len(p) + 3)..Len(name) : name[i] \in C BY <1>2, <1>3
  <2>3. /\ rest \in Seq(C)
        /\ Len(rest) = IF Len(p) + 3 <= Len(name) THEN Len(name) - (Len(p) + 3) + 1 ELSE 0
        /\ \A i \in 1..(Len(name) - (Len(p) + 3) + 1) : rest[i] = name[Len(p) + 3 + i - 1]
    BY <1>2, <1>3, <2>2, SubSeqProperties
  <2>. HIDE DEF rest
  <2>4. Len(rest) = Len(tool) BY <1>2, <1>3, <2>3
  <2>5. \A i \in 1..Len(tool) : rest[i] = tool[i]
    <3>. TAKE i \in 1..Len(tool)
    <3>1. i \in 1..(Len(name) - (Len(p) + 3) + 1) /\ Len(p) + 3 + i - 1 = Len(p) + 2 + i
      BY <1>2, <1>3
    <3>. QED BY <2>1, <2>3, <3>1
  <2>6. rest = tool BY <2>3, <2>4, <2>5, SeqEqual
  <2>. QED BY <2>6 DEF rest
<1>. QED BY <1>1, <1>4, <1>5

\* A set of naturals with a member has a smallest one.
LEMMA SmallestOf ==
  ASSUME NEW S, S \subseteq Nat, S # {}
  PROVE  \E c \in S : \A k \in S : c <= k
<1>. DEFINE R == {ss \in Nat \X Nat : ss[1] < ss[2]}
<1>1. R = OpToRel(<, Nat) BY DEF OpToRel
<1>2. IsWellFoundedOn(R, Nat) BY <1>1, NatLessThanWellFounded
<1>. HIDE DEF R
<1>3. \E c \in S : \A k \in S : ~ (<<k, c>> \in R) BY <1>2, WFMin, Zenon
<1>4. PICK c \in S : \A k \in S : ~ (<<k, c>> \in R) BY <1>3
<1>5. ASSUME NEW k \in S PROVE c <= k
  <2>1. k \in Nat /\ c \in Nat OBVIOUS
  <2>2. k < c => <<k, c>> \in R BY <2>1 DEF R
  <2>. QED BY <1>4, <2>1, <2>2
<1>. QED BY <1>5

\* CutAt is the first cut of a name that has one.
LEMMA FirstCut ==
  ASSUME NEW name, Len(name) \in Nat, NEW c \in Cuts(name), \A k \in Cuts(name) : c <= k
  PROVE  CutAt(name) = c
<1>1. \A k \in Cuts(name) : k \in 1..Len(name) BY Zenon DEF Cuts
<1>2. CutAt(name) \in Cuts(name) /\ \A k \in Cuts(name) : CutAt(name) <= k BY Zenon DEF CutAt
<1>3. CutAt(name) <= c /\ c <= CutAt(name) BY <1>2
<1>4. c \in Nat /\ CutAt(name) \in Nat BY <1>1, <1>2
<1>. QED BY <1>3, <1>4

\* A plain prefix is cut off again as it was.
LEMMA PlainReturns ==
  ASSUME NEW s \in Servers, NEW tool \in Seq(Chars), tool # <<>>, Plain(Prefixes[s])
  PROVE  LET name == Exported(s, tool)
         IN  Splits(name) /\ PrefixOf(name) = Prefixes[s] /\ SuffixOf(name) = tool
<1>1. PICK p \in Seq(Chars) : p = Prefixes[s] /\ p # <<>> BY PrefixesAssumption DEF Servers
<1>2. Underscore \in Chars BY DEF Chars
<1>3. p \o <<Underscore, Underscore>> \o tool \in Seq(Chars) BY <1>2, ExportedReads
<1>4. PICK name \in Seq(Chars) : name = p \o <<Underscore, Underscore>> \o tool BY <1>3
<1>5. Exported(s, tool) = name BY <1>1, <1>4 DEF Exported, Sep
<1>6. Len(p) \in Nat /\ Len(p) >= 1 /\ Len(tool) \in Nat /\ Len(tool) >= 1 BY <1>1
<1>7. Len(name) = Len(p) + 2 + Len(tool) BY <1>2, <1>4, ExportedReads
<1>8. \A i \in 1..Len(p) : name[i] = p[i] BY <1>2, <1>4, ExportedReads
<1>9. name[Len(p) + 1] = Underscore /\ name[Len(p) + 2] = Underscore
  BY <1>2, <1>4, ExportedReads
<1>10. PICK c \in Nat : c = Len(p) + 1 BY <1>6
<1>11. name[c] = Underscore /\ name[c + 1] = Underscore
  <2>1. c + 1 = Len(p) + 2 BY <1>6, <1>10
  <2>. QED BY <1>9, <1>10, <2>1
<1>12. c \in Cuts(name)
  <2>1. c \in 1..Len(name) /\ c < Len(name) BY <1>6, <1>7, <1>10
  <2>. QED BY <1>11, <2>1, Zenon DEF Cuts
<1>13. \A k \in Cuts(name) : c <= k
  <2>1. ASSUME NEW k \in Cuts(name), ~(c <= k) PROVE FALSE
    <3>1. k \in 1..Len(name) /\ name[k] = Underscore /\ name[k + 1] = Underscore
      BY <2>1, Zenon DEF Cuts
    <3>2. k \in 1..Len(p) /\ (k = Len(p) \/ k + 1 \in 1..Len(p))
      BY <1>6, <1>7, <1>10, <2>1, <3>1
    <3>3. p[k] = Underscore BY <1>8, <3>1, <3>2
    <3>4. p[Len(p)] # Underscore /\ Cuts(p) = {} BY <1>1 DEF Plain
    <3>5. k + 1 \in 1..Len(p) /\ k < Len(p) BY <1>6, <3>2, <3>3, <3>4
    <3>6. p[k + 1] = Underscore BY <1>8, <3>1, <3>5
    <3>7. k \in Cuts(p) BY <3>2, <3>3, <3>5, <3>6, Zenon DEF Cuts
    <3>. QED BY <3>4, <3>7
  <2>. QED BY <2>1
<1>14. CutAt(name) = c BY <1>6, <1>7, <1>12, <1>13, FirstCut
<1>15. c - 1 = Len(p) /\ c + 2 = Len(p) + 3 BY <1>6, <1>10
<1>16. SubSeq(name, 1, Len(p)) = p /\ SubSeq(name, Len(p) + 3, Len(name)) = tool
  BY <1>2, <1>4, CutLeaves
<1>17. PrefixOf(name) = p /\ SuffixOf(name) = tool
  BY <1>14, <1>15, <1>16 DEF PrefixOf, SuffixOf
<1>18. Splits(name) BY <1>1, <1>12, <1>17 DEF Splits
<1>. QED BY <1>1, <1>5, <1>17, <1>18

\* A name cut after the prefix of the server that offers it leaves the tool,
\* plain or not: what is called is what was listed.
LEMMA CutHome ==
  ASSUME NEW s \in Servers, NEW tool \in Seq(Chars), tool # <<>>, NEW name,
         name = Exported(s, tool), Splits(name), PrefixOf(name) = Prefixes[s]
  PROVE  SuffixOf(name) = tool
<1>1. PICK p \in Seq(Chars) : p = Prefixes[s] /\ p # <<>> BY PrefixesAssumption DEF Servers
<1>2. Underscore \in Chars BY DEF Chars
<1>3. name = p \o <<Underscore, Underscore>> \o tool BY <1>1 DEF Exported, Sep
<1>4. name \in Seq(Chars) BY <1>2, <1>3, ExportedReads
<1>5. \A k \in Cuts(name) : k \in 1..Len(name) BY Zenon DEF Cuts
<1>6. \E c \in Cuts(name) : c = CutAt(name)
  <2>1. \E c \in Cuts(name) : \A k \in Cuts(name) : c <= k
    <3>1. Cuts(name) \subseteq Nat BY <1>4, <1>5
    <3>2. Cuts(name) # {} BY DEF Splits
    <3>. QED BY <3>1, <3>2, SmallestOf
  <2>. QED BY <2>1, Zenon DEF CutAt
<1>7. PICK c \in 1..Len(name) : c = CutAt(name) BY <1>5, <1>6
<1>8. SubSeq(name, 1, c - 1) = p BY <1>1, <1>7 DEF PrefixOf
<1>9. Len(SubSeq(name, 1, c - 1)) = c - 1
  <2>1. \A i \in 1..(c - 1) : name[i] \in Chars BY <1>4, <1>7
  <2>2. Len(name) \in Nat /\ 1 \in Int /\ c - 1 \in Int BY <1>4, <1>7
  <2>3. Len(SubSeq(name, 1, c - 1)) = IF 1 <= c - 1 THEN c - 1 - 1 + 1 ELSE 0
    BY <2>1, <2>2, SubSeqProperties
  <2>. QED BY <1>7, <2>2, <2>3
<1>10. Len(p) = c - 1 BY <1>8, <1>9
<1>11. c + 2 = Len(p) + 3 BY <1>4, <1>7, <1>10
<1>12. SubSeq(name, Len(p) + 3, Len(name)) = tool BY <1>2, <1>3, CutLeaves
<1>. QED BY <1>7, <1>11, <1>12 DEF SuffixOf

-----------------------------------------------------------------------------
(* Typing. A session is registered under its server's own name.            *)

Named ==
  /\ pc \in {"list", "close"} => at \in Servers
  /\ \A p \in PrefixNames : registered[p] # 0 => Prefixes[registered[p]] = p

\* A routed call goes to a registered server, for a tool that server has listed.
LEMMA RouteHome ==
  ASSUME TypeOK, Named, NEW name, Route(name) # 0
  PROVE  /\ Route(name) \in Servers
         /\ registered[Prefixes[Route(name)]] = Route(name)
         /\ SuffixOf(name) \in listed[Route(name)]
<1>1. PICK p \in PrefixNames : p = PrefixOf(name) /\ Splits(name) BY DEF Route
<1>2. PICK s \in Servers : s = registered[p] BY <1>1 DEF Route, TypeOK
<1>3. s # 0 BY <1>2 DEF Servers
<1>4. PICK tool \in listed[s] : tool # <<>> /\ name = Exported(s, tool)
  BY <1>1, <1>2, <1>3 DEF Route
<1>5. Route(name) = s BY <1>1, <1>2, <1>3, <1>4 DEF Route
<1>6. Prefixes[s] = p BY <1>2, <1>3 DEF Named
<1>7. tool \in Seq(Chars) BY <1>2, <1>4, NamesAssumption DEF TypeOK
<1>8. SuffixOf(name) = tool BY <1>1, <1>4, <1>6, <1>7, CutHome
<1>. QED BY <1>2, <1>4, <1>5, <1>6, <1>8

\* There are as many servers as names.
LEMMA ServersAre ==
  /\ Len(Prefixes) \in Nat
  /\ Servers \subseteq Nat /\ 0 \notin Servers
  /\ \A s \in Servers : Prefixes[s] \in PrefixNames
<1>1. Len(Prefixes) \in Nat BY PrefixesAssumption
<1>. QED BY <1>1 DEF Servers, PrefixNames

\* The steps that touch one connection keep the types.
LEMMA ConnectionTypes ==
  ASSUME TypeOK, Named,
         \/ Connect \/ ConnectFails \/ ListFails
         \/ \E tools \in SUBSET ToolNames : ListPage(tools) \/ ListEnds(tools)
         \/ \E error \in BOOLEAN : PreflightClose(error)
  PROVE  TypeOK' /\ Named'
<1>. USE ServersAre, FailsAssumption
<1>1. CASE Connect BY <1>1 DEF Connect, Unregistered, TypeOK, Named, Pcs
<1>2. CASE ConnectFails
  <2>1. at' \in 1..(Len(Prefixes) + 1) BY <1>2 DEF ConnectFails, Skip, Servers
  <2>. QED BY <1>2, <2>1 DEF ConnectFails, Skip, Unregistered, TypeOK, Named, Pcs
<1>3. CASE ListFails
  <2>1. at' \in 1..(Len(Prefixes) + 1) BY <1>3 DEF ListFails, Skip, Servers, Named
  <2>. QED BY <1>3, <2>1 DEF ListFails, Skip, Unregistered, TypeOK, Named, Pcs
<1>4. ASSUME NEW tools \in SUBSET ToolNames, ListPage(tools) PROVE TypeOK' /\ Named'
  <2>1. listed' \in [Servers -> SUBSET ToolNames]
    BY <1>4 DEF ListPage, Unregistered, TypeOK
  <2>. QED BY <1>4, <2>1 DEF ListPage, Unregistered, TypeOK, Named
<1>5. ASSUME NEW tools \in SUBSET ToolNames, ListEnds(tools) PROVE TypeOK' /\ Named'
  <2>1. listed' \in [Servers -> SUBSET ToolNames]
    BY <1>5 DEF ListEnds, Unregistered, TypeOK
  <2>. QED BY <1>5, <2>1 DEF ListEnds, Unregistered, TypeOK, Named, Pcs
<1>6. ASSUME NEW error \in BOOLEAN, PreflightClose(error) PROVE TypeOK' /\ Named'
  <2>1. at' \in 1..(Len(Prefixes) + 1) BY <1>6 DEF PreflightClose, Skip, Servers, Named
  <2>. QED BY <1>6, <2>1 DEF PreflightClose, Skip, Unregistered, TypeOK, Named, Pcs
<1>. QED BY <1>1, <1>2, <1>3, <1>4, <1>5, <1>6

\* Registering a server keeps the types.
LEMMA RegisterTypes ==
  ASSUME TypeOK, Named, NEW tools \in SUBSET ToolNames, Register(tools)
  PROVE  TypeOK' /\ Named'
<1>1. at \in Servers BY DEF Register, Named
<1>2. at' \in 1..(Len(Prefixes) + 1) BY <1>1, ServersAre DEF Register, Skip, Servers
<1>3. PICK all \in SUBSET ToolNames :
        /\ listed' = [listed EXCEPT ![at] = all]
        /\ offered' = offered \cup OfferedBy(at, all)
  BY <1>1 DEF Register, TypeOK
<1>4. OfferedBy(at, all) \subseteq [name : Callable, server : Servers, tool : ToolNames]
  BY <1>1 DEF OfferedBy, Callable
<1>5. listed' \in [Servers -> SUBSET ToolNames] BY <1>3 DEF TypeOK
<1>6. registered' = [registered EXCEPT ![Prefixes[at]] = at] BY DEF Register
<1>7. registered' \in [PrefixNames -> Servers \cup {0}] BY <1>1, <1>6 DEF TypeOK
<1>8. \A p \in PrefixNames : registered'[p] # 0 => Prefixes[registered'[p]] = p
  BY <1>6 DEF TypeOK, Named
<1>. QED BY <1>1, <1>2, <1>3, <1>4, <1>5, <1>7, <1>8 DEF Register, Skip, TypeOK, Named, Pcs

\* The steps of the process and of a run keep the types.
LEMMA RunTypes ==
  ASSUME TypeOK, Named,
         \/ Preflighted \/ Restart \/ OpenSession \/ Opened
         \/ \E name \in Callable : Execute(name)
         \/ \E flat \in BOOLEAN : Return(flat)
         \/ Finish \/ Closed
         \/ \E p \in PrefixNames : Close(p)
  PROVE  TypeOK' /\ Named'
<1>. USE ServersAre
<1>1. CASE Preflighted
  <2>1. pc' = "refused" \/ pc' = "idle" BY <1>1 DEF Preflighted
  <2>2. /\ phase' = "run" /\ at' = at /\ failed' = failed /\ open' = open /\ listed' = listed
        /\ registered' = registered /\ offered' = offered /\ call' = call
    BY <1>1 DEF Preflighted
  <2>. QED BY <2>1, <2>2 DEF TypeOK, Named, Pcs
<1>2. CASE Restart
  <2>1. 1 \in 1..(Len(Prefixes) + 1) BY ServersAre
  <2>. QED BY <1>2, <2>1 DEF Restart, TypeOK, Named, Pcs
<1>3. CASE OpenSession BY <1>3 DEF OpenSession, TypeOK, Named, Pcs
<1>4. CASE Opened BY <1>4 DEF Opened, TypeOK, Named, Pcs
<1>5. ASSUME NEW name \in Callable, Execute(name) PROVE TypeOK' /\ Named'
  <2>1. call' \in Calls /\ pc' \in {"call", "closing"}
    <3>1. CASE Route(name) # 0 /\ call' = [server |-> Route(name), tool |-> SuffixOf(name)] /\ pc' = "call"
      <4>1. Route(name) \in Servers /\ SuffixOf(name) \in listed[Route(name)] BY <3>1, RouteHome
      <4>2. SuffixOf(name) \in ToolNames BY <4>1 DEF TypeOK
      <4>. QED BY <3>1, <4>1, <4>2 DEF Calls
    <3>2. CASE call' = NoCall /\ pc' = "closing" BY <3>2 DEF Calls
    <3>. QED BY <1>5, <3>1, <3>2 DEF Execute
  <2>. QED BY <1>5, <2>1 DEF Execute, TypeOK, Named, Pcs
<1>6. ASSUME NEW flat \in BOOLEAN, Return(flat) PROVE TypeOK' /\ Named'
  BY <1>6 DEF Return, Calls, TypeOK, Named, Pcs
<1>7. CASE Finish BY <1>7 DEF Finish, TypeOK, Named, Pcs
<1>8. CASE Closed BY <1>8 DEF Closed, TypeOK, Named, Pcs
<1>9. ASSUME NEW p \in PrefixNames, Close(p) PROVE TypeOK' /\ Named'
  BY <1>9 DEF Close, TypeOK, Named
<1>. QED BY <1>1, <1>2, <1>3, <1>4, <1>5, <1>6, <1>7, <1>8, <1>9

\* The types hold at the start and are kept by every step.
LEMMA TypesInductive ==
  /\ Init => TypeOK /\ Named
  /\ TypeOK /\ Named /\ [Next]_vars => TypeOK' /\ Named'
<1>1. ASSUME Init PROVE TypeOK /\ Named
  <2>1. registered \in [PrefixNames -> Servers \cup {0}] /\ \A p \in PrefixNames : registered[p] = 0
    BY <1>1 DEF Init
  <2>2. listed \in [Servers -> SUBSET ToolNames] BY <1>1 DEF Init
  <2>3. at \in 1..(Len(Prefixes) + 1) BY <1>1, ServersAre DEF Init
  <2>. QED BY <1>1, <2>1, <2>2, <2>3 DEF Init, TypeOK, Named, Pcs, Calls
<1>2. ASSUME TypeOK, Named, [Next]_vars PROVE TypeOK' /\ Named'
  <2>1. CASE UNCHANGED vars BY <1>2, <2>1 DEF vars, TypeOK, Named
  <2>2. CASE Next
    BY <1>2, <2>2, ConnectionTypes, RegisterTypes, RunTypes DEF Next
  <2>. QED BY <1>2, <2>1, <2>2
<1>. QED BY <1>1, <1>2

\* Every variable keeps its type; a call's tool is one a server may list.
THEOREM Typing == Spec => []TypeOK
BY TypesInductive, PTL DEF Spec

-----------------------------------------------------------------------------
(* Sessions. Every open session is the one being opened, or registered, or *)
(* shadowed by a later server of the same name; what is registered is open.*)

Phases ==
  /\ phase = "preflight" => pc \in {"connect", "list", "close"}
  /\ pc = "close" => phase = "preflight"

Unused ==
  /\ phase = "preflight" \/ pc \in {"idle", "refused"} => \A p \in PrefixNames : registered[p] = 0
  /\ phase = "preflight" \/ pc = "refused" =>
       \A s \in open : s = at /\ pc \in {"list", "close"}

Ordered == pc \in {"connect", "list"} => \A p \in PrefixNames : registered[p] < at

Owned ==
  /\ pc \in {"list", "close"} => at \in open
  /\ \A p \in PrefixNames : registered[p] # 0 => registered[p] \in open
  /\ \A s \in open : \/ s = at /\ pc \in {"list", "close"}
                     \/ registered[Prefixes[s]] = s
                     \/ Shadowed(s)

Calling == call # NoCall =>
  pc = "call" /\ call.server \in open /\ call.tool \in listed[call.server]

Sessions == Phases /\ Unused /\ Ordered /\ Owned /\ Calling

\* Opening a session or giving one up keeps them accounted for.
LEMMA ConnectionSessions ==
  ASSUME TypeOK, Named, Sessions,
         \/ Connect \/ ConnectFails \/ ListFails
         \/ \E tools \in SUBSET ToolNames : ListPage(tools) \/ ListEnds(tools)
         \/ \E error \in BOOLEAN : PreflightClose(error)
  PROVE  Sessions'
<1>. USE ServersAre DEF Sessions
<1>0. /\ at \in Nat /\ \A p \in PrefixNames : registered[p] \in Nat
      /\ open \subseteq Servers /\ \A s \in open : Prefixes[s] \in PrefixNames
  BY DEF TypeOK
<1>1. CASE Connect
  <2>1. Phases' /\ Unused' /\ Ordered'
    BY <1>1 DEF Connect, Unregistered, Phases, Unused, Ordered
  <2>2. Owned' BY <1>1 DEF Connect, Unregistered, Owned, Shadowed
  <2>3. Calling' BY <1>1 DEF Connect, Unregistered, Calling
  <2>. QED BY <2>1, <2>2, <2>3
<1>2. CASE ConnectFails
  <2>1. Phases' /\ Unused' /\ Ordered'
    BY <1>0, <1>2 DEF ConnectFails, Skip, Unregistered, Phases, Unused, Ordered
  <2>2. Owned' BY <1>2 DEF ConnectFails, Skip, Unregistered, Owned, Shadowed
  <2>3. Calling' BY <1>2 DEF ConnectFails, Skip, Unregistered, Calling
  <2>. QED BY <2>1, <2>2, <2>3
<1>3. CASE ListFails
  <2>1. Phases' /\ Unused' /\ Ordered'
    BY <1>0, <1>3 DEF ListFails, Skip, Unregistered, Phases, Unused, Ordered
  <2>2. \A p \in PrefixNames : registered[p] < at BY <1>3 DEF ListFails, Ordered
  <2>3. /\ pc' \notin {"list", "close"} /\ open' = open \ {at} /\ registered' = registered
        /\ at \in Servers /\ pc = "list"
    BY <1>3 DEF ListFails, Skip, Unregistered, Named
  <2>4. \A p \in PrefixNames : registered'[p] # 0 => registered'[p] \in open'
    BY <1>0, <2>2, <2>3 DEF Owned
  <2>5. \A r \in open' : registered'[Prefixes[r]] = r \/ Shadowed(r)
    BY <2>3 DEF Owned
  <2>6. Owned' BY <2>3, <2>4, <2>5 DEF Owned, Shadowed
  <2>7. Calling' BY <1>3 DEF ListFails, Skip, Unregistered, Calling
  <2>. QED BY <2>1, <2>6, <2>7
<1>4. ASSUME NEW tools \in SUBSET ToolNames, ListPage(tools) PROVE Sessions'
  <2>1. Phases' /\ Unused' /\ Ordered'
    BY <1>4 DEF ListPage, Unregistered, Phases, Unused, Ordered
  <2>2. Owned' BY <1>4 DEF ListPage, Unregistered, Owned, Shadowed
  <2>3. Calling' BY <1>4 DEF ListPage, Unregistered, Calling
  <2>. QED BY <2>1, <2>2, <2>3
<1>5. ASSUME NEW tools \in SUBSET ToolNames, ListEnds(tools) PROVE Sessions'
  <2>1. Phases' /\ Unused' /\ Ordered'
    BY <1>5 DEF ListEnds, Unregistered, Phases, Unused, Ordered
  <2>2. Owned' BY <1>5 DEF ListEnds, Unregistered, Owned, Shadowed
  <2>3. Calling' BY <1>5 DEF ListEnds, Unregistered, Calling
  <2>. QED BY <2>1, <2>2, <2>3
<1>6. ASSUME NEW error \in BOOLEAN, PreflightClose(error) PROVE Sessions'
  <2>0. phase = "preflight" BY <1>6 DEF PreflightClose, Phases
  <2>1. \A p \in PrefixNames : registered[p] = 0 BY <2>0 DEF Unused
  <2>2. open' = {} BY <1>6, <2>0 DEF PreflightClose, Unused
  <2>3. pc' = "connect" /\ at' = at + 1 /\ phase' = phase /\ registered' = registered /\ call' = call
    BY <1>6 DEF PreflightClose, Skip, Unregistered
  <2>4. at \in Servers BY <1>6 DEF PreflightClose, Named
  <2>5. Phases' /\ Unused' /\ Ordered' BY <1>0, <2>0, <2>1, <2>2, <2>3, <2>4 DEF Phases, Unused, Ordered
  <2>6. Owned' BY <2>1, <2>2, <2>3 DEF Owned
  <2>7. Calling' BY <1>6, <2>3 DEF PreflightClose, Calling
  <2>. QED BY <2>5, <2>6, <2>7
<1>. QED BY <1>1, <1>2, <1>3, <1>4, <1>5, <1>6

\* Registering a session over one of its name leaves that one shadowed.
LEMMA RegisterSessions ==
  ASSUME TypeOK, Named, Sessions, NEW tools \in SUBSET ToolNames, Register(tools)
  PROVE  Sessions'
<1>. USE ServersAre DEF Sessions
<1>1. /\ at \in Servers /\ at \in Nat /\ pc = "list" /\ phase = "run"
      /\ \A p \in PrefixNames : registered[p] \in Nat
      /\ open \subseteq Servers /\ \A s \in open : Prefixes[s] \in PrefixNames
  BY DEF Register, Named, TypeOK
<1>2. /\ pc' = "connect" /\ at' = at + 1 /\ phase' = phase /\ open' = open /\ call' = call
      /\ registered' = [registered EXCEPT ![Prefixes[at]] = at]
  BY DEF Register, Skip
<1>3. \A p \in PrefixNames : registered'[p] = IF p = Prefixes[at] THEN at ELSE registered[p]
  BY <1>2 DEF TypeOK
<1>4. \A p \in PrefixNames : registered[p] < at BY <1>1 DEF Ordered
<1>5. Phases' /\ Unused' BY <1>1, <1>2 DEF Phases, Unused
<1>6. Ordered' BY <1>1, <1>2, <1>3, <1>4 DEF Ordered
<1>7. Owned'
  <2>1. \A p \in PrefixNames : registered'[p] # 0 => registered'[p] \in open'
    BY <1>1, <1>2, <1>3 DEF Owned
  <2>2. ASSUME NEW s \in open' PROVE registered'[Prefixes[s]] = s \/ Shadowed(s)
    <3>1. CASE s = at BY <1>1, <1>3, <3>1
    <3>2. CASE registered[Prefixes[s]] = s /\ Prefixes[s] = Prefixes[at]
      <4>1. s < at BY <1>1, <1>2, <1>4, <3>2
      <4>. QED BY <1>1, <3>2, <4>1 DEF Shadowed
    <3>3. CASE registered[Prefixes[s]] = s /\ Prefixes[s] # Prefixes[at]
      BY <1>1, <1>2, <1>3, <3>3
    <3>4. CASE Shadowed(s) BY <3>4
    <3>. QED BY <1>2, <3>1, <3>2, <3>3, <3>4 DEF Owned
  <2>. QED BY <1>2, <2>1, <2>2 DEF Owned, Shadowed
<1>8. Calling' BY <1>1, <1>2 DEF Calling
<1>. QED BY <1>5, <1>6, <1>7, <1>8

\* The steps of the process and of a run keep every open session accounted for.
LEMMA RunSessions ==
  ASSUME TypeOK, Named, Sessions,
         \/ Preflighted \/ Restart \/ OpenSession \/ Opened
         \/ \E name \in Callable : Execute(name)
         \/ \E flat \in BOOLEAN : Return(flat)
         \/ Finish \/ Closed
         \/ \E p \in PrefixNames : Close(p)
  PROVE  Sessions'
<1>. USE ServersAre DEF Sessions
<1>0. open \subseteq Servers /\ \A s \in open : Prefixes[s] \in PrefixNames
  BY DEF TypeOK
<1>1. CASE Preflighted
  <2>1. /\ phase = "preflight" /\ pc = "connect" /\ phase' = "run"
        /\ pc' = "refused" \/ pc' = "idle"
        /\ open' = open /\ registered' = registered /\ call' = call
    BY <1>1 DEF Preflighted
  <2>2. open = {} /\ \A p \in PrefixNames : registered[p] = 0 BY <2>1 DEF Unused
  <2>3. call = NoCall BY <2>1 DEF Calling
  <2>. QED BY <2>1, <2>2, <2>3 DEF Phases, Unused, Ordered, Owned, Calling
<1>2. CASE Restart
  <2>1. open = {} /\ \A p \in PrefixNames : registered[p] = 0 BY <1>2 DEF Restart, Unused
  <2>2. call = NoCall BY <1>2 DEF Restart, Calling
  <2>. QED BY <1>2, <2>1, <2>2 DEF Restart, Phases, Unused, Ordered, Owned, Calling
<1>3. CASE OpenSession
  <2>1. phase = "run" BY <1>3 DEF OpenSession, Phases, TypeOK
  <2>2. \A p \in PrefixNames : registered[p] = 0 BY <1>3 DEF OpenSession, Unused
  <2>3. call = NoCall BY <1>3 DEF OpenSession, Calling
  <2>4. Owned' BY <1>3, <2>2 DEF OpenSession, Owned, Shadowed
  <2>. QED BY <1>3, <2>1, <2>2, <2>3, <2>4 DEF OpenSession, Phases, Unused, Ordered, Calling
<1>4. CASE Opened
  <2>1. Phases' /\ Unused' /\ Ordered' BY <1>4 DEF Opened, Phases, Unused, Ordered
  <2>2. Owned' BY <1>4 DEF Opened, Owned, Shadowed
  <2>3. Calling' BY <1>4 DEF Opened, Calling
  <2>. QED BY <2>1, <2>2, <2>3
<1>5. ASSUME NEW name \in Callable, Execute(name) PROVE Sessions'
  <2>1. /\ pc = "ready" /\ pc' \in {"call", "closing"} /\ phase' = phase
        /\ open' = open /\ registered' = registered /\ listed' = listed
    BY <1>5 DEF Execute
  <2>2. phase = "run" BY <2>1 DEF Phases, TypeOK
  <2>3. Phases' /\ Unused' /\ Ordered' BY <2>1, <2>2 DEF Phases, Unused, Ordered
  <2>4. Owned' BY <2>1 DEF Owned, Shadowed
  <2>5. Calling'
    <3>1. CASE Route(name) # 0 /\ call' = [server |-> Route(name), tool |-> SuffixOf(name)] /\ pc' = "call"
      <4>1. /\ Route(name) \in Servers /\ registered[Prefixes[Route(name)]] = Route(name)
            /\ SuffixOf(name) \in listed[Route(name)]
        BY <3>1, RouteHome
      <4>2. Route(name) \in open BY <3>1, <4>1 DEF Owned
      <4>. QED BY <2>1, <3>1, <4>1, <4>2 DEF Calling
    <3>2. CASE call' = NoCall BY <3>2 DEF Calling, NoCall
    <3>. QED BY <1>5, <3>1, <3>2 DEF Execute
  <2>. QED BY <2>3, <2>4, <2>5
<1>6. ASSUME NEW flat \in BOOLEAN, Return(flat) PROVE Sessions'
  <2>1. /\ pc = "call" /\ (pc' = "ready" \/ pc' = "closing") /\ phase' = phase
        /\ open' = open /\ registered' = registered /\ call' = NoCall
    BY <1>6 DEF Return
  <2>2. phase = "run" BY <2>1 DEF Phases, TypeOK
  <2>3. Phases' /\ Unused' /\ Ordered' BY <2>1, <2>2 DEF Phases, Unused, Ordered
  <2>4. Owned' BY <2>1 DEF Owned, Shadowed
  <2>. QED BY <2>1, <2>3, <2>4 DEF Calling, NoCall
<1>7. CASE Finish
  <2>1. Phases' /\ Unused' /\ Ordered' BY <1>7 DEF Finish, Phases, Unused, Ordered
  <2>2. Owned' BY <1>7 DEF Finish, Owned, Shadowed
  <2>3. Calling' BY <1>7 DEF Finish, Calling
  <2>. QED BY <2>1, <2>2, <2>3
<1>8. CASE Closed
  <2>1. Phases' /\ Unused' /\ Ordered' BY <1>8 DEF Closed, Phases, Unused, Ordered
  <2>2. Owned' BY <1>8 DEF Closed, Owned, Shadowed
  <2>3. call = NoCall /\ call' = call BY <1>8 DEF Closed, Calling
  <2>. QED BY <2>1, <2>2, <2>3 DEF Calling
<1>9. ASSUME NEW p \in PrefixNames, Close(p) PROVE Sessions'
  <2>1. /\ pc = "closing" /\ registered[p] # 0 /\ pc' = pc /\ phase' = phase /\ at' = at
        /\ open' = open \ {registered[p]} /\ call' = call /\ listed' = listed
        /\ registered' = [registered EXCEPT ![p] = 0]
    BY <1>9 DEF Close
  <2>2. \A q \in PrefixNames : registered'[q] = IF q = p THEN 0 ELSE registered[q]
    BY <2>1 DEF TypeOK
  <2>3. phase = "run" BY <2>1 DEF Phases, TypeOK
  <2>4. Phases' /\ Unused' /\ Ordered' BY <2>1, <2>3 DEF Phases, Unused, Ordered
  <2>5. Owned'
    <3>1. ASSUME NEW q \in PrefixNames, registered'[q] # 0 PROVE registered'[q] \in open'
      <4>1. q # p /\ registered'[q] = registered[q] BY <2>2, <3>1
      <4>2. registered[q] # registered[p] BY <2>1, <2>2, <3>1, <4>1 DEF Named
      <4>. QED BY <2>1, <3>1, <4>1, <4>2 DEF Owned
    <3>2. ASSUME NEW s \in open' PROVE registered'[Prefixes[s]] = s \/ Shadowed(s)
      <4>1. s \in open /\ s \in Servers /\ s # 0 /\ s # registered[p] BY <1>0, <2>1
      <4>. QED BY <1>0, <2>1, <2>2, <4>1 DEF Owned
    <3>. QED BY <2>1, <3>1, <3>2 DEF Owned, Shadowed
  <2>6. Calling' BY <2>1 DEF Calling
  <2>. QED BY <2>4, <2>5, <2>6
<1>. QED BY <1>1, <1>2, <1>3, <1>4, <1>5, <1>6, <1>7, <1>8, <1>9

\* Every open session is accounted for, always.
LEMMA SessionsAlways == Spec => [](TypeOK /\ Named /\ Sessions)
<1>1. ASSUME Init PROVE Sessions
  <2>1. \A p \in PrefixNames : registered[p] = 0 BY <1>1 DEF Init
  <2>. QED BY <1>1, <2>1 DEF Init, Sessions, Phases, Unused, Ordered, Owned, Calling
<1>2. ASSUME TypeOK, Named, Sessions, [Next]_vars PROVE Sessions'
  <2>1. CASE UNCHANGED vars
    BY <1>2, <2>1 DEF vars, Sessions, Phases, Unused, Ordered, Owned, Calling, Shadowed
  <2>2. CASE Next BY <1>2, <2>2, ConnectionSessions, RegisterSessions, RunSessions DEF Next
  <2>. QED BY <1>2, <2>1, <2>2
<1>. QED BY <1>1, <1>2, TypesInductive, PTL DEF Spec

\* Between runs, and when the preflight has refused to start, no session is open
\* but one whose entry in the map a server of the same name took.
THEOREM Closing == Spec => []AllClosed
<1>1. ASSUME TypeOK, Sessions PROVE AllClosed
  <2>1. pc = "refused" => open = {} BY <1>1 DEF Sessions, Unused
  <2>2. ASSUME pc = "idle", NEW s \in open PROVE Shadowed(s)
    <3>1. s \in Servers /\ s # 0 /\ Prefixes[s] \in PrefixNames
      BY <1>1, <2>2, ServersAre DEF TypeOK
    <3>2. registered[Prefixes[s]] = 0 BY <1>1, <2>2, <3>1 DEF Sessions, Unused
    <3>. QED BY <1>1, <2>2, <3>1, <3>2 DEF Sessions, Owned
  <2>. QED BY <2>1, <2>2 DEF AllClosed
<1>. QED BY <1>1, SessionsAlways, PTL

\* A call reaches only an open session, for a tool this session has listed,
\* whatever the servers and their tools are named.
THEOREM CallsReach == Spec => []CallsListed
<1>1. Sessions => CallsListed BY DEF Sessions, Calling, CallsListed
<1>. QED BY <1>1, SessionsAlways, PTL

-----------------------------------------------------------------------------
(* Offers. What a run offers stands for a tool its server has listed; a    *)
(* server alone with its name stays registered until the run closes.       *)

During == phase = "run" /\ pc \in {"connect", "list", "ready", "call"}

Offers ==
  /\ phase = "preflight" \/ pc \in {"idle", "refused"} => offered = {}
  /\ pc \in {"connect", "list"} => \A o \in offered : o.server < at
  /\ \A o \in offered : o.tool # <<>> /\ o.name = Exported(o.server, o.tool)
  /\ During => \A o \in offered :
       /\ o.tool \in listed[o.server]
       /\ Alone(o.server) => registered[Prefixes[o.server]] = o.server

\* Registering a server adds its tools to the offers.
LEMMA RegisterOffers ==
  ASSUME TypeOK, Named, Sessions, Offers, NEW tools \in SUBSET ToolNames, Register(tools)
  PROVE  Offers'
<1>1. /\ at \in Servers /\ at \in Nat /\ pc = "list" /\ phase = "run"
      /\ pc' = "connect" /\ at' = at + 1 /\ phase' = phase
  BY ServersAre DEF Register, Named, Skip
<1>2. PICK all \in SUBSET ToolNames :
        /\ listed' = [listed EXCEPT ![at] = all]
        /\ offered' = offered \cup OfferedBy(at, all)
  BY <1>1 DEF Register, TypeOK
<1>3. registered' = [registered EXCEPT ![Prefixes[at]] = at] BY DEF Register
<1>4. Prefixes[at] \in PrefixNames BY <1>1, ServersAre
<1>5. ASSUME NEW o \in offered
      PROVE  /\ o.server < at' /\ o.tool # <<>> /\ o.name = Exported(o.server, o.tool)
             /\ o.tool \in listed'[o.server]
             /\ Alone(o.server) => registered'[Prefixes[o.server]] = o.server
  <2>1. PICK s \in Servers : s = o.server BY <1>5 DEF TypeOK
  <2>2. s \in Nat /\ s < at BY <1>1, <2>1, ServersAre DEF Offers
  <2>3. o.tool # <<>> /\ o.name = Exported(o.server, o.tool) BY DEF Offers
  <2>4. /\ o.tool \in listed[s]
        /\ Alone(s) => registered[Prefixes[s]] = s
    BY <1>1, <2>1 DEF Offers, During
  <2>5. listed'[s] = listed[s] BY <1>1, <1>2, <2>2 DEF TypeOK
  <2>6. ASSUME Alone(s) PROVE registered'[Prefixes[s]] = s
    <3>1. Prefixes[s] # Prefixes[at] BY <1>1, <2>2, <2>6 DEF Alone
    <3>. QED BY <1>3, <2>1, <2>4, <2>6, <3>1, ServersAre DEF TypeOK
  <2>. QED BY <1>1, <2>1, <2>2, <2>3, <2>4, <2>5, <2>6
<1>6. ASSUME NEW o \in OfferedBy(at, all)
      PROVE  /\ o.server < at' /\ o.tool # <<>> /\ o.name = Exported(o.server, o.tool)
             /\ o.tool \in listed'[o.server]
             /\ Alone(o.server) => registered'[Prefixes[o.server]] = o.server
  <2>1. PICK tool \in all \ {<<>>} : o = [name |-> Exported(at, tool), server |-> at, tool |-> tool]
    BY <1>6 DEF OfferedBy
  <2>2. listed'[at] = all BY <1>1, <1>2 DEF TypeOK
  <2>3. registered'[Prefixes[at]] = at BY <1>3, <1>4 DEF TypeOK
  <2>. QED BY <1>1, <2>1, <2>2, <2>3
<1>. QED BY <1>1, <1>2, <1>5, <1>6 DEF Offers, During

\* Every other step leaves the offers as they are, or ends the run.
LEMMA OtherOffers ==
  ASSUME TypeOK, Named, Sessions, Offers, Next,
         ~ \E tools \in SUBSET ToolNames : Register(tools)
  PROVE  Offers'
<1>. USE ServersAre
<1>0. at \in Nat /\ \A o \in offered : o.server \in Nat
  <2>1. at \in Nat BY DEF TypeOK
  <2>2. \A o \in offered : o.server \in Servers BY DEF TypeOK
  <2>. QED BY <2>1, <2>2
<1>1. ASSUME offered' = {} PROVE Offers' BY <1>1 DEF Offers
<1>2. CASE \/ Restart \/ OpenSession \/ Closed \/ Preflighted
           \/ \E error \in BOOLEAN : PreflightClose(error)
           \/ \E tools \in SUBSET ToolNames : ListEnds(tools)
  <2>1. PreflightClose(TRUE) \/ PreflightClose(FALSE) => phase = "preflight"
    BY DEF PreflightClose, Sessions, Phases
  <2>2. offered' = {}
    BY <1>2, <2>1 DEF Restart, OpenSession, Closed, Preflighted, PreflightClose, ListEnds,
                      Unregistered, Offers
  <2>. QED BY <1>1, <2>2
<1>3. CASE Connect \/ Opened \/ Finish
  BY <1>3 DEF Connect, Opened, Finish, Unregistered, Offers, During
<1>4. CASE ConnectFails
  BY <1>0, <1>4 DEF ConnectFails, Skip, Unregistered, Offers, During
<1>5. CASE ListFails
  <2>1. \A o \in offered : o.server < at /\ o.server # at BY <1>0, <1>5 DEF ListFails, Offers
  <2>2. \A o \in offered : listed'[o.server] = listed[o.server]
    BY <1>5, <2>1 DEF ListFails, TypeOK
  <2>. QED BY <1>0, <1>5, <2>1, <2>2 DEF ListFails, Skip, Unregistered, Offers, During
<1>6. ASSUME NEW tools \in SUBSET ToolNames, ListPage(tools) PROVE Offers'
  <2>1. \A o \in offered : o.server < at /\ o.server # at BY <1>0, <1>6 DEF ListPage, Offers
  <2>2. \A o \in offered : listed'[o.server] = listed[o.server]
    BY <1>6, <2>1 DEF ListPage, TypeOK
  <2>. QED BY <1>6, <2>1, <2>2 DEF ListPage, Unregistered, Offers, During
<1>7. ASSUME NEW name \in Callable, Execute(name) PROVE Offers'
  BY <1>7 DEF Execute, Offers, During, Sessions, Phases
<1>8. ASSUME NEW flat \in BOOLEAN, Return(flat) PROVE Offers'
  BY <1>8 DEF Return, Offers, During, Sessions, Phases
<1>9. ASSUME NEW p \in PrefixNames, Close(p) PROVE Offers'
  BY <1>9 DEF Close, Offers, During
<1>. QED BY <1>2, <1>3, <1>4, <1>5, <1>6, <1>7, <1>8, <1>9 DEF Next

\* A tool offered by a server with a plain name of its own is routed to it.
LEMMA OfferRoutes ==
  ASSUME TypeOK, Offers, During, NEW o \in offered, Plain(Prefixes[o.server]), Alone(o.server)
  PROVE  Route(o.name) = o.server /\ SuffixOf(o.name) = o.tool
<1>1. PICK s \in Servers, tool \in Seq(Chars) : s = o.server /\ tool = o.tool
  BY NamesAssumption DEF TypeOK
<1>2. tool # <<>> /\ o.name = Exported(s, tool) BY <1>1 DEF Offers
<1>3. Splits(o.name) /\ PrefixOf(o.name) = Prefixes[s] /\ SuffixOf(o.name) = tool
  BY <1>1, <1>2, PlainReturns
<1>4. registered[Prefixes[s]] = s /\ tool \in listed[s] BY <1>1 DEF Offers
<1>5. s # 0 /\ Prefixes[s] \in PrefixNames BY <1>1, ServersAre
<1>. QED BY <1>1, <1>2, <1>3, <1>4, <1>5 DEF Route

\* Whatever else is configured beside it, a server with a plain name of its own
\* gets exactly the calls of the tools it has offered.
THEOREM Routing == Spec => []RoutesHome
<1>1. Init => Offers BY DEF Init, Offers
<1>2. ASSUME TypeOK, Named, Sessions, Offers, [Next]_vars PROVE Offers'
  <2>1. CASE UNCHANGED vars BY <1>2, <2>1 DEF vars, Offers, During, Alone
  <2>2. CASE Next BY <1>2, <2>2, RegisterOffers, OtherOffers
  <2>. QED BY <1>2, <2>1, <2>2
<1>3. ASSUME TypeOK, Sessions, Offers PROVE RoutesHome
  <2>1. ASSUME pc \in {"ready", "call"} PROVE During
    BY <1>3, <2>1 DEF During, Sessions, Phases, TypeOK
  <2>. QED BY <1>3, <2>1, OfferRoutes DEF RoutesHome
<1>. QED BY <1>1, <1>2, <1>3, SessionsAlways, PTL DEF Spec

=============================================================================
