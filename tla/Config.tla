------------------------------- MODULE Config -------------------------------
(***************************************************************************)
(* config.yaml, what internal/config makes of it, and what the             *)
(* constructors that New calls afterwards ask of the result.               *)
(*                                                                         *)
(* A text is "" when nothing is left of it after trimming; a duration is   *)
(* written "", "5s", "0s" or as something that is not one; an id is a      *)
(* number.  A section the file leaves out is Absent.                       *)
(***************************************************************************)
EXTENDS Naturals, Sequences, SequencesExt

CONSTANT Absent  \* a section, or a list entry, that is not there

\* time.ParseDuration, in seconds.
ParseDuration(written) == IF written = "0s" THEN 0 ELSE 5

ParseDurationWithDefault(written, default) ==
  IF written = "" THEN default ELSE ParseDuration(written)

\* The sections that hold a duration, by the field that holds it.
BadDuration(raw) ==
  \/ raw.telegram # Absent /\ raw.telegram.poll = "soon"
  \/ \E section \in {raw.responses, raw.web, raw.x} :
       section # Absent /\ section.timeout = "soon"

\* validateMCPServer: an unnamed server, an unknown transport, or one whose
\* address (URL or command) is missing.
ValidServer(server) ==
  /\ server # Absent
  /\ server.name # ""
  /\ server.transport \in {"streamable_http", "stdio"}
  /\ server.address # ""

\* Load and buildConfig accept the file.
Loads(raw) ==
  /\ raw.decodes
  /\ ~BadDuration(raw)
  /\ \A i \in DOMAIN raw.servers : ValidServer(raw.servers[i])

\* Mutant: ids are taken over as they are written.
KeepAdminTGIDs(ids, legacy) == Append(ids, legacy)

\* The ids in the order written, the legacy one last, without zeros and repeats.
NormalizeAdminTGIDs(ids, legacy) ==
  LET all == Append(ids, legacy)
      taken[n \in 0..Len(all)] ==
        IF n = 0 THEN <<>>
        ELSE IF all[n] = 0 \/ Contains(taken[n - 1], all[n]) THEN taken[n - 1]
             ELSE Append(taken[n - 1], all[n])
  IN  taken[Len(all)]

DefaultWebModel == "gpt-5.4-nano"

\* applyWebSearchConfig and applyXSearchConfig: a section that is there
\* replaces every default but those of `enabled` and the timeout.
SearchConfig(section, model) ==
  IF section = Absent THEN [enabled |-> TRUE, key |-> "", model |-> model, timeout |-> 30]
  ELSE [enabled |-> section.enabled # "false", key |-> section.key, model |-> section.model,
        timeout |-> ParseDurationWithDefault(section.timeout, 30)]

\* buildConfig, for a file that Loads.
BuildConfig(raw) ==
  [token |-> IF raw.telegram = Absent THEN "" ELSE raw.telegram.token,
   poll |-> IF raw.telegram = Absent THEN 10
            ELSE ParseDurationWithDefault(raw.telegram.poll, 10),
   admins |-> IF raw.admin = Absent THEN <<>>
              ELSE NormalizeAdminTGIDs(raw.admin.ids, raw.admin.legacy),
   path |-> IF raw.path = "" THEN "mangoduck.db" ELSE raw.path,
   provider |-> IF raw.responses = Absent THEN "" ELSE raw.responses.provider,
   key |-> IF raw.responses = Absent THEN "" ELSE raw.responses.key,
   model |-> IF raw.responses = Absent THEN "" ELSE raw.responses.model,
   timeout |-> IF raw.responses = Absent THEN 30
               ELSE ParseDurationWithDefault(raw.responses.timeout, 30),
   web |-> SearchConfig(raw.web, DefaultWebModel),
   x |-> SearchConfig(raw.x, ""),
   servers |-> raw.servers]

\* AdminTGID is the first of the normalized ids.
IsAdminTGID(cfg, id) == id # 0 /\ Contains(cfg.admins, id)

\* A SQLite file path and no URI; db.Open and Validate ask for the same.
ValidPath(path) == path \notin {"", "file:mangoduck.db", "mangoduck.db?mode=ro"}

ValidSearch(search) == search.enabled => search.key # "" /\ search.timeout > 0

\* Mutant: the key of x-search is not asked for.
ValidateWithoutXKey(cfg) ==
  /\ cfg.token # "" /\ cfg.admins # <<>> /\ ValidPath(cfg.path)
  /\ cfg.poll > 0 /\ cfg.timeout > 0
  /\ cfg.provider \in {"openai", "xai"} /\ cfg.key # "" /\ cfg.model # ""
  /\ ValidSearch(cfg.web)
  /\ cfg.x.enabled => cfg.x.timeout > 0

Validate(cfg) ==
  /\ cfg.token # "" /\ cfg.admins # <<>> /\ ValidPath(cfg.path)
  /\ cfg.poll > 0 /\ cfg.timeout > 0
  /\ cfg.provider \in {"openai", "xai"} /\ cfg.key # "" /\ cfg.model # ""
  /\ ValidSearch(cfg.web)
  /\ ValidSearch(cfg.x)

-----------------------------------------------------------------------------
(* The constructors                                                        *)

\* The places of the servers that mcpbridge.New keeps.
EnabledServers(cfg) == {i \in DOMAIN cfg.servers : cfg.servers[i].enabled # "false"}

\* newResponsesClient, initializeSearchServices and mcpbridge.New accept cfg:
\* a known provider, a key for each client, and known transports.
Constructs(cfg) ==
  /\ cfg.provider \in {"openai", "xai"}
  /\ cfg.key # ""
  /\ cfg.web.enabled => cfg.web.key # ""
  /\ cfg.x.enabled => cfg.x.key # ""
  /\ \A i \in EnabledServers(cfg) :
       cfg.servers[i].transport \in {"streamable_http", "stdio"}

\* The model a search service asks for: its own default in place of a blank.
ServiceModel(model, default) == IF model = "" THEN default ELSE model

=============================================================================
