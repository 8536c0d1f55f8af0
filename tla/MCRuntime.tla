----------------------------- MODULE MCRuntime -----------------------------
(* Instances of Runtime for TLC: a file that is accepted, files that differ *)
(* from it in one or two places, and every database a start may find.       *)
EXTENDS Runtime, TLC

Telegram == [token |-> "token", poll |-> ""]
Admin == [ids |-> <<2, 0, 2>>, legacy |-> 1]
Responses == [provider |-> "openai", key |-> "key", model |-> "model", timeout |-> "5s"]
Search == [enabled |-> "", key |-> "key", model |-> "", timeout |-> ""]
Off == [enabled |-> "false", key |-> "", model |-> "", timeout |-> "0s"]
Server == [name |-> "s", enabled |-> "", transport |-> "stdio", address |-> "command"]

File == [decodes |-> TRUE, telegram |-> Telegram, admin |-> Admin, path |-> "",
         responses |-> Responses, web |-> Search, x |-> Off, servers |-> <<Server>>]

\* Files that a start is to refuse, each for a reason of its own.
Refused ==
  {[File EXCEPT !.decodes = FALSE], [File EXCEPT !.telegram = Absent],
   [File EXCEPT !.telegram.poll = "soon"], [File EXCEPT !.admin = Absent],
   [File EXCEPT !.admin = [ids |-> <<0>>, legacy |-> 0]],
   [File EXCEPT !.path = "file:mangoduck.db"], [File EXCEPT !.responses = Absent],
   [File EXCEPT !.responses.provider = "other"], [File EXCEPT !.responses.key = ""],
   [File EXCEPT !.responses.timeout = "0s"], [File EXCEPT !.web = Absent],
   [File EXCEPT !.x = Search, !.x.key = ""], [File EXCEPT !.x = Search, !.x.timeout = "0s"],
   [File EXCEPT !.servers = <<Absent>>],
   [File EXCEPT !.servers = <<[Server EXCEPT !.transport = "pipe"]>>]}

Accepted ==
  {File, [File EXCEPT !.web.model = "model", !.x = Search, !.admin.ids = <<>>],
   [File EXCEPT !.web = Off, !.servers = <<[Server EXCEPT !.enabled = "false"]>>]}

FewFiles == Accepted \cup Refused

DatabaseStates ==
  {file \in DatabaseFiles :
     /\ Sound(file)
     /\ file.version \in {0, 1, 5, 10, 11}
     /\ file.version = 0 => ~file.dirty /\ file.schema = "none"
     /\ file.version \in {5, 10, 11} /\ ~file.dirty => file.schema # "none"
     /\ file.version = 1 => file.schema # "legacy"}

=============================================================================
