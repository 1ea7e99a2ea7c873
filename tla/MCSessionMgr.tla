---------------------------- MODULE MCSessionMgr ----------------------------
(* The environments of the session cache for the run. *)
EXTENDS SessionMgr, TLC

Env == [modes |-> {{"server"}}, limits |-> {0}, external |-> FALSE, tickets |-> FALSE,
        servers |-> 0, clients |-> 0, objects |-> 2, app |-> 0]

MCSettings == {
  \* Two servers share a cache of one entry and set the start time again.
  [Env EXCEPT !.servers = 2, !.objects = 3, !.modes = {{"server", "timeUpdate"}}, !.limits = {1}],
  \* A client whose application keeps sessions and hands them back.
  [Env EXCEPT !.clients = 1, !.objects = 3, !.modes = {{"client", "server"}}, !.limits = {0, 1}, !.app = 1],
  \* A server whose application answers the lookups that fail.
  [Env EXCEPT !.servers = 1, !.external = TRUE, !.modes = {{"server", "timeUpdate"}}, !.app = 1],
  \* A server with tickets and changing modes.
  [Env EXCEPT !.servers = 1, !.tickets = TRUE, !.limits = {0, 1}, !.app = 1,
              !.modes = {{"server", "noCleanup"}, {"server", "noLookup"}, {"noStore", "server"}}]}

Symmetric == Permutations(Sess) \cup Permutations(Ids) \cup Permutations(Servers)
=============================================================================
