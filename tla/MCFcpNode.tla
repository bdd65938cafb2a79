------------------------------- MODULE MCFcpNode -------------------------------
(***************************************************************************)
(* Small instances of FcpNode: the requests clients make and the messages  *)
(* the node may send, one of each kind the dispatcher tells apart.         *)
(***************************************************************************)
EXTENDS FcpNodeInv, TLC

Symmetry == Permutations(Tickets) \cup Permutations(Clients)

Req(id, cmd, kw, opts) == 
  [id |-> id, cmd |-> cmd, kw |-> kw, opts |-> opts \cup {"followRedirect"}]
Msg(ident, hdr, kw) == [ident |-> ident, hdr |-> hdr, kw |-> kw]

Get(id)  == Req(id, "ClientGet", {"ReturnType=direct", "Persistence=connection"}, {})
Peers    == Req(Global, "ListPeers", {}, {})
Watch    == Req("None", "WatchGlobal", {}, {})    \* listenGlobal passes no id
Refresh  == Req(Global, "ListPersistentRequests", {}, {})

\* One direct get and the global listing, as transient jobs.
BasicRequests == {Get("a"), Peers, Watch}
ServedRequests == {Get("a"), Peers}
BasicMessages == 
  {Msg("a", "DataFound", {}), Msg("a", "AllData", {}), 
   Msg("a", "GetFailed", {"Code=27"}), Msg("a", "GetFailed", {}),
   Msg(NoIdent, "EndListPeers", {}), Msg(NoIdent, "ConfigData", {})}

\* Jobs that stay in the table: one kept, one on the global queue; and the
\* persistent get of another connection, announced and then reported on.
StickyRequests == 
  {Req("a", "ClientGet", {"ReturnType=none"}, {"keep"}),
   Req("b", "ClientPut", {"Global=true", "Persistence=forever"}, {})}
StickyMessages ==
  {Msg("a", "DataFound", {}), Msg("a", "ProtocolError", {}),
   Msg("b", "PutSuccessful", {"URI"}), Msg("b", "PutSuccessful", {}),
   Msg("b", "PersistentRequestRemoved", {}), 
   Msg("b", "PersistentGet", {"PersistenceType=reboot", "ReturnType=direct"}),
   Msg("b", "DataFound", {}), Msg("b", "AllData", {})}

\* A direct get and one whose data go nowhere, and all that a node answers them
\* with; beside them the persistent get of another connection comes and goes.
GetRequests == {Get("a"), Req("b", "ClientGet", {"ReturnType=none"}, {})}
GetMessages == UNION {
  {Msg(i, "DataFound", {}), Msg(i, "AllData", {}), Msg(i, "SimpleProgress", {}),
   Msg(i, "GetFailed", {"Code=27"}), Msg(i, "GetFailed", {})} : i \in {"a", "b"}}
  \cup {Msg("c", "PersistentGet", {"PersistenceType=forever", "ReturnType=direct"}),
        Msg("c", "PersistentRequestRemoved", {})}

StopRequests == {Get("a"), Refresh}
StopMessages == {Msg("a", "GetFailed", {}), 
                 Msg(NoIdent, "EndListPersistentRequests", {})}
================================================================================
