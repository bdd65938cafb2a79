------------------------------ MODULE FcpMessages ------------------------------
(***************************************************************************)
(* What a message of the Freenet node does to the job it belongs to: the   *)
(* header cases of FCPNode._on_rxMsg (src/fcp3/node.py), with the job      *)
(* attributes those cases read.                                            *)
(*                                                                         *)
(* A message is [ident, hdr, kw]: its Identifier field, its header and the *)
(* set of its other fields that the dispatcher looks at, each written as   *)
(* "Name" or "Name=value".  A job is [id, cmd, kw, opts]: kw is the set of *)
(* FCP keywords it was submitted with, opts the Python-side options.  A    *)
(* job made for a message nobody asked for takes the fields of the message *)
(* as its kw.                                                              *)
(***************************************************************************)

Global   == "__global"      \* the id of jobs that have no identifier
NoIdent  == "(none)"        \* a message without an Identifier field
DirIdent == "/directory"    \* an Identifier that starts with a slash

JobId(m) == IF m.ident \in {NoIdent, DirIdent} THEN Global ELSE m.ident

(***************************************************************************)
(* Attributes of a job.                                                    *)
(***************************************************************************)
BeyondConnection == {"Persistent=reboot", "Persistent=forever", 
                     "PersistenceType=reboot", "PersistenceType=forever"}

\* The requests of this library say "Persistence=..." instead: what counts are
\* the announcements of requests made elsewhere, which say "PersistenceType=...".
IsPersistent(job) == job.kw \cap BeyondConnection # {}
IsGlobal(job) == "Global=true" \in job.kw
Sticky(job)   == "keep" \in job.opts \/ IsPersistent(job) \/ IsGlobal(job)

\* Variant: the raw identifier is used.
JobForRaw(m) == 
  [id |-> m.ident, cmd |-> m.hdr, kw |-> m.kw, opts |-> {"followRedirect"}]

\* The job the dispatcher makes for a message of an unknown identifier.
JobFor(m) == 
  [id |-> JobId(m), cmd |-> m.hdr, kw |-> m.kw, opts |-> {"followRedirect"}]

\* Attributes a new ticket has beyond its constructor's.
FirstFlags(job) == 
  IF job.cmd = "ClientPut" /\ "Metadata.ContentType" \in job.kw 
  THEN {"mimetype"} ELSE {}

--------------------------------------------------------------------------------
(***************************************************************************)
(* The header cases.                                                       *)
(***************************************************************************)
ThenPopped == {"SSKKeypair", "ConfigData", "TestDDAReply", "TestDDAComplete", 
               "NodeData"}

Listings == {"PluginInfo", "FCPPluginReply", "EndListPeers", "PeerRemoved", 
             "UnknownNodeIdentifier", "EndListPeerNotes", "UnknownPeerNoteType",
             "EndListPersistentRequests"}

Progress == {"CompatibilityMode", "ExpectedMIME", "ExpectedDataLength", 
             "URIGenerated", "PutFetchable", "StartedCompression", 
             "FinishedCompression", "SimpleProgress", "SendingToNetwork", 
             "EnterFiniteCooldown", "ExpectedHashes", "PersistentGet", 
             "PersistentPut", "PersistentPutDir", "SubscribedUSK", 
             "SubscribedUSKUpdate", "SubscribedUSKRoundFinished", 
             "SubscribedUSKSendingToNetwork"}

Handled == ThenPopped \cup Listings \cup Progress \cup
           {"DataFound", "AllData", "GetFailed", "PutSuccessful", "Peer", 
            "PeerNote", "PersistentRequestRemoved"}

ReturnTypes == {"ReturnType=direct", "ReturnType=none", "ReturnType=disk"}

Redirected(job, m) == 
  /\ m.hdr = "GetFailed" 
  /\ "followRedirect" \in job.opts
  /\ m.kw \cap {"Code=27", "Code=11"} # {}

\* A listing reply that is one entry of a list, not the answer.
IsEntry(job, m) == \/ m.hdr = "Peer"     /\ job.cmd = "ListPeers"
                   \/ m.hdr = "PeerNote" /\ job.cmd = "ListPeerNotes"

\* DataFound ends a get whose data goes to a file or nowhere.
DataElsewhere(job) == job.kw \cap {"Filename", "ReturnType=none"} # {}

\* The handler raises KeyError (no ReturnType) or AttributeError (no mimetype).
Raises(job, flags, m) ==
  \/ m.hdr = "DataFound" /\ job.kw \cap (ReturnTypes \cup {"Filename"}) = {}
  \/ m.hdr = "AllData" /\ "mimetype" \notin flags

Succeeds(job, m) ==
  \/ m.hdr \in ThenPopped \cup Listings \cup {"AllData"}
  \/ m.hdr \in {"Peer", "PeerNote"} /\ ~IsEntry(job, m)
  \/ m.hdr = "PutSuccessful" /\ "URI" \in m.kw
  \/ m.hdr = "DataFound" /\ DataElsewhere(job)

\* PutFailed, ProtocolError, IdentifierCollision and every unknown header.
Fails(job, m) == \/ m.hdr = "GetFailed" /\ ~Redirected(job, m)
                 \/ m.hdr \notin Handled

Forgets(m) == m.hdr = "PersistentRequestRemoved"

\* Only logged: the job stays without a result.
IsEmptyPut(m) == m.hdr = "PutSuccessful" /\ "URI" \notin m.kw

\* A get whose data has to be asked for, once.
AsksStatus(job, flags, m) ==
  /\ m.hdr = "DataFound" 
  /\ ~DataElsewhere(job)
  /\ "ReturnType=direct" \in job.kw
  /\ "Persistence=connection" \notin job.kw
  /\ "gotPersistentDataFound" \notin flags

\* Nothing but the callback and the attributes: progress reports, list entries.
IsNews(job, flags, m) ==
  ~( \/ Raises(job, flags, m) \/ Succeeds(job, m) \/ Fails(job, m) 
     \/ Redirected(job, m) \/ AsksStatus(job, flags, m) 
     \/ Forgets(m) \/ IsEmptyPut(m) )

\* Variant: DataFound does not note the mimetype.
NewFlagsForgotten(job, flags, m) ==
  flags \cup (IF m.hdr = "ExpectedMIME" THEN {"mimetype"} ELSE {})
        \cup (IF AsksStatus(job, flags, m) THEN {"gotPersistentDataFound"} ELSE {})

\* The attributes the handler sets on the ticket.
NewFlags(job, flags, m) ==
  flags \cup (IF m.hdr \in {"DataFound", "ExpectedMIME"} /\ ~Succeeds(job, m)
              THEN {"mimetype"} ELSE {})
        \cup (IF AsksStatus(job, flags, m) THEN {"gotPersistentDataFound"} ELSE {})
================================================================================
